---------------------------- MODULE UserOAuthProofs -----------------------------
(***************************************************************************)
(* The Slack credential of a user, for any processes, handlers, callbacks, *)
(* links and numbers of credentials and faults: rotation never strands the *)
(* user, a credential is lost only for a cause, none stays usable outside  *)
(* the store, and a link grants once.                                      *)
(***************************************************************************)
EXTENDS UserOAuth, FiniteSetTheorems, TLAPS

HandlerPc == {"read", "joined", "validate", "erase", "using", "findFailed", "eraseFailed",
              "revokeFailed", "offer", "done"}
Granting == {"save", "discardAccess", "discardRefresh"}
CallbackPc == {"consume", "exchange", "done"} \cup Granting
Carrying == {"replace", "dropAccess", "dropRefresh"}
Maybe == Cred \cup {None}

------------------------------------------------------------------------------
(* Types *)

IsCall(k) ==
  /\ DOMAIN k = {"pc", "goal", "seen", "held", "tries"}
  /\ k.goal \in {"use", "link", "again", "relink"} /\ k.tries \in Nat
  /\ k.seen \in Maybe /\ k.held \in Maybe

\* Which credentials a handler or a callback has where it is.
HandlerAt(k) ==
  /\ k.pc \in HandlerPc
  /\ k.pc \in {"using", "findFailed", "eraseFailed", "revokeFailed"} => k.held \in Cred
  /\ k.pc \in {"validate", "erase", "eraseFailed"} => k.seen \in Cred
  /\ k.pc = "eraseFailed" => k.seen = k.held
CallbackAt(k) ==
  /\ k.pc \in CallbackPc /\ k.seen = None
  /\ k.pc \in {"consume", "exchange"} => k.held = None
  /\ k.pc \in Granting => k.held \in Cred

CallTypes ==
  /\ DOMAIN call = Call
  /\ \A t \in Call : IsCall(call[t])
  /\ \A t \in Handler : HandlerAt(call[t])
  /\ \A t \in Callback : CallbackAt(call[t])

FlightAt(f) ==
  /\ DOMAIN f = {"pc", "seen", "new", "force"}
  /\ f.pc \in {"idle", "read", "rotate", "erase"} \cup Carrying
  /\ f.pc \in {"idle", "read"} => f.seen = None
  /\ f.pc \in {"rotate", "erase"} \cup Carrying => f.seen \in Cred
  /\ f.pc \in Carrying => f.new \in Cred
  /\ f.pc \notin Carrying => f.new = None
FlightTypes == DOMAIN flight = Proc /\ \A p \in Proc : FlightAt(flight[p])

TokenTypes ==
  /\ stored \in Maybe /\ issued \in 0 .. MaxCreds
  /\ access \in [Cred -> {"none", "live", "expired", "dead"}]
  /\ refresh \in [Cred -> {"none", "live", "dead"}]

Types == CallTypes /\ FlightTypes /\ TokenTypes /\ faults \in Nat

\* A call that waits or comes to an end keeps the credentials it knows.
Quiet(k, k2) ==
  /\ IsCall(k2) /\ k2.seen = k.seen /\ k2.held = k.held
  /\ k2.pc \in {"read", "joined", "offer", "done"}

\* What the steps of a call make of it.
LEMMA QuietMoves ==
  ASSUME NEW k, IsCall(k)
  PROVE  /\ Quiet(k, Required(k)) /\ Quiet(k, Thrown(k)) /\ Quiet(k, Again(k))
         /\ Quiet(k, Invalidated(k)) /\ Quiet(k, Ended(k)) /\ Quiet(k, At(k, "joined"))
<1>1. \A pc, goal : LET g == Get(k, goal) a == At(k, pc) IN
        /\ DOMAIN g = DOMAIN k /\ g.pc = "read" /\ g.goal = goal /\ g.tries = Retries
        /\ g.seen = k.seen /\ g.held = k.held
        /\ DOMAIN a = DOMAIN k /\ a.pc = pc /\ a.goal = k.goal /\ a.tries = k.tries
        /\ a.seen = k.seen /\ a.held = k.held
  BY DEF Get, At, IsCall
<1>2. Retries \in Nat
  BY UserOAuthAssumption
<1>3. \A goal \in {"use", "link", "again", "relink"} : Quiet(k, Get(k, goal))
  BY <1>1, <1>2 DEF Quiet, IsCall
<1>4. \A pc \in {"read", "joined", "offer", "done"} : Quiet(k, At(k, pc))
  BY <1>1 DEF Quiet, IsCall
<1>5. Quiet(k, Required(k)) /\ Quiet(k, Thrown(k)) /\ Quiet(k, Ended(k)) /\ Quiet(k, Invalidated(k))
  BY <1>3, <1>4 DEF Required, Thrown, Ended, Invalidated
<1>6. ASSUME k.tries > 0  PROVE Quiet(k, [k EXCEPT !.pc = "read", !.tries = @ - 1])
  BY <1>6 DEF Quiet, IsCall
<1> QED BY <1>4, <1>5, <1>6 DEF Again

\* getAccessToken returns to its handler.
LEMMA ReturnedMoves ==
  ASSUME NEW k, IsCall(k), NEW c \in Cred
  PROVE  \/ Quiet(k, Returned(k, c))
         \/ /\ IsCall(Returned(k, c)) /\ Returned(k, c).pc = "using"
            /\ Returned(k, c).seen = k.seen /\ Returned(k, c).held = c
<1>1. Quiet(k, Ended(k)) /\ Quiet(k, Get(k, "again"))
  <2>1. Quiet(k, Get(k, "again"))
    BY UserOAuthAssumption DEF Get, Quiet, IsCall
  <2> QED BY <2>1, QuietMoves
<1>2. LET u == [k EXCEPT !.pc = "using", !.held = c] IN
      IsCall(u) /\ u.pc = "using" /\ u.seen = k.seen /\ u.held = c
  BY DEF IsCall, Maybe
<1>3. Returned(k, c) \in {Ended(k), Get(k, "again"), [k EXCEPT !.pc = "using", !.held = c]}
  BY DEF Returned, IsCall
<1> QED BY <1>1, <1>2, <1>3

\* A step of the flight f to g, at pc, with what it read and what it was given.
Flown(g, pc, seen, new) == FlightAt(g) /\ g.pc = pc /\ g.seen = seen /\ g.new = new

\* What the steps of a refresh make of it.
LEMMA FlownMoves ==
  /\ Flown(Idle, "idle", None, None)
  /\ \A force : Flown([Idle EXCEPT !.pc = "read", !.force = force], "read", None, None)
  /\ \A f : FlightAt(f) =>
       /\ f.pc = "read" => \A c \in Cred : Flown([f EXCEPT !.pc = "rotate", !.seen = c], "rotate", c, None)
       /\ f.pc = "rotate" => /\ Flown([f EXCEPT !.pc = "erase"], "erase", f.seen, None)
                             /\ \A c \in Cred : Flown([f EXCEPT !.pc = "replace", !.new = c], "replace", f.seen, c)
       /\ f.pc \in Carrying => \A pc \in Carrying : Flown([f EXCEPT !.pc = pc], pc, f.seen, f.new)
<1> USE DEF Flown, FlightAt, Carrying
<1>1. Flown(Idle, "idle", None, None)
  BY DEF Idle
<1>2. ASSUME NEW force  PROVE Flown([Idle EXCEPT !.pc = "read", !.force = force], "read", None, None)
  BY DEF Idle
<1>3. ASSUME NEW f, FlightAt(f), f.pc = "read", NEW c \in Cred
      PROVE  Flown([f EXCEPT !.pc = "rotate", !.seen = c], "rotate", c, None)
  BY <1>3
<1>4. ASSUME NEW f, FlightAt(f), f.pc = "rotate"
      PROVE  Flown([f EXCEPT !.pc = "erase"], "erase", f.seen, None)
  BY <1>4
<1>5. ASSUME NEW f, FlightAt(f), f.pc = "rotate", NEW c \in Cred
      PROVE  Flown([f EXCEPT !.pc = "replace", !.new = c], "replace", f.seen, c)
  BY <1>5
<1>6. ASSUME NEW f, FlightAt(f), f.pc \in Carrying, NEW pc \in Carrying
      PROVE  Flown([f EXCEPT !.pc = pc], pc, f.seen, f.new)
  BY <1>6
<1> QED BY <1>1, <1>2, <1>3, <1>4, <1>5, <1>6

\* The steps that make more of a call than a quiet one.
HandlerStep(t) == Read(t) \/ Validate(t) \/ Use(t) \/ FindFailed(t) \/ EraseFailed(t)
CallbackStep(t) == Consume(t) \/ Exchange(t) \/ Save(t) \/ SaveFails(t) \/ Discard(t) \/ DiscardFails(t)

\* Whoever awaits a refresh that settles goes on quietly, the others stay.
LEMMA SettleMoves ==
  ASSUME CallTypes, NEW p \in Proc, NEW t \in Call,
         \/ Settle(p, Required) \/ Settle(p, Again) \/ Settle(p, Thrown)
  PROVE  call'[t] = call[t] \/ (t \in Handler /\ Quiet(call[t], call'[t]))
<1>1. IsCall(call[t])
  BY DEF CallTypes
<1>2. call'[t] = call[t] \/ (Waits(t, p) /\ call'[t] \in {Required(call[t]), Again(call[t]), Thrown(call[t])})
  BY DEF Settle
<1>3. Waits(t, p) => t \in Handler
  BY DEF Waits, CallTypes, CallbackAt, CallbackPc, Granting, Call
<1> QED BY <1>1, <1>2, <1>3, QuietMoves

\* What any step makes of a call.
LEMMA CallMoves ==
  ASSUME CallTypes, Next, NEW t \in Call
  PROVE  \/ call'[t] = call[t] \/ call'[t] = Ended(call[t])
         \/ t \in Handler /\ (Quiet(call[t], call'[t]) \/ HandlerStep(t))
         \/ t \in Callback /\ CallbackStep(t)
<1>1. IsCall(call[t]) /\ DOMAIN call = Call
  BY DEF CallTypes
<1>2. t \in Handler \/ (t \in Callback /\ call[t].pc \in CallbackPc)
  BY DEF CallTypes, CallbackAt, Call
<1>3. ASSUME NEW u \in Call, NEW k, Goes(u, k)
      PROVE  call'[t] = IF t = u THEN k ELSE call[t]
  BY <1>1, <1>3 DEF Goes
<1>4. ASSUME NEW u \in Call, Erase(u) \/ GetFails(u) \/ UseFails(u) \/ RevokeFailed(u) \/ InvalidateFails(u)
                             \/ Offer(u) \/ OfferFails(u)
      PROVE  call'[t] = call[t] \/ (t \in Handler /\ Quiet(call[t], call'[t]))
  <2>1. PICK k \in {Required(call[u]), Again(call[u]), Thrown(call[u]), Ended(call[u]), Invalidated(call[u])} : Goes(u, k)
    BY <1>4, Zenon DEF Erase, GetFails, UseFails, RevokeFailed, InvalidateFails, Offer, OfferFails
  <2>2. call[u].pc \notin CallbackPc
    BY <1>4 DEF Erase, GetFails, UseFails, RevokeFailed, InvalidateFails, Offer, OfferFails, IsAt,
                CallbackPc, Granting
  <2> QED BY <1>1, <1>2, <1>3, <2>1, <2>2, QuietMoves
<1>5. ASSUME NEW u \in Call, HandlerStep(u)
      PROVE  call'[t] = call[t] \/ (t \in Handler /\ HandlerStep(t))
  <2>1. \E k : Goes(u, k)
    BY <1>5, Zenon DEF HandlerStep, Read, Validate, Use, FindFailed, EraseFailed, Join
  <2>2. call[u].pc \notin CallbackPc
    BY <1>5 DEF HandlerStep, Read, Validate, Use, FindFailed, EraseFailed, IsAt, CallbackPc, Granting
  <2> QED BY <1>2, <1>3, <1>5, <2>1, <2>2
<1>6. ASSUME NEW u \in Call, CallbackStep(u)
      PROVE  call'[t] = call[t] \/ (t \in Callback /\ CallbackStep(t))
  <2>1. \E k : Goes(u, k)
    BY <1>6, Zenon DEF CallbackStep, Consume, Exchange, Save, SaveFails, Discard, DiscardFails
  <2>2. call[u].pc \notin HandlerPc
    BY <1>6 DEF CallbackStep, Consume, Exchange, Save, SaveFails, Discard, DiscardFails, IsAt, HandlerPc
  <2>3. t \in Handler => call[t].pc \in HandlerPc
    BY DEF CallTypes, HandlerAt
  <2> QED BY <1>2, <1>3, <1>6, <2>1, <2>2, <2>3
<1>7. ASSUME NEW p \in Proc, FlightStep(p)
      PROVE  call'[t] = call[t] \/ (t \in Handler /\ Quiet(call[t], call'[t]))
  <2>1. UNCHANGED call \/ Settle(p, Required) \/ Settle(p, Again) \/ Settle(p, Thrown)
    BY <1>7, Zenon DEF FlightStep, FlightRead, Rotate, RotateLost, Replace, ReplaceUnanswered, Drop, DropFails,
                FlightErase, FlightFails
  <2> QED BY <2>1, SettleMoves
<1>8. ASSUME NEW p \in Proc, Crash(p)  PROVE call'[t] \in {call[t], Ended(call[t])}
  BY <1>8 DEF Crash
<1>9. CASE (\E c \in Cred : Expire(c)) \/ (\E s \in State : StateExpires(s)) \/ Due \/ Withdraw
  BY <1>9 DEF Expire, StateExpires, Due, Withdraw
<1> QED BY <1>4, <1>5, <1>6, <1>7, <1>8, <1>9, Zenon DEF Next, CallStep, HandlerStep, CallbackStep, Call

\* What any step makes of the flight of a process.
FlightMove(p) ==
  LET f == flight[p] g == flight'[p] IN
  \/ g = f
  \/ Flown(g, "idle", None, None)
  \/ f.pc = "idle" /\ Flown(g, "read", None, None)
  \/ FlightRead(p) /\ stored \in Cred /\ Flown(g, "rotate", stored, None)
  \/ Rotate(p) /\ refresh[f.seen] = "dead" /\ Flown(g, "erase", f.seen, None)
  \/ Rotate(p) /\ refresh[f.seen] = "live" /\ Issue(issued + 1) /\ issued + 1 \in Cred
       /\ Flown(g, "replace", f.seen, issued + 1)
  \/ f.pc \in Carrying /\ \E pc \in Carrying \ {"replace"} : Flown(g, pc, f.seen, f.new)

\* The flight of a process moves by its own steps, by a call that joins it, or by a crash.
LEMMA FlightMoves ==
  ASSUME Types, Next, NEW p \in Proc
  PROVE  FlightMove(p)
<1> USE DEF FlightTypes
<1>1. FlightAt(flight[p]) /\ DOMAIN flight = Proc /\ Home \in [Call -> Proc]
  BY UserOAuthAssumption DEF Types
<1>2. ASSUME NEW t \in Call, NEW force, Join(t, force)  PROVE FlightMove(p)
  <2>1. Home[t] \in Proc
    BY <1>1
  <2>2. \/ flight'[p] = flight[p]
        \/ flight[p].pc = "idle" /\ flight'[p] = [Idle EXCEPT !.pc = "read", !.force = force]
    BY <1>1, <1>2, <2>1 DEF Join
  <2> QED BY <2>2, FlownMoves DEF FlightMove
<1>3. ASSUME NEW t \in Call, CallStep(t)  PROVE FlightMove(p)
  <2>1. UNCHANGED flight \/ Join(t, FALSE) \/ Join(t, TRUE)
    BY <1>3, Zenon DEF CallStep, Read, Validate, Erase, GetFails, Use, UseFails, FindFailed, EraseFailed, RevokeFailed,
                InvalidateFails, Offer, OfferFails, Exchange, Save, SaveFails, Discard, DiscardFails
  <2> QED BY <1>2, <2>1 DEF FlightMove
<1>5. ASSUME NEW q \in Proc, NEW f, Flies(q, f)  PROVE flight'[p] = IF p = q THEN f ELSE flight[p]
  BY <1>1, <1>5 DEF Flies
<1>6. ASSUME NEW q \in Proc, FlightStep(q)  PROVE FlightMove(p)
  <2>s. Settle(q, Required) \/ Settle(q, Again) \/ Settle(q, Thrown) => FlightMove(p)
    <3>1. ASSUME Settle(q, Required) \/ Settle(q, Again) \/ Settle(q, Thrown)  PROVE flight' = [flight EXCEPT ![q] = Idle]
      BY <3>1 DEF Settle
    <3>2. ASSUME flight' = [flight EXCEPT ![q] = Idle]  PROVE FlightMove(p)
      <4>1. flight'[p] \in {flight[p], Idle}
        BY <1>1, <3>2
      <4> QED BY <4>1, FlownMoves DEF FlightMove
    <3> QED BY <3>1, <3>2
  <2>e. p # q /\ (\E f : Flies(q, f)) => FlightMove(p)
    BY <1>5 DEF FlightMove
  <2>1. CASE FlightRead(q)
    <3>1. CASE Flies(q, [flight[q] EXCEPT !.pc = "rotate", !.seen = stored]) /\ stored \notin {None, Unrotated}
      <4>1. stored \in Cred /\ flight[q].pc = "read"
        BY <2>1, <3>1 DEF FlightRead, Flying, Types, TokenTypes, Maybe
      <4>2. p = q => Flown(flight'[p], "rotate", stored, None)
        BY <1>1, <1>5, <3>1, <4>1, FlownMoves
      <4> QED BY <2>1, <2>e, <3>1, <4>1, <4>2 DEF FlightMove
    <3> QED BY <2>1, <2>s, <3>1 DEF FlightRead
  <2>2. CASE Rotate(q)
    <3>1. flight[q].pc = "rotate"
      BY <2>2 DEF Rotate, Flying
    <3>2. CASE refresh[flight[q].seen] = "live"
      <4>1. PICK c \in Cred : Issue(c) /\ Flies(q, [flight[q] EXCEPT !.pc = "replace", !.new = c])
        BY <2>2, <3>2 DEF Rotate
      <4>2. c = issued + 1
        BY <4>1 DEF Issue
      <4>3. p = q => Flown(flight'[p], "replace", flight[p].seen, c)
        BY <1>1, <1>5, <3>1, <4>1, FlownMoves
      <4> QED BY <2>2, <2>e, <3>2, <4>1, <4>2, <4>3 DEF FlightMove
    <3>3. CASE refresh[flight[q].seen] = "dead"
      <4>1. Flies(q, [flight[q] EXCEPT !.pc = "erase"])
        BY <2>2, <3>3 DEF Rotate
      <4>2. p = q => Flown(flight'[p], "erase", flight[p].seen, None)
        BY <1>1, <1>5, <3>1, <4>1, FlownMoves
      <4> QED BY <2>2, <2>e, <3>3, <4>1, <4>2 DEF FlightMove
    <3> QED BY <2>2, <3>2, <3>3 DEF Rotate
  <2>3. ASSUME NEW pc \in {"dropAccess", "dropRefresh"}, flight[q].pc \in Carrying,
               Flies(q, [flight[q] EXCEPT !.pc = pc])
        PROVE  FlightMove(p)
    <3>1. pc \in Carrying \ {"replace"}
      BY DEF Carrying
    <3>2. p = q => Flown(flight'[p], pc, flight[p].seen, flight[p].new)
      BY <1>1, <1>5, <2>3, <3>1, FlownMoves
    <3> QED BY <2>3, <2>e, <3>1, <3>2 DEF FlightMove
  <2>4. CASE Replace(q) \/ Drop(q) \/ DropFails(q)
    <3>1. flight[q].pc \in Carrying
      BY <2>4 DEF Replace, Drop, DropFails, Flying, Carrying
    <3> QED BY <2>4, <2>s, <2>3, <3>1 DEF Replace, Drop, DropFails
  <2>5. CASE RotateLost(q) \/ ReplaceUnanswered(q) \/ FlightErase(q) \/ FlightFails(q)
    BY <2>5, <2>s DEF RotateLost, ReplaceUnanswered, FlightErase, FlightFails
  <2> QED BY <1>6, <2>1, <2>2, <2>4, <2>5 DEF FlightStep
<1>7. ASSUME NEW q \in Proc, Crash(q)  PROVE FlightMove(p)
  <2>1. flight'[p] \in {flight[p], Idle}
    BY <1>1, <1>7 DEF Crash
  <2> QED BY <2>1, FlownMoves DEF FlightMove
<1>8. CASE (\E t \in Callback : Consume(t)) \/ (\E c \in Cred : Expire(c)) \/ (\E s \in State : StateExpires(s)) \/ Due \/ Withdraw
  BY <1>8 DEF Consume, Expire, StateExpires, Due, Withdraw, FlightMove
<1> QED BY <1>3, <1>6, <1>7, <1>8 DEF Next

\* The calls keep their types.
LEMMA CallTypesKept == ASSUME Types, Next  PROVE CallTypes'
<1>1. ASSUME NEW t \in Call
      PROVE  IsCall(call'[t]) /\ (t \in Handler => HandlerAt(call'[t])) /\ (t \in Callback => CallbackAt(call'[t]))
  <2> DEFINE k == call[t]
             k2 == call'[t]
  <2>1. IsCall(k) /\ DOMAIN call = Call /\ (t \in Handler => HandlerAt(k)) /\ (t \in Callback => CallbackAt(k))
    BY DEF Types, CallTypes
  <2>2. t \in Handler <=> t \notin Callback
    BY UserOAuthAssumption DEF Call
  <2>g. ASSUME NEW x, Goes(t, x)  PROVE k2 = x
    BY <2>1, <2>g DEF Goes
  <2>q. Quiet(k, k2) /\ t \in Handler => IsCall(k2) /\ HandlerAt(k2)
    BY DEF Quiet, HandlerAt, HandlerPc
  <2>a. ASSUME NEW pc  PROVE /\ At(k, pc).pc = pc /\ At(k, pc).seen = k.seen /\ At(k, pc).held = k.held
                             /\ IsCall(At(k, pc))
    BY <2>1 DEF At, IsCall
  <2>3. CASE k2 = k
    BY <2>1, <2>3
  <2>4. CASE k2 = Ended(k)
    BY <2>1, <2>4, <2>a DEF Ended, HandlerAt, CallbackAt, HandlerPc, CallbackPc, Granting
  <2>5. CASE t \in Handler /\ Quiet(k, k2)
    BY <2>2, <2>5, <2>q
  <2>6. CASE t \in Handler /\ HandlerStep(t)
    <3>1. CASE Read(t)
      <4>1. CASE Goes(t, Required(k)) \/ Goes(t, At(k, "joined"))
        BY <2>1, <2>2, <2>6, <2>g, <2>q, <4>1, QuietMoves
      <4>2. CASE stored \notin {None, Unrotated} /\ Goes(t, [k EXCEPT !.pc = "validate", !.seen = stored])
        <5>1. stored \in Cred /\ stored \in Maybe
          BY <4>2 DEF Types, TokenTypes, Maybe
        <5> QED BY <2>1, <2>2, <2>6, <2>g, <4>2, <5>1 DEF IsCall, HandlerAt, HandlerPc
      <4> QED BY <3>1, <4>1, <4>2 DEF Read, Join
    <3>2. CASE Validate(t)
      <4>1. k.seen \in Cred
        BY <2>6, <2>1, <3>2 DEF Validate, IsAt, HandlerAt
      <4>2. CASE Goes(t, Returned(k, k.seen))
        BY <2>1, <2>2, <2>6, <2>g, <2>q, <4>1, <4>2, ReturnedMoves DEF HandlerAt, HandlerPc
      <4>3. CASE Goes(t, At(k, "joined"))
        BY <2>1, <2>2, <2>6, <2>g, <2>q, <4>3, QuietMoves
      <4>4. CASE Goes(t, At(k, "erase"))
        BY <2>1, <2>2, <2>6, <2>a, <2>g, <4>1, <4>4 DEF HandlerAt, HandlerPc
      <4> QED BY <3>2, <4>2, <4>3, <4>4 DEF Validate, Join
    <3>3. CASE Use(t)
      <4>1. k.held \in Cred
        BY <2>1, <2>6, <3>3 DEF Use, IsAt, HandlerAt
      <4>2. k2 = Ended(k) \/ k2 = At(k, "findFailed")
        BY <2>g, <3>3 DEF Use
      <4>3. CASE k2 = At(k, "findFailed")
        BY <2>2, <2>6, <2>a, <4>1, <4>3 DEF HandlerAt, HandlerPc
      <4> QED BY <2>4, <4>2, <4>3
    <3>4. CASE FindFailed(t)
      <4>1. k.held \in Cred
        BY <2>1, <2>6, <3>4 DEF FindFailed, IsAt, HandlerAt
      <4>2. k2 = Invalidated(k) \/ (stored = k.held /\ k2 = [k EXCEPT !.pc = "eraseFailed", !.seen = stored])
        BY <2>g, <3>4 DEF FindFailed
      <4>3. CASE stored = k.held /\ k2 = [k EXCEPT !.pc = "eraseFailed", !.seen = stored]
        BY <2>1, <2>2, <2>6, <4>1, <4>3 DEF IsCall, HandlerAt, HandlerPc, Maybe
      <4> QED BY <2>1, <2>2, <2>6, <2>q, <4>2, <4>3, QuietMoves
    <3>5. CASE EraseFailed(t)
      <4>1. k.held \in Cred
        BY <2>1, <2>6, <3>5 DEF EraseFailed, IsAt, HandlerAt
      <4>2. k2 = Invalidated(k) \/ k2 = At(k, "revokeFailed")
        BY <2>g, <3>5 DEF EraseFailed
      <4>3. CASE k2 = At(k, "revokeFailed")
        BY <2>2, <2>6, <2>a, <4>1, <4>3 DEF HandlerAt, HandlerPc
      <4> QED BY <2>1, <2>2, <2>6, <2>q, <4>2, <4>3, QuietMoves
    <3> QED BY <2>6, <3>1, <3>2, <3>3, <3>4, <3>5 DEF HandlerStep
  <2>7. CASE t \in Callback /\ CallbackStep(t)
    <3>1. CASE Consume(t)
      <4>1. k.pc = "consume" /\ \E pc \in {"exchange", "done"} : k2 = At(k, pc)
        BY <2>g, <3>1 DEF Consume, IsAt, Ended
      <4> QED BY <2>1, <2>2, <2>7, <2>a, <4>1 DEF CallbackAt, CallbackPc, Granting
    <3>2. CASE Exchange(t)
      <4>1. CASE \E c \in Cred, pc \in {"save", "discardAccess"} : Goes(t, [k EXCEPT !.pc = pc, !.held = c])
        BY <2>1, <2>2, <2>7, <2>g, <4>1 DEF IsCall, CallbackAt, CallbackPc, Granting, Maybe
      <4> QED BY <2>4, <2>g, <3>2, <4>1 DEF Exchange
    <3>3. CASE Save(t) \/ SaveFails(t) \/ Discard(t) \/ DiscardFails(t)
      <4>1. k.pc \in Granting
        BY <3>3 DEF Save, SaveFails, Discard, DiscardFails, IsAt, Granting
      <4>2. \E pc \in {"discardAccess", "discardRefresh", "done"} : k2 = At(k, pc)
        BY <2>g, <3>3, Zenon DEF Save, SaveFails, Discard, DiscardFails, Ended
      <4> QED BY <2>1, <2>2, <2>7, <2>a, <4>1, <4>2 DEF CallbackAt, CallbackPc, Granting
    <3> QED BY <2>7, <3>1, <3>2, <3>3 DEF CallbackStep
  <2> QED BY <2>3, <2>4, <2>5, <2>6, <2>7, CallMoves DEF Types
<1>2. DOMAIN call' = Call
  <2>1. DOMAIN call = Call
    BY DEF Types, CallTypes
  <2>2. \/ call' = call \/ \E t, k : Goes(t, k)
        \/ \E p : Settle(p, Required) \/ Settle(p, Again) \/ Settle(p, Thrown) \/ Crash(p)
    BY Zenon DEF Next, CallStep, FlightStep, Read, Validate, Erase, GetFails, Use, UseFails, FindFailed, EraseFailed,
       RevokeFailed, InvalidateFails, Offer, OfferFails, Exchange, Save, SaveFails, Discard, DiscardFails, Join,
       Consume, FlightRead, Rotate, RotateLost, Replace, ReplaceUnanswered, Drop, DropFails, FlightErase, FlightFails,
       Expire, StateExpires, Due, Withdraw
  <2> QED BY <2>1, <2>2 DEF Goes, Settle, Crash
<1> QED BY <1>1, <1>2 DEF CallTypes, Call

\* The flights keep their types.
LEMMA FlightTypesKept == ASSUME Types, Next  PROVE FlightTypes'
<1>1. DOMAIN flight = Proc
  BY DEF Types, FlightTypes
<1>2. \/ flight' = flight \/ \E p, f : flight' = [flight EXCEPT ![p] = f]
      \/ \E t, force : Join(t, force)
  BY Zenon DEF Next, CallStep, FlightStep, Read, Validate, Erase, GetFails, Use, UseFails, FindFailed, EraseFailed,
     RevokeFailed, InvalidateFails, Offer, OfferFails, Exchange, Save, SaveFails, Discard, DiscardFails,
     Consume, FlightRead, Rotate, RotateLost, Replace, ReplaceUnanswered, Drop, DropFails, FlightErase, FlightFails,
     Expire, StateExpires, Due, Withdraw, Settle, Flies, Crash
<1>3. DOMAIN flight' = Proc
  BY <1>1, <1>2 DEF Join
<1>4. ASSUME NEW p \in Proc  PROVE FlightAt(flight'[p])
  <2>1. FlightAt(flight[p])
    BY DEF Types, FlightTypes
  <2> QED BY <2>1, FlightMoves DEF FlightMove, Flown
<1> QED BY <1>3, <1>4 DEF FlightTypes

\* The row changes by a rotation that is recorded, a grant that is saved, or an erasure.
Recorded(p) ==
  /\ flight[p].pc = "replace" /\ stored = flight[p].seen /\ stored' = flight[p].new
  /\ Flown(flight'[p], "idle", None, None) /\ UNCHANGED <<slack, abandoned, causes>>
  /\ \A q \in Proc \ {p} : flight'[q] = flight[q]
Granted(t) ==
  /\ call[t].pc = "save" /\ stored' = call[t].held
  /\ abandoned' = abandoned \cup ({stored} \ {None}) /\ UNCHANGED <<slack, flight, causes>>
  /\ faults' = faults => call'[t].pc = "done"
\* What any step makes of the row.
LEMMA StoredMoves ==
  ASSUME Types, Next
  PROVE  stored' \in {stored, None} \/ (\E p \in Proc : Recorded(p)) \/ (\E t \in Callback : Granted(t))
<1>1. ASSUME NEW p \in Proc, Replace(p) \/ ReplaceUnanswered(p), Replaced(flight[p].seen, flight[p].new)
      PROVE  Recorded(p)
  <2>1. flight' = [flight EXCEPT ![p] = Idle]
    <3>1. Settle(p, Again) \/ Settle(p, Thrown)
      BY <1>1 DEF Replace, ReplaceUnanswered, Replaced
    <3> QED BY <3>1 DEF Settle
  <2>2. flight'[p] = Idle /\ \A q \in Proc \ {p} : flight'[q] = flight[q]
    BY <2>1 DEF Types, FlightTypes
  <2> QED BY <1>1, <2>2, FlownMoves DEF Recorded, Replaced, Replace, ReplaceUnanswered, Flying
<1>2. ASSUME NEW p \in Proc, FlightStep(p)  PROVE stored' \in {stored, None} \/ \E q \in Proc : Recorded(q)
  <2>1. \/ UNCHANGED stored \/ stored' = None
        \/ (Replace(p) \/ ReplaceUnanswered(p)) /\ Replaced(flight[p].seen, flight[p].new)
    BY <1>2, Zenon DEF FlightStep, FlightRead, Rotate, RotateLost, Replace, ReplaceUnanswered, Drop, DropFails,
                FlightErase, FlightFails, Erased, row
  <2> QED BY <1>1, <2>1
<1>3. ASSUME NEW t \in Call, Save(t) \/ SaveFails(t), stored' # stored  PROVE t \in Callback /\ Granted(t)
  <2>1. call[t].pc = "save" /\ Stored(call[t].held) /\ UNCHANGED <<slack, flight, causes>>
    BY <1>3 DEF Save, SaveFails, IsAt, row
  <2>2. t \in Callback
    BY <2>1 DEF Types, CallTypes, HandlerAt, HandlerPc, Call
  <2>3. faults' = faults => call'[t].pc = "done"
    <3>1. ASSUME faults' = faults  PROVE Goes(t, Ended(call[t]))
      BY <1>3, <3>1 DEF Save, SaveFails, Faults, Types
    <3>2. Goes(t, Ended(call[t])) => call'[t].pc = "done"
      BY DEF Goes, Ended, At, Types, CallTypes, IsCall
    <3> QED BY <3>1, <3>2
  <2> QED BY <2>1, <2>2, <2>3 DEF Granted, Stored
<1>4. ASSUME NEW t \in Call, CallStep(t)  PROVE stored' \in {stored, None} \/ \E u \in Callback : Granted(u)
  <2>1. stored' \in {stored, None} \/ Save(t) \/ SaveFails(t)
    BY <1>4, Zenon DEF CallStep, Read, Validate, Erase, GetFails, Use, UseFails, FindFailed, EraseFailed, RevokeFailed,
                InvalidateFails, Offer, OfferFails, Exchange, Discard, DiscardFails, Erased, row
  <2> QED BY <1>3, <2>1
<1>5. CASE \/ \E t \in Callback : Consume(t)
           \/ \E p \in Proc : Crash(p)
           \/ \E c \in Cred : Expire(c)
           \/ \E s \in State : StateExpires(s)
           \/ Due \/ Withdraw
  BY <1>5 DEF Consume, Crash, Expire, StateExpires, Due, Withdraw, row
<1> QED BY <1>2, <1>4, <1>5 DEF Next

\* A credential is issued to a refresh or to a callback, as the next one.
Issued(c) == c = issued + 1 /\ issued' = c /\ access'[c] = "live" /\ refresh'[c] = "live"

\* What any step makes of an access token.
AccessMove(c) ==
  \/ access'[c] = access[c]
  \/ Issued(c)
  \/ access[c] = "live" /\ access'[c] = "expired" /\ refresh'[c] = refresh[c]
  \/ /\ access'[c] = "dead"
     /\ \/ "withdrawn" \in causes' /\ refresh'[c] # "live"
        \/ \E p \in Proc : flight[p].pc = "dropAccess" /\ flight[p].new = c
        \/ \E t \in Callback : call[t].pc = "discardAccess" /\ call[t].held = c
        \/ \E t \in Handler : call[t].pc = "revokeFailed" /\ call[t].held = c

\* What any step makes of a refresh token.
RefreshMove(c) ==
  \/ refresh'[c] = refresh[c]
  \/ Issued(c)
  \/ /\ refresh'[c] = "dead"
     /\ \/ "withdrawn" \in causes'
        \/ \E p \in Proc : (Rotate(p) \/ RotateLost(p)) /\ flight[p].pc = "rotate" /\ flight[p].seen = c /\ refresh[c] = "live"
        \/ \E p \in Proc : flight[p].pc = "dropRefresh" /\ flight[p].new = c
        \/ \E t \in Callback : call[t].pc = "discardRefresh" /\ call[t].held = c
Moves == \A c \in Cred : AccessMove(c) /\ RefreshMove(c)

\* The tokens of a credential change in these ways only.
LEMMA SlackMoves ==
  ASSUME Types, Next
  PROVE  /\ Moves /\ issued' \in {issued} \cup {issued + 1} /\ issued' \in 0 .. MaxCreds
         /\ access' \in [Cred -> {"none", "live", "expired", "dead"}]
         /\ refresh' \in [Cred -> {"none", "live", "dead"}]
<1> DEFINE Kept == /\ Moves /\ issued' \in {issued} \cup {issued + 1} /\ issued' \in 0 .. MaxCreds
                   /\ access' \in [Cred -> {"none", "live", "expired", "dead"}]
                   /\ refresh' \in [Cred -> {"none", "live", "dead"}]
<1>1. /\ access \in [Cred -> {"none", "live", "expired", "dead"}] /\ refresh \in [Cred -> {"none", "live", "dead"}]
      /\ issued \in 0 .. MaxCreds /\ MaxCreds \in Nat
  BY UserOAuthAssumption DEF Types, TokenTypes
<1>2. CASE UNCHANGED slack
  BY <1>1, <1>2 DEF slack, Moves, AccessMove, RefreshMove
<1>3. ASSUME NEW c \in Cred, Issue(c)  PROVE c = issued + 1 /\ issued' = c /\ issued' \in 0 .. MaxCreds
  BY <1>1, <1>3 DEF Issue
<1>4. ASSUME NEW p \in Proc, NEW c \in Cred, Rotate(p) \/ RotateLost(p), flight[p].pc = "rotate", Issue(c),
             refresh[flight[p].seen] = "live",
             access' = [access EXCEPT ![c] = "live"],
             refresh' = [refresh EXCEPT ![flight[p].seen] = "dead", ![c] = "live"]
      PROVE  Kept
  BY <1>1, <1>3, <1>4 DEF Moves, AccessMove, RefreshMove, Issued
<1>5. ASSUME NEW p \in Proc, FlightStep(p)  PROVE Kept
  <2>1. CASE Rotate(p) \/ RotateLost(p)
    BY <1>2, <1>4, <2>1 DEF Rotate, RotateLost, Flying
  <2>2. CASE Drop(p)
    BY <1>1, <2>2 DEF Drop, Moves, AccessMove, RefreshMove
  <2>3. UNCHANGED slack \/ Rotate(p) \/ RotateLost(p) \/ Drop(p)
    BY <1>5, Zenon DEF FlightStep, FlightRead, Replace, ReplaceUnanswered, DropFails, FlightErase, FlightFails
  <2> QED BY <1>2, <2>1, <2>2, <2>3
<1>6. ASSUME NEW t \in Call, CallStep(t)  PROVE Kept
  <2>1. CASE Exchange(t)
    <3>1. CASE \E c \in Cred : /\ Issue(c) /\ access' = [access EXCEPT ![c] = "live"]
                               /\ refresh' = [refresh EXCEPT ![c] = "live"]
      BY <1>1, <1>3, <3>1 DEF Moves, AccessMove, RefreshMove, Issued
    <3> QED BY <1>2, <2>1, <3>1 DEF Exchange
  <2>2. CASE RevokeFailed(t)
    <3>1. t \in Handler
      BY <2>2 DEF RevokeFailed, IsAt, Types, CallTypes, CallbackAt, CallbackPc, Granting, Call
    <3> QED BY <1>1, <2>2, <3>1 DEF RevokeFailed, IsAt, Moves, AccessMove, RefreshMove
  <2>3. CASE Discard(t)
    <3>1. t \in Callback
      BY <2>3 DEF Discard, Types, CallTypes, HandlerAt, HandlerPc, Call
    <3> QED BY <1>1, <2>3, <3>1 DEF Discard, Moves, AccessMove, RefreshMove
  <2>4. UNCHANGED slack \/ Exchange(t) \/ RevokeFailed(t) \/ Discard(t)
    BY <1>6, Zenon DEF CallStep, Read, Validate, Erase, GetFails, Use, UseFails, FindFailed, EraseFailed,
                InvalidateFails, Offer, OfferFails, Save, SaveFails, DiscardFails
  <2> QED BY <1>2, <2>1, <2>2, <2>3, <2>4
<1>7. ASSUME NEW c \in Cred, Expire(c)  PROVE Kept
  BY <1>1, <1>7 DEF Expire, Moves, AccessMove, RefreshMove
<1>8. CASE Withdraw
  BY <1>1, <1>8 DEF Withdraw, Moves, AccessMove, RefreshMove
<1>9. CASE \/ \E t \in Callback : Consume(t)
           \/ \E p \in Proc : Crash(p)
           \/ \E s \in State : StateExpires(s)
           \/ Due
  BY <1>2, <1>9 DEF Consume, Crash, StateExpires, Due
<1> QED BY <1>5, <1>6, <1>7, <1>8, <1>9 DEF Next

\* Every variable of a proof keeps its type.
LEMMA TypesKept == ASSUME Types, [Next]_vars  PROVE Types'
<1>1. CASE UNCHANGED vars
  BY <1>1 DEF vars, Types, CallTypes, FlightTypes, TokenTypes
<1>2. CASE Next
  <2>1. stored' \in Maybe
    <3>1. \A p \in Proc : flight[p].pc = "replace" => flight[p].new \in Cred
      BY DEF Types, FlightTypes, FlightAt, Carrying
    <3>2. \A t \in Callback : call[t].pc = "save" => call[t].held \in Cred
      BY DEF Types, CallTypes, CallbackAt, Granting
    <3> QED BY <1>2, <3>1, <3>2, StoredMoves DEF Recorded, Granted, Maybe, Types, TokenTypes
  <2>2. faults' \in Nat
    <3>1. faults' = faults \/ Faults
      BY <1>2, Zenon DEF Next, CallStep, FlightStep, Read, Validate, Erase, GetFails, Use, UseFails, FindFailed,
         EraseFailed, RevokeFailed, InvalidateFails, Offer, OfferFails, Exchange, Save, SaveFails, Discard,
         DiscardFails, Consume, FlightRead, Rotate, RotateLost, Replace, ReplaceUnanswered, Drop, DropFails,
         FlightErase, FlightFails, Expire, StateExpires, Due, Withdraw, Crash
    <3> QED BY <3>1 DEF Faults, Types
  <2> QED BY <1>2, <2>1, <2>2, CallTypesKept, FlightTypesKept, SlackMoves DEF Types, TokenTypes
<1> QED BY <1>1, <1>2

\* The types hold when the calls begin.
LEMMA TypesFirst == Init => Types
<1> SUFFICES ASSUME Init  PROVE Types
  OBVIOUS
<1> USE UserOAuthAssumption DEF Init, InitCalls
<1>1. CallTypes
  <2>1. ASSUME NEW pc  PROVE IsCall(Fresh(pc)) /\ Fresh(pc).pc = pc /\ Fresh(pc).seen = None /\ Fresh(pc).held = None
    BY DEF Fresh, IsCall, Maybe
  <2>2. /\ \A t \in Handler : call[t] = Fresh("read")
        /\ \A t \in Callback : call[t] = Fresh("consume")
        /\ DOMAIN call = Call
    BY DEF First, Call
  <2>3. \A t \in Handler : HandlerAt(call[t])
    BY <2>1, <2>2 DEF HandlerAt, HandlerPc, Call
  <2>4. \A t \in Callback : CallbackAt(call[t])
    BY <2>1, <2>2 DEF CallbackAt, CallbackPc, Granting, Call
  <2> QED BY <2>1, <2>2, <2>3, <2>4 DEF CallTypes, Call
<1>2. FlightTypes
  BY FlownMoves DEF FlightTypes, Flown
<1>3. TokenTypes
  BY DEF TokenTypes, Maybe, Cred, Unrotated
<1> QED BY <1>1, <1>2, <1>3 DEF Types

------------------------------------------------------------------------------
(* One link grants at most one credential. *)

\* Callbacks past their state, and the states that are used up.
Begun == {t \in Callback : call[t].pc = "exchange" \/ call[t].held # None}
Closed == {s \in State : states[s] = "closed"}

Links ==
  /\ states \in [State -> {"new", "open", "closed"}]
  /\ Cardinality(Begun) <= Cardinality(Closed)

\* A callback gets past its state only by using one up, and no state is reopened.
LEMMA LinksKept == ASSUME Types, Links, [Next]_vars  PROVE Links'
<1>1. CASE UNCHANGED vars
  BY <1>1 DEF vars, Links, Begun, Closed
<1>2. ASSUME Next, NEW t \in Callback, ~Consume(t), t \in Begun'  PROVE t \in Begun
  <2>1. /\ t \in Call /\ t \notin Handler /\ IsCall(call[t]) /\ CallbackAt(call[t])
    BY UserOAuthAssumption DEF Types, CallTypes, Call
  <2>2. CASE call'[t] \in {call[t], Ended(call[t])}
    BY <1>2, <2>1, <2>2, QuietMoves DEF Begun, Quiet
  <2>3. CASE Exchange(t)
    BY <2>3 DEF Exchange, IsAt, Begun
  <2>4. CASE Save(t) \/ SaveFails(t) \/ Discard(t) \/ DiscardFails(t)
    <3>1. call[t].pc \in Granting
      BY <2>4 DEF Save, SaveFails, Discard, DiscardFails, IsAt, Granting
    <3> QED BY <2>1, <3>1, UserOAuthAssumption DEF CallbackAt, Begun
  <2> QED BY <1>2, <2>1, <2>2, <2>3, <2>4, CallMoves DEF Types, CallbackStep
<1>3. IsFiniteSet(Begun) /\ IsFiniteSet(Closed) /\ IsFiniteSet(Begun') /\ IsFiniteSet(Closed')
  <2>1. Begun \subseteq Callback /\ Closed \subseteq State /\ Begun' \subseteq Callback /\ Closed' \subseteq State
    BY DEF Begun, Closed
  <2> QED BY <2>1, UserOAuthAssumption, FS_Subset
<1>4. /\ Cardinality(Begun) \in Nat /\ Cardinality(Closed) \in Nat
      /\ Cardinality(Begun') \in Nat /\ Cardinality(Closed') \in Nat
  BY <1>3, FS_CardinalityType
<1>5. ASSUME Next  PROVE \/ states' = states
                         \/ \E s \in State : /\ states[s] \in {"new", "open"}
                                             /\ \E a \in {"open", "closed"} : states' = [states EXCEPT ![s] = a]
  BY <1>5, Zenon DEF Next, CallStep, FlightStep, Read, Validate, Erase, GetFails, Use, UseFails, FindFailed, EraseFailed,
     RevokeFailed, InvalidateFails, Offer, OfferFails, Exchange, Save, SaveFails, Discard, DiscardFails, Consume,
     Consumed, FlightRead, Rotate, RotateLost, Replace, ReplaceUnanswered, Drop, DropFails, FlightErase,
     FlightFails, Expire, StateExpires, Due, Withdraw, Crash
<1>6. ASSUME Next  PROVE /\ states' \in [State -> {"new", "open", "closed"}]
                         /\ Closed \subseteq Closed'
  BY <1>5, <1>6 DEF Links, Closed
<1>7. ASSUME Next, \A t \in Callback : ~Consume(t)  PROVE Links'
  <2>1. Begun' \subseteq Begun
    BY <1>2, <1>7 DEF Begun
  <2>2. Cardinality(Begun') <= Cardinality(Begun) /\ Cardinality(Closed) <= Cardinality(Closed')
    BY <1>3, <1>6, <1>7, <2>1, FS_Subset
  <2> QED BY <1>4, <1>6, <1>7, <2>2 DEF Links
<1>8. ASSUME Next, NEW t \in Callback, Consume(t)  PROVE Links'
  <2>1. \A u \in Callback \ {t} : call'[u] = call[u]
    <3>1. \E k : Goes(t, k)
      BY <1>8 DEF Consume
    <3> QED BY <3>1 DEF Goes, Types, CallTypes, Call
  <2>2. t \in Call /\ DOMAIN call = Call /\ IsCall(call[t]) /\ CallbackAt(call[t]) /\ call[t].pc = "consume"
    BY <1>8 DEF Consume, IsAt, Types, CallTypes, Call
  <2>3. CASE \E s \in State : Consumed(s)
    <3>1. PICK s \in State : Consumed(s)
      BY <2>3
    <3>2. Closed' = Closed \cup {s} /\ s \notin Closed
      BY <3>1 DEF Consumed, Closed, Links
    <3>3. Begun' \subseteq Begun \cup {t}
      BY <2>1 DEF Begun
    <3>4. Cardinality(Closed') = Cardinality(Closed) + 1
      BY <1>3, <3>2, FS_AddElement
    <3>5. /\ IsFiniteSet(Begun \cup {t})
          /\ Cardinality(Begun \cup {t}) = Cardinality(Begun) \/ Cardinality(Begun \cup {t}) = Cardinality(Begun) + 1
      BY <1>3, FS_AddElement
    <3>6. Cardinality(Begun') <= Cardinality(Begun \cup {t})
      BY <3>3, <3>5, FS_Subset
    <3> QED BY <1>4, <1>6, <1>8, <3>4, <3>5, <3>6 DEF Links
  <2>4. CASE UNCHANGED states /\ Goes(t, Ended(call[t]))
    <3>1. call'[t] = Ended(call[t])
      BY <2>2, <2>4 DEF Goes
    <3>2. t \notin Begun'
      <4>1. call'[t].pc = "done" /\ call'[t].held = None
        BY <2>2, <3>1, QuietMoves DEF Ended, At, IsCall, CallbackAt
      <4> QED BY <4>1 DEF Begun
    <3>3. Begun' \subseteq Begun
      BY <2>1, <3>2 DEF Begun
    <3>4. Cardinality(Begun') <= Cardinality(Begun) /\ Closed' = Closed
      BY <1>3, <2>4, <3>3, FS_Subset DEF Closed
    <3> QED BY <1>4, <1>6, <1>8, <3>4 DEF Links
  <2> QED BY <1>8, <2>3, <2>4 DEF Consume
<1> QED BY <1>1, <1>7, <1>8

\* One link grants at most one credential, whatever is lost or dies: consumeSlackOAuthState
\* deletes the state it returns, and only a callback that got one reaches the exchange.
THEOREM LinksGrantOnce == Spec => []OneGrantPerLink
<1>1. Init => Types /\ Links
  <2> SUFFICES ASSUME Init  PROVE Links
    BY TypesFirst
  <2>1. \A t \in Callback : call[t] = Fresh("consume")
    BY UserOAuthAssumption DEF Init, InitCalls, First, Call
  <2>2. Begun = {}
    <3>1. Fresh("consume").pc = "consume" /\ Fresh("consume").held = None
      BY DEF Fresh
    <3> QED BY <2>1, <3>1 DEF Begun
  <2>3. Closed = {} /\ states \in [State -> {"new", "open", "closed"}]
    BY DEF Init, InitCalls, Closed
  <2> QED BY <2>2, <2>3, FS_EmptySet DEF Links
<1>2. Types /\ Links /\ [Next]_vars => Types' /\ Links'
  BY TypesKept, LinksKept
<1>3. Types /\ Links => OneGrantPerLink
  <2> SUFFICES ASSUME Types, Links  PROVE OneGrantPerLink
    OBVIOUS
  <2>1. {t \in Callback : call[t].held # None} \subseteq Begun /\ Begun \subseteq Callback /\ Closed \subseteq State
    BY DEF Begun, Closed
  <2>2. IsFiniteSet(Begun) /\ IsFiniteSet(Closed)
    BY <2>1, UserOAuthAssumption, FS_Subset
  <2>3. IsFiniteSet({t \in Callback : call[t].held # None}) /\ Cardinality({t \in Callback : call[t].held # None}) <= Cardinality(Begun)
    BY <2>1, <2>2, FS_Subset
  <2> QED BY <2>2, <2>3, FS_CardinalityType DEF Links, Closed, OneGrantPerLink
<1> QED BY <1>1, <1>2, <1>3, PTL DEF Spec

------------------------------------------------------------------------------
(* What a step without a fault does *)

\* Causes, abandoned credentials and faults only grow.
LEMMA GhostMoves ==
  ASSUME Types, Next
  PROVE  faults' \in {faults, faults + 1} /\ causes \subseteq causes' /\ abandoned \subseteq abandoned'
<1>1. faults' = faults \/ Faults
  BY Zenon DEF Next, CallStep, FlightStep, Read, Validate, Erase, GetFails, Use, UseFails, FindFailed,
     EraseFailed, RevokeFailed, InvalidateFails, Offer, OfferFails, Exchange, Save, SaveFails, Discard,
     DiscardFails, Consume, FlightRead, Rotate, RotateLost, Replace, ReplaceUnanswered, Drop, DropFails,
     FlightErase, FlightFails, Expire, StateExpires, Due, Withdraw, Crash
<1>2. \/ causes' = causes \/ causes' = causes \cup {"raced"} \/ causes' = causes \cup {"expired in use"}
      \/ causes' = causes \cup {"withdrawn"}
  BY Zenon DEF Next, CallStep, FlightStep, Read, Validate, Erase, GetFails, Use, UseFails, FindFailed,
     EraseFailed, RevokeFailed, InvalidateFails, Offer, OfferFails, Exchange, Save, SaveFails, Discard,
     DiscardFails, Consume, FlightRead, Rotate, RotateLost, Replace, ReplaceUnanswered, Drop, DropFails,
     FlightErase, FlightFails, Expire, StateExpires, Due, Withdraw, Crash
<1>3. abandoned' = abandoned \/ (\E c : Stored(c)) \/ (\E c : abandoned' = abandoned \cup {c})
  BY Zenon DEF Next, CallStep, FlightStep, Read, Validate, Erase, GetFails, Use, UseFails, FindFailed,
     EraseFailed, RevokeFailed, InvalidateFails, Offer, OfferFails, Exchange, Save, SaveFails, Discard,
     DiscardFails, Consume, FlightRead, Rotate, RotateLost, Replace, ReplaceUnanswered, Drop, DropFails,
     FlightErase, FlightFails, Expire, StateExpires, Due, Withdraw, Crash
<1> QED BY <1>1, <1>2, <1>3 DEF Faults, Stored

\* What any step makes of a handler.
HandlerMove(t) ==
  LET k == call[t] m == call'[t] IN
  \/ m = k
  \/ m.pc \in {"read", "joined", "offer", "done"} /\ m.seen = k.seen /\ m.held = k.held
  \/ /\ UNCHANGED <<stored, slack>>
     /\ \/ m.pc = "validate" /\ m.seen = stored /\ m.held = k.held
        \/ m.pc = "using" /\ k.pc = "validate" /\ m.seen = k.seen /\ m.held = k.seen
        \/ m.pc = "erase" /\ m.seen = k.seen /\ m.held = k.held /\ access[k.seen] = "dead"
        \/ m.pc = "findFailed" /\ m.seen = k.seen /\ m.held = k.held /\ access[k.held] # "live"
        \/ m.pc = "eraseFailed" /\ k.pc = "findFailed" /\ m.seen = stored /\ m.held = k.held
  \/ /\ m.pc = "revokeFailed" /\ k.pc = "eraseFailed" /\ m.seen = k.seen /\ m.held = k.held
     /\ stored' = None /\ UNCHANGED slack

\* A handler moves in these ways only.
LEMMA HandlerMoves == ASSUME Types, Next, NEW t \in Handler  PROVE HandlerMove(t)
<1> DEFINE k == call[t]
           m == call'[t]
<1>1. t \in Call /\ IsCall(k) /\ DOMAIN call = Call /\ HandlerAt(k) /\ t \notin Callback
  BY UserOAuthAssumption DEF Types, CallTypes, Call
<1>g. ASSUME NEW x, Goes(t, x)  PROVE m = x
  BY <1>1, <1>g DEF Goes
<1>q. ASSUME Quiet(k, m)  PROVE HandlerMove(t)
  BY <1>q DEF Quiet, HandlerMove
<1>a. ASSUME NEW pc  PROVE At(k, pc).pc = pc /\ At(k, pc).seen = k.seen /\ At(k, pc).held = k.held
  BY <1>1 DEF At, IsCall
<1>2. CASE m = k \/ m = Ended(k)
  BY <1>1, <1>2, <1>q, QuietMoves DEF HandlerMove
<1>3. CASE Read(t)
  <2>1. CASE Goes(t, Required(k)) \/ Goes(t, At(k, "joined"))
    BY <1>1, <1>g, <1>q, <2>1, QuietMoves
  <2>2. CASE Goes(t, [k EXCEPT !.pc = "validate", !.seen = stored])
    <3>1. m.pc = "validate" /\ m.seen = stored /\ m.held = k.held
      BY <1>1, <1>g, <2>2 DEF IsCall
    <3> QED BY <1>3, <3>1 DEF Read, row, HandlerMove
  <2> QED BY <1>3, <2>1, <2>2 DEF Read, Join
<1>4. CASE Validate(t)
  <2>1. k.seen \in Cred /\ k.pc = "validate" /\ UNCHANGED <<stored, slack>>
    BY <1>1, <1>4 DEF Validate, IsAt, HandlerAt, row
  <2>2. CASE Goes(t, Returned(k, k.seen))
    BY <1>1, <1>g, <1>q, <2>1, <2>2, ReturnedMoves DEF HandlerMove
  <2>3. CASE Goes(t, At(k, "joined"))
    BY <1>1, <1>g, <1>q, <2>3, QuietMoves
  <2>4. CASE Goes(t, At(k, "erase")) /\ access[k.seen] = "dead"
    BY <1>a, <1>g, <2>1, <2>4 DEF HandlerMove
  <2> QED BY <1>4, <2>2, <2>3, <2>4 DEF Validate, Join
<1>5. CASE Use(t)
  <2>1. m = Ended(k) \/ (m = At(k, "findFailed") /\ access[k.held] # "live")
    BY <1>5, <1>g DEF Use
  <2>2. UNCHANGED <<stored, slack>>
    BY <1>5 DEF Use, row
  <2> QED BY <1>2, <1>a, <2>1, <2>2 DEF HandlerMove
<1>6. CASE FindFailed(t)
  <2>1. m = Invalidated(k) \/ m = [k EXCEPT !.pc = "eraseFailed", !.seen = stored]
    BY <1>6, <1>g DEF FindFailed
  <2>2. CASE m = [k EXCEPT !.pc = "eraseFailed", !.seen = stored]
    <3>1. m.pc = "eraseFailed" /\ m.seen = stored /\ m.held = k.held
      BY <1>1, <2>2 DEF IsCall
    <3>2. UNCHANGED <<stored, slack>> /\ k.pc = "findFailed"
      BY <1>6 DEF FindFailed, IsAt, row
    <3> QED BY <3>1, <3>2 DEF HandlerMove
  <2> QED BY <1>1, <1>q, <2>1, <2>2, QuietMoves
<1>7. CASE EraseFailed(t)
  <2>1. m = Invalidated(k) \/ (Erased(k.seen) /\ m = At(k, "revokeFailed"))
    BY <1>7, <1>g DEF EraseFailed
  <2>2. k.pc = "eraseFailed" /\ UNCHANGED slack
    BY <1>7 DEF EraseFailed, IsAt
  <2> QED BY <1>1, <1>a, <1>q, <2>1, <2>2, QuietMoves DEF HandlerMove, Erased
<1> QED BY <1>1, <1>2, <1>3, <1>4, <1>5, <1>6, <1>7, <1>q, CallMoves DEF Types, HandlerStep

\* What a step without a fault makes of a callback.
CallbackMove(t) ==
  LET k == call[t] m == call'[t] IN
  \/ m = k
  \/ m.held = k.held /\ m.pc \in {"exchange", "done"} /\ k.pc \notin Granting
  \/ /\ k.pc = "exchange" /\ m.pc \in {"save", "discardAccess"} /\ m.held = issued + 1
     /\ Issued(issued + 1) /\ UNCHANGED <<stored, flight, causes>>
     /\ \A u \in Call \ {t} : call'[u] = call[u]
  \/ m.held = k.held /\ m.pc = "done" /\ Granted(t)
  \/ m.held = k.held /\ m.pc = "discardRefresh" /\ k.pc = "discardAccess"
  \/ m.held = k.held /\ m.pc = "done" /\ k.pc = "discardRefresh" /\ refresh'[k.held] = "dead"

\* A callback moves in these ways only.
LEMMA CallbackMoves ==
  ASSUME Types, Next, faults' = faults, NEW t \in Callback
  PROVE  CallbackMove(t)
<1> DEFINE k == call[t]
           m == call'[t]
<1>1. t \in Call /\ IsCall(k) /\ DOMAIN call = Call /\ CallbackAt(k) /\ t \notin Handler
  BY UserOAuthAssumption DEF Types, CallTypes, Call
<1>g. ASSUME NEW x, Goes(t, x)  PROVE m = x
  BY <1>1, <1>g DEF Goes
<1>a. ASSUME NEW pc  PROVE At(k, pc).pc = pc /\ At(k, pc).held = k.held
  BY <1>1 DEF At, IsCall
<1>f. ~Faults
  BY DEF Faults, Types
<1>2. \/ m = k \/ Consume(t) \/ Exchange(t) \/ Save(t) \/ Discard(t)
  <2>1. CASE \E u \in Call : CallStep(u)
    <3>1. PICK u \in Call : CallStep(u)
      BY <2>1
    <3>2. CASE u = t
      <4>1. k.pc \notin HandlerPc \/ k.pc = "done"
        BY <1>1 DEF CallbackAt, CallbackPc, Granting, HandlerPc
      <4> QED BY <1>f, <3>1, <3>2, <4>1 DEF CallStep, Read, Validate, Erase, GetFails, Use, UseFails, FindFailed, EraseFailed,
                  RevokeFailed, InvalidateFails, Offer, OfferFails, SaveFails, DiscardFails, IsAt, HandlerPc
    <3>3. CASE u # t
      <4>1. \E x : Goes(u, x)
        BY <3>1, Zenon DEF CallStep, Read, Validate, Erase, GetFails, Use, UseFails, FindFailed, EraseFailed, RevokeFailed,
           InvalidateFails, Offer, OfferFails, Exchange, Save, SaveFails, Discard, DiscardFails, Join
      <4> QED BY <1>1, <3>3, <4>1 DEF Goes
    <3> QED BY <3>2, <3>3
  <2>2. CASE \E u \in Callback : Consume(u)
    <3>1. PICK u \in Callback : Consume(u)
      BY <2>2
    <3>2. \E x : Goes(u, x)
      BY <3>1 DEF Consume
    <3> QED BY <1>1, <3>1, <3>2 DEF Goes
  <2>3. CASE \E p \in Proc : FlightStep(p) \/ Crash(p)
    <3>1. PICK p \in Proc : FlightStep(p)
      BY <1>f, <2>3 DEF Crash
    <3>2. UNCHANGED call \/ Settle(p, Required) \/ Settle(p, Again) \/ Settle(p, Thrown)
      BY <3>1, Zenon DEF FlightStep, FlightRead, Rotate, RotateLost, Replace, ReplaceUnanswered, Drop, DropFails,
                  FlightErase, FlightFails
    <3> QED BY <1>1, <3>2, SettleMoves DEF Types
  <2>4. CASE (\E c \in Cred : Expire(c)) \/ (\E s \in State : StateExpires(s)) \/ Due \/ Withdraw
    BY <2>4 DEF Expire, StateExpires, Due, Withdraw
  <2> QED BY <2>1, <2>2, <2>3, <2>4 DEF Next
<1>3. CASE Consume(t)
  <2>1. k.pc = "consume" /\ \E pc \in {"exchange", "done"} : m = At(k, pc)
    BY <1>3, <1>g DEF Consume, IsAt, Ended
  <2> QED BY <1>a, <2>1 DEF CallbackMove, Granting
<1>4. CASE Exchange(t)
  <2>1. k.pc = "exchange" /\ UNCHANGED <<stored, flight, causes>>
    BY <1>4 DEF Exchange, IsAt, row
  <2>2. CASE Goes(t, Ended(k))
    BY <1>a, <1>g, <2>1, <2>2 DEF CallbackMove, Ended, Granting
  <2>3. ASSUME NEW c \in Cred, NEW pc \in {"save", "discardAccess"}, Issue(c),
               access' = [access EXCEPT ![c] = "live"], refresh' = [refresh EXCEPT ![c] = "live"],
               Goes(t, [k EXCEPT !.pc = pc, !.held = c])
        PROVE  CallbackMove(t)
    <3>1. m.pc = pc /\ m.held = c
      BY <1>1, <1>g, <2>3 DEF IsCall
    <3>2. c = issued + 1 /\ Issued(c)
      BY <2>3 DEF Issue, Issued, Types, TokenTypes
    <3>3. \A u \in Call \ {t} : call'[u] = call[u]
      BY <1>1, <2>3 DEF Goes
    <3> QED BY <2>1, <2>3, <3>1, <3>2, <3>3 DEF CallbackMove
  <2> QED BY <1>4, <2>2, <2>3 DEF Exchange
<1>5. CASE Save(t)
  <2>1. k.pc = "save" /\ m = At(k, "done") /\ Stored(k.held) /\ UNCHANGED <<slack, flight, causes>>
    BY <1>5, <1>g DEF Save, IsAt, Ended
  <2>2. Granted(t)
    BY <1>a, <2>1 DEF Granted, Stored
  <2> QED BY <1>a, <2>1, <2>2 DEF CallbackMove
<1>6. CASE Discard(t)
  <2>1. CASE k.pc = "discardAccess"
    BY <1>6, <1>a, <1>g, <2>1 DEF Discard, CallbackMove
  <2>2. CASE k.pc = "discardRefresh"
    <3>1. m = At(k, "done") /\ refresh' = [refresh EXCEPT ![k.held] = "dead"]
      BY <1>6, <1>g, <2>2 DEF Discard, Ended
    <3>2. refresh'[k.held] = "dead"
      BY <1>1, <2>2, <3>1 DEF CallbackAt, Granting, Types, TokenTypes
    <3> QED BY <1>a, <2>2, <3>1, <3>2 DEF CallbackMove
  <2> QED BY <1>6, <2>1, <2>2 DEF Discard
<1> QED BY <1>2, <1>3, <1>4, <1>5, <1>6 DEF CallbackMove

\* A live refresh token is rotated for p: p alone has the successor.
Rotated(p) ==
  LET f == flight[p] g == flight'[p] IN
  /\ f.pc = "rotate" /\ Flown(g, "replace", f.seen, issued + 1)
  /\ issued + 1 \in Cred /\ Issued(issued + 1)
  /\ refresh' = [refresh EXCEPT ![f.seen] = "dead", ![issued + 1] = "live"]
  /\ UNCHANGED <<stored, call, causes>> /\ \A q \in Proc \ {p} : flight'[q] = flight[q]

\* What a step without a fault makes of a flight.
CalmFlight(p) ==
  LET f == flight[p] g == flight'[p] IN
  \/ g = f
  \/ f.pc \notin Carrying /\ Flown(g, "idle", None, None)
  \/ f.pc = "idle" /\ Flown(g, "read", None, None)
  \/ f.pc = "read" /\ stored \in Cred /\ stored' = stored /\ Flown(g, "rotate", stored, None)
  \/ f.pc = "rotate" /\ refresh[f.seen] = "dead" /\ f.seen \in Cred /\ Flown(g, "erase", f.seen, None)
  \/ Rotated(p)
  \/ Recorded(p)
  \/ f.pc = "replace" /\ stored # f.seen /\ Flown(g, "dropAccess", f.seen, f.new)
  \/ f.pc = "dropAccess" /\ Flown(g, "dropRefresh", f.seen, f.new)
  \/ f.pc = "dropRefresh" /\ refresh'[f.new] = "dead" /\ Flown(g, "idle", None, None)

\* Rotation of a live refresh token.
LEMMA RotateMoves ==
  ASSUME Types, NEW p \in Proc, Rotate(p), refresh[flight[p].seen] = "live"
  PROVE  Rotated(p)
<1>1. flight[p].pc = "rotate" /\ FlightAt(flight[p]) /\ DOMAIN flight = Proc
  BY DEF Rotate, Flying, Types, FlightTypes
<1>2. PICK c \in Cred : /\ Issue(c) /\ access' = [access EXCEPT ![c] = "live"]
                        /\ refresh' = [refresh EXCEPT ![flight[p].seen] = "dead", ![c] = "live"]
                        /\ Flies(p, [flight[p] EXCEPT !.pc = "replace", !.new = c])
  BY DEF Rotate
<1>3. c = issued + 1 /\ Issued(c)
  BY <1>2 DEF Issue, Issued, Types, TokenTypes
<1>4. Flown(flight'[p], "replace", flight[p].seen, c) /\ \A q \in Proc \ {p} : flight'[q] = flight[q]
  BY <1>1, <1>2, FlownMoves DEF Flies
<1> QED BY <1>1, <1>2, <1>3, <1>4 DEF Rotate, Rotated, row

\* Without a fault the flights move in these ways only.
LEMMA CalmFlights ==
  ASSUME Types, Next, faults' = faults, NEW p \in Proc
  PROVE  CalmFlight(p)
<1>1. FlightAt(flight[p]) /\ DOMAIN flight = Proc
  BY DEF Types, FlightTypes
<1>f. ~Faults
  BY DEF Faults, Types
<1>2. CASE ~\E q \in Proc : FlightStep(q)
  <2>1. \/ UNCHANGED flight \/ \E t \in Call : \E force : Join(t, force)
    BY <1>2, <1>f, Zenon DEF Next, CallStep, Read, Validate, Erase, GetFails, Use, UseFails, FindFailed, EraseFailed,
       RevokeFailed, InvalidateFails, Offer, OfferFails, Exchange, Save, SaveFails, Discard, DiscardFails, Crash,
       Consume, Expire, StateExpires, Due, Withdraw
  <2>2. ASSUME NEW t \in Call, NEW force, Join(t, force)  PROVE CalmFlight(p)
    <3>1. Home[t] \in Proc
      BY UserOAuthAssumption
    <3>2. \/ flight'[p] = flight[p]
          \/ flight[p].pc = "idle" /\ flight'[p] = [Idle EXCEPT !.pc = "read", !.force = force]
      BY <1>1, <2>2, <3>1 DEF Join
    <3> QED BY <3>2, FlownMoves DEF CalmFlight
  <2> QED BY <2>1, <2>2 DEF CalmFlight
<1>3. ASSUME NEW q \in Proc, FlightStep(q)  PROVE CalmFlight(p)
  <2>1. FlightRead(q) \/ Rotate(q) \/ Replace(q) \/ Drop(q) \/ FlightErase(q) \/ FlightFails(q)
    BY <1>3, <1>f DEF FlightStep, RotateLost, ReplaceUnanswered, DropFails
  <2>2. CASE p # q
    <3>1. (\E f : Flies(q, f)) \/ Settle(q, Required) \/ Settle(q, Again) \/ Settle(q, Thrown)
      BY <2>1, Zenon DEF FlightRead, Rotate, Replace, Drop, FlightErase, FlightFails
    <3>2. \E f : flight' = [flight EXCEPT ![q] = f]
      BY <3>1, Zenon DEF Flies, Settle
    <3> QED BY <1>1, <2>2, <3>2 DEF CalmFlight
  <2>3. CASE p = q
    <3>f. ASSUME NEW f, Flies(p, f)  PROVE flight'[p] = f
      BY <1>1, <3>f DEF Flies
    <3>s. ASSUME Settle(p, Required) \/ Settle(p, Again) \/ Settle(p, Thrown)
          PROVE  Flown(flight'[p], "idle", None, None) /\ \A r \in Proc \ {p} : flight'[r] = flight[r]
      <4>1. flight' = [flight EXCEPT ![p] = Idle]
        BY <3>s DEF Settle
      <4> QED BY <1>1, <4>1, FlownMoves
    <3>1. CASE FlightRead(p)
      <4>1. flight[p].pc = "read" /\ stored' = stored
        BY <3>1 DEF FlightRead, Flying, row
      <4>2. CASE stored \notin {None, Unrotated} /\ Flies(p, [flight[p] EXCEPT !.pc = "rotate", !.seen = stored])
        <5>1. stored \in Cred
          BY <4>2 DEF Types, TokenTypes, Maybe
        <5>2. flight'[p] = [flight[p] EXCEPT !.pc = "rotate", !.seen = stored]
          BY <3>f, <4>2
        <5>3. Flown(flight'[p], "rotate", stored, None)
          <6>1. Flown([flight[p] EXCEPT !.pc = "rotate", !.seen = stored], "rotate", stored, None)
            BY <1>1, <4>1, <5>1, FlownMoves, Zenon
          <6> QED BY <5>2, <6>1
        <5> QED BY <4>1, <5>1, <5>3 DEF CalmFlight
      <4> QED BY <3>1, <3>s, <4>1, <4>2 DEF FlightRead, CalmFlight, Carrying
    <3>2. CASE Rotate(p)
      <4>1. flight[p].pc = "rotate" /\ flight[p].seen \in Cred
        BY <1>1, <3>2 DEF Rotate, Flying, FlightAt
      <4>2. CASE refresh[flight[p].seen] = "live"
        BY <3>2, <4>2, RotateMoves DEF CalmFlight
      <4>3. CASE refresh[flight[p].seen] = "dead" /\ Flies(p, [flight[p] EXCEPT !.pc = "erase"])
        BY <1>1, <3>f, <4>1, <4>3, FlownMoves DEF CalmFlight
      <4> QED BY <3>2, <4>2, <4>3 DEF Rotate
    <3>3. CASE Replace(p)
      <4>1. flight[p].pc = "replace" /\ flight[p].pc \in Carrying /\ "dropAccess" \in Carrying
        BY <3>3 DEF Replace, Flying, Carrying
      <4>2. CASE Replaced(flight[p].seen, flight[p].new) /\ Settle(p, Again)
        BY <3>3, <3>s, <4>1, <4>2 DEF Replace, Replaced, Recorded, CalmFlight
      <4>3. CASE stored # flight[p].seen /\ Flies(p, [flight[p] EXCEPT !.pc = "dropAccess"])
        <5>1. Flown(flight'[p], "dropAccess", flight[p].seen, flight[p].new)
          BY <1>1, <3>f, <4>1, <4>3, FlownMoves
        <5> QED BY <4>1, <4>3, <5>1 DEF CalmFlight
      <4> QED BY <3>3, <4>2, <4>3 DEF Replace
    <3>4. CASE Drop(p)
      <4>1. CASE flight[p].pc = "dropAccess"
        <5>1. flight'[p] = [flight[p] EXCEPT !.pc = "dropRefresh"] /\ flight[p].pc \in Carrying /\ "dropRefresh" \in Carrying
          BY <3>4, <3>f, <4>1 DEF Drop, Carrying
        <5>2. Flown(flight'[p], "dropRefresh", flight[p].seen, flight[p].new)
          BY <1>1, <5>1, FlownMoves
        <5> QED BY <4>1, <5>2 DEF CalmFlight
      <4>2. CASE flight[p].pc = "dropRefresh"
        <5>1. refresh' = [refresh EXCEPT ![flight[p].new] = "dead"] /\ Settle(p, Again) /\ flight[p].new \in Cred
          BY <1>1, <3>4, <4>2 DEF Drop, FlightAt, Carrying
        <5>2. refresh'[flight[p].new] = "dead"
          BY <5>1 DEF Types, TokenTypes
        <5> QED BY <3>s, <4>2, <5>1, <5>2 DEF CalmFlight
      <4> QED BY <3>4, <4>1, <4>2 DEF Drop
    <3>5. CASE FlightErase(p) \/ FlightFails(p)
      <4>1. flight[p].pc \notin Carrying
        BY <1>f, <3>5 DEF FlightErase, FlightFails, Flying, Carrying
      <4>2. Settle(p, Required) \/ Settle(p, Again) \/ Settle(p, Thrown)
        BY <3>5, Zenon DEF FlightErase, FlightFails
      <4> QED BY <3>s, <4>1, <4>2 DEF CalmFlight
    <3> QED BY <2>1, <2>3, <3>1, <3>2, <3>3, <3>4, <3>5
  <2> QED BY <2>2, <2>3
<1> QED BY <1>2, <1>3

\* A stored credential is erased by a handler it was refused to, or by a refresh.
ErasedBy(t) == call[t].pc = "erase" /\ call[t].seen = stored
ErasedAfter(t) ==
  /\ call[t].pc = "eraseFailed" /\ call[t].seen = stored
  /\ access[stored] = "expired" => "expired in use" \in causes' /\ stored \in abandoned'
ErasedIn(p) ==
  /\ flight[p].pc = "erase" /\ flight[p].seen = stored
  /\ (\E q \in Proc : flight[q].pc = "replace" /\ flight[q].seen = stored) => "raced" \in causes'
\* An erasure is one of these, and Slack has no part in it.
LEMMA ErasedMoves ==
  ASSUME Types, Next, stored \in Cred, stored' = None
  PROVE  /\ UNCHANGED slack
         /\ (\E t \in Handler : ErasedBy(t) \/ ErasedAfter(t)) \/ (\E p \in Proc : ErasedIn(p))
<1>1. stored' # stored
  BY UserOAuthAssumption
<1>2. (\E t \in Call : CallStep(t)) \/ (\E p \in Proc : FlightStep(p))
  BY <1>1, Zenon DEF Next, Consume, Crash, Expire, StateExpires, Due, Withdraw, row
<1>3. ASSUME NEW t \in Call, CallStep(t)
      PROVE  UNCHANGED slack /\ t \in Handler /\ (ErasedBy(t) \/ ErasedAfter(t))
  <2>1. Erase(t) \/ EraseFailed(t) \/ Save(t) \/ SaveFails(t)
    BY <1>1, <1>3, Zenon DEF CallStep, Read, Validate, GetFails, Use, UseFails, FindFailed, RevokeFailed,
       InvalidateFails, Offer, OfferFails, Exchange, Discard, DiscardFails, row
  <2>2. CASE Save(t) \/ SaveFails(t)
    <3>1. call[t].pc = "save" /\ stored' = call[t].held
      BY <1>1, <2>2 DEF Save, SaveFails, IsAt, Stored, row
    <3>2. call[t].held \in Cred
      BY <3>1 DEF Types, CallTypes, HandlerAt, HandlerPc, CallbackAt, Granting, Call
    <3> QED BY <3>1, <3>2, UserOAuthAssumption
  <2>3. CASE Erase(t) \/ EraseFailed(t)
    <3>1. t \in Handler
      BY <2>3 DEF Erase, EraseFailed, IsAt, Types, CallTypes, CallbackAt, CallbackPc, Granting, Call
    <3>2. CASE Erase(t)
      BY <1>1, <3>1, <3>2 DEF Erase, Erased, IsAt, ErasedBy, row
    <3>3. CASE EraseFailed(t)
      BY <1>1, <3>1, <3>3 DEF EraseFailed, Erased, IsAt, ErasedAfter, row
    <3> QED BY <2>3, <3>2, <3>3
  <2> QED BY <2>1, <2>2, <2>3
<1>4. ASSUME NEW p \in Proc, FlightStep(p)  PROVE UNCHANGED slack /\ ErasedIn(p)
  <2>1. FlightErase(p) \/ ((Replace(p) \/ ReplaceUnanswered(p)) /\ stored' = flight[p].new)
    BY <1>1, <1>4, Zenon DEF FlightStep, FlightRead, Rotate, RotateLost, Replace, ReplaceUnanswered, Replaced, Drop,
       DropFails, FlightFails, row
  <2>2. CASE (Replace(p) \/ ReplaceUnanswered(p)) /\ stored' = flight[p].new
    <3>1. flight[p].new \in Cred
      BY <2>2 DEF Replace, ReplaceUnanswered, Flying, Types, FlightTypes, FlightAt, Carrying
    <3> QED BY <2>2, <3>1, UserOAuthAssumption
  <2>3. CASE FlightErase(p)
    BY <1>1, <2>3 DEF FlightErase, Flying, Erased, ErasedIn, row
  <2> QED BY <2>1, <2>2, <2>3
<1> QED BY <1>2, <1>3, <1>4

\* A credential issued without a fault has a holder.
LEMMA IssuedMoves ==
  ASSUME Types, Next, faults' = faults, issued' # issued
  PROVE  (\E p \in Proc : Rotated(p)) \/ (\E t \in Callback : call'[t].pc \in Granting /\ call'[t].held = issued')
<1>f. ~Faults
  BY DEF Faults, Types
<1>1. (\E p \in Proc : Rotate(p)) \/ (\E t \in Call : Exchange(t))
  BY <1>f, Zenon DEF Next, CallStep, FlightStep, Read, Validate, Erase, GetFails, Use, UseFails, FindFailed, EraseFailed,
     RevokeFailed, InvalidateFails, Offer, OfferFails, Save, SaveFails, Discard, DiscardFails, Consume, FlightRead,
     RotateLost, Replace, ReplaceUnanswered, Drop, DropFails, FlightErase, FlightFails, Expire, StateExpires,
     Due, Withdraw, Crash, slack
<1>2. ASSUME NEW p \in Proc, Rotate(p)  PROVE Rotated(p)
  <2>1. refresh[flight[p].seen] = "live"
    BY <1>2 DEF Rotate, slack
  <2> QED BY <1>2, <2>1, RotateMoves
<1>3. ASSUME NEW t \in Call, Exchange(t)
      PROVE  t \in Callback /\ call'[t].pc \in Granting /\ call'[t].held = issued'
  <2>1. t \in Callback
    BY <1>3 DEF Exchange, IsAt, Types, CallTypes, HandlerAt, HandlerPc, Call
  <2>2. PICK c \in Cred, pc \in {"save", "discardAccess"} : Issue(c) /\ Goes(t, [call[t] EXCEPT !.pc = pc, !.held = c])
    BY <1>3 DEF Exchange, slack
  <2>3. call'[t].pc = pc /\ call'[t].held = c
    BY <2>2 DEF Goes, Types, CallTypes, IsCall
  <2> QED BY <2>1, <2>2, <2>3 DEF Granting, Issue
<1> QED BY <1>1, <1>2, <1>3

------------------------------------------------------------------------------
(* Until the first fault: who knows of a credential *)

\* A credential that can be found in the store, by a handler or in a refresh of it; a
\* successor a refresh carries; a grant a callback has.
Knows(c) ==
  \/ stored = c
  \/ \E t \in Handler : call[t].seen = c \/ call[t].held = c
  \/ \E p \in Proc : flight[p].seen = c
Bears(p, c) == flight[p].pc \in Carrying /\ flight[p].new = c
Grants(t, c) == call[t].pc \in Granting /\ call[t].held = c
Untouched(c) == c > issued \/ access[c] = "none"

\* Until it is stored, a new credential is in one pair of hands.
Hands ==
  \A c \in Cred :
    /\ Untouched(c) =>
         ~Knows(c) /\ (\A p \in Proc : ~Bears(p, c)) /\ (\A t \in Callback : ~Grants(t, c))
    /\ \A p \in Proc : Bears(p, c) =>
         ~Knows(c) /\ (\A q \in Proc \ {p} : ~Bears(q, c)) /\ (\A t \in Callback : ~Grants(t, c))
    /\ \A t \in Callback : Grants(t, c) => ~Knows(c) /\ (\A u \in Callback \ {t} : ~Grants(u, c))

\* A credential becomes known by being stored.
LEMMA KnowsMoves ==
  ASSUME Types, Next, faults' = faults, NEW c \in Cred, Knows(c)'
  PROVE  \/ Knows(c)
         \/ \E p \in Proc : Recorded(p) /\ flight[p].new = c
         \/ \E t \in Callback : Granted(t) /\ call[t].held = c
<1>n. c # None
  BY UserOAuthAssumption
<1>1. CASE stored' = c
  BY <1>1, <1>n, StoredMoves DEF Recorded, Granted, Knows
<1>2. CASE \E t \in Handler : call'[t].seen = c \/ call'[t].held = c
  <2>1. PICK t \in Handler : call'[t].seen = c \/ call'[t].held = c
    BY <1>2
  <2>2. HandlerMove(t)
    BY HandlerMoves
  <2>3. c \in {call[t].seen, call[t].held, stored}
    BY <2>1, <2>2 DEF HandlerMove
  <2> QED BY <2>3 DEF Knows
<1>3. CASE \E p \in Proc : flight'[p].seen = c
  <2>1. PICK p \in Proc : flight'[p].seen = c
    BY <1>3
  <2>2. c \in {flight[p].seen, stored}
    BY <1>n, <2>1, CalmFlights DEF CalmFlight, Rotated, Recorded, Flown
  <2> QED BY <2>2 DEF Knows
<1> QED BY <1>1, <1>2, <1>3 DEF Knows

\* A refresh keeps the successor it has until that is stored, or is issued one.
LEMMA BearsMoves ==
  ASSUME Types, Next, faults' = faults, NEW c \in Cred, NEW p \in Proc, Bears(p, c)'
  PROVE  (Bears(p, c) /\ ~Recorded(p)) \/ (Rotated(p) /\ c = issued + 1)
<1>1. flight'[p].pc \in Carrying /\ flight'[p].new = c
  BY DEF Bears
<1>2. ~Recorded(p)
  BY <1>1 DEF Recorded, Flown, Carrying
<1>3. CASE flight'[p] = flight[p]
  BY <1>1, <1>2, <1>3 DEF Bears
<1>4. CASE flight[p].pc \in Carrying /\ flight'[p].new = flight[p].new
  BY <1>1, <1>2, <1>4 DEF Bears
<1>5. CASE Rotated(p)
  BY <1>1, <1>5 DEF Rotated, Flown
<1> QED BY <1>1, <1>2, <1>3, <1>4, <1>5, CalmFlights DEF CalmFlight, Flown, Carrying

\* A callback keeps its grant until that is stored, or is issued one.
LEMMA GrantsMoves ==
  ASSUME Types, Next, faults' = faults, NEW c \in Cred, NEW t \in Callback, Grants(t, c)'
  PROVE  \/ Grants(t, c) /\ ~Granted(t)
         \/ /\ c = issued + 1 /\ Issued(c) /\ UNCHANGED <<stored, flight>>
            /\ \A u \in Call \ {t} : call'[u] = call[u]
<1>1. call'[t].pc \in Granting /\ call'[t].held = c
  BY DEF Grants
<1>2. ~Granted(t)
  BY <1>1 DEF Granted, Granting
<1> QED BY <1>1, <1>2, CallbackMoves DEF CallbackMove, Grants, Granting

\* Hands change without mixing.
LEMMA HandsKept == ASSUME Types, Hands, Next, faults' = faults  PROVE Hands'
<1> SUFFICES ASSUME NEW c \in Cred
             PROVE  /\ Untouched(c)' =>
                         /\ ~Knows(c)'
                         /\ \A p \in Proc : ~Bears(p, c)'
                         /\ \A t \in Callback : ~Grants(t, c)'
                    /\ \A p \in Proc : Bears(p, c)' =>
                         /\ ~Knows(c)'
                         /\ \A q \in Proc \ {p} : ~Bears(q, c)'
                         /\ \A t \in Callback : ~Grants(t, c)'
                    /\ \A t \in Callback : Grants(t, c)' =>
                         ~Knows(c)' /\ (\A u \in Callback \ {t} : ~Grants(u, c)')
  BY DEF Hands
<1> DEFINE Unknown == ~Knows(c) /\ (\A p \in Proc : ~Bears(p, c)) /\ (\A t \in Callback : ~Grants(t, c))
<1>t. c \in Int /\ issued \in Int /\ issued' \in {issued, issued + 1}
  BY SlackMoves, UserOAuthAssumption DEF Types, TokenTypes, Cred
<1>u. Untouched(c) => Unknown
  BY DEF Hands
<1>n. c = issued + 1 => Untouched(c)
  BY <1>t DEF Untouched
<1>i. c = issued + 1 /\ Issued(c) => ~Untouched(c)'
  BY <1>t DEF Issued, Untouched
<1>m. Untouched(c)' => Untouched(c)
  <2>1. ASSUME access'[c] = "none", access[c] # "none"  PROVE FALSE
    <3>1. AccessMove(c)
      BY SlackMoves DEF Moves
    <3> QED BY <2>1, <3>1 DEF AccessMove, Issued
  <2>2. c > issued' => c > issued
    BY <1>t
  <2> QED BY <2>1, <2>2 DEF Untouched
<1>r. ASSUME NEW p \in Proc, Recorded(p), flight[p].new = c  PROVE Bears(p, c)
  BY <1>r DEF Recorded, Bears, Carrying
<1>g. ASSUME NEW t \in Callback, Granted(t), call[t].held = c  PROVE Grants(t, c)
  BY <1>g DEF Granted, Grants, Granting
<1>k. Knows(c)' => Knows(c) \/ (\E p \in Proc : Recorded(p) /\ Bears(p, c)) \/ (\E t \in Callback : Granted(t) /\ Grants(t, c))
  BY <1>r, <1>g, KnowsMoves
<1>b. \A p \in Proc : Bears(p, c)' => (Bears(p, c) /\ ~Recorded(p)) \/ (Rotated(p) /\ c = issued + 1)
  BY BearsMoves
<1>x. \A p \in Proc : Rotated(p) => Issued(issued + 1) /\ (\A q \in Proc \ {p} : Bears(q, c)' => Bears(q, c))
                                    /\ (\A t \in Callback : Grants(t, c)' => Grants(t, c))
  BY DEF Rotated, Bears, Grants
<1>y. \A t \in Callback : Grants(t, c)' =>
         \/ Grants(t, c) /\ ~Granted(t)
         \/ /\ c = issued + 1 /\ Issued(c)
            /\ \A q \in Proc : Bears(q, c)' => Bears(q, c)
            /\ \A u \in Callback \ {t} : Grants(u, c)' => Grants(u, c)
  <2> SUFFICES ASSUME NEW t \in Callback, Grants(t, c)'
               PROVE  \/ Grants(t, c) /\ ~Granted(t)
                      \/ /\ c = issued + 1 /\ Issued(c)
                         /\ \A q \in Proc : Bears(q, c)' => Bears(q, c)
                         /\ \A u \in Callback \ {t} : Grants(u, c)' => Grants(u, c)
    OBVIOUS
  <2>1. CASE c = issued + 1 /\ Issued(c) /\ UNCHANGED <<stored, flight>> /\ \A u \in Call \ {t} : call'[u] = call[u]
    BY <2>1 DEF Bears, Grants, Call
  <2> QED BY <2>1, GrantsMoves
<1>1. Untouched(c)' => /\ ~Knows(c)'
                       /\ \A p \in Proc : ~Bears(p, c)'
                       /\ \A t \in Callback : ~Grants(t, c)'
  <2> SUFFICES ASSUME Untouched(c)'
               PROVE  /\ ~Knows(c)'
                      /\ \A p \in Proc : ~Bears(p, c)'
                      /\ \A t \in Callback : ~Grants(t, c)'
    OBVIOUS
  <2>1. Unknown
    BY <1>m, <1>u
  <2>2. ~(c = issued + 1 /\ Issued(c))
    BY <1>i
  <2> QED BY <2>1, <2>2, <1>k, <1>b, <1>x, <1>y
<1>2. ASSUME NEW p \in Proc, Bears(p, c)'
      PROVE  /\ ~Knows(c)'
             /\ \A q \in Proc \ {p} : ~Bears(q, c)'
             /\ \A t \in Callback : ~Grants(t, c)'
  <2>1. CASE Bears(p, c) /\ ~Recorded(p)
    <3>1. /\ ~Knows(c) /\ (\A q \in Proc \ {p} : ~Bears(q, c)) /\ (\A t \in Callback : ~Grants(t, c))
          /\ ~Untouched(c)
      BY <2>1 DEF Hands
    <3> QED BY <2>1, <3>1, <1>k, <1>b, <1>y, <1>n
  <2>2. CASE Rotated(p) /\ c = issued + 1
    <3>1. Unknown
      BY <1>n, <1>u, <2>2
    <3> QED BY <2>2, <3>1, <1>k, <1>x
  <2> QED BY <1>2, <1>b, <2>1, <2>2
<1>3. ASSUME NEW t \in Callback, Grants(t, c)'
      PROVE  ~Knows(c)' /\ (\A u \in Callback \ {t} : ~Grants(u, c)')
  <2>1. CASE Grants(t, c) /\ ~Granted(t)
    <3>1. /\ ~Knows(c) /\ (\A p \in Proc : ~Bears(p, c)) /\ (\A u \in Callback \ {t} : ~Grants(u, c))
          /\ ~Untouched(c)
      BY <2>1 DEF Hands
    <3> QED BY <2>1, <3>1, <1>k, <1>y, <1>n
  <2>2. CASE c = issued + 1 /\ (\A u \in Callback \ {t} : Grants(u, c)' => Grants(u, c))
    <3>1. Unknown
      BY <1>n, <1>u, <2>2
    <3> QED BY <2>2, <3>1, <1>k
  <2> QED BY <1>3, <1>y, <2>1, <2>2
<1> QED BY <1>1, <1>2, <1>3, Zenon

------------------------------------------------------------------------------
(* Until the first fault: what the tokens are worth *)

\* A credential that is stored, or about to be: its access token died only by a withdrawal,
\* and never before its refresh token.
Good(c) ==
  /\ "withdrawn" \notin causes => access[c] # "dead"
  /\ access[c] = "dead" => refresh[c] # "live"
Unspent(c) == "withdrawn" \notin causes => refresh[c] # "dead"

Tokens ==
  /\ stored # None => Good(stored)
  /\ \A p \in Proc : flight[p].pc = "replace" => Good(flight[p].new) /\ Unspent(flight[p].new)
  /\ \A t \in Callback : call[t].pc = "save" => Good(call[t].held) /\ Unspent(call[t].held)

\* A refresh that has a successor, or was refused one, has seen its refresh token spent.
Spent ==
  \A p \in Proc : flight[p].pc \in Carrying \cup {"erase"} => refresh[flight[p].seen] = "dead"

\* A handler erases and revokes only what was refused to it.
Refused ==
  \A t \in Handler :
    /\ call[t].pc = "erase" => access[call[t].seen] = "dead"
    /\ call[t].pc \in {"findFailed", "eraseFailed", "revokeFailed"} => access[call[t].held] # "live"
    /\ call[t].pc = "revokeFailed" => call[t].held # stored

\* The stored refresh token is good, or the refresh that spent it has the successor.
Reach ==
  stored # None /\ "withdrawn" \notin causes =>
    \/ refresh[stored] # "dead"
    \/ \E p \in Proc : flight[p].pc = "replace" /\ flight[p].seen = stored

\* A live refresh token is stored, was abandoned, or is in somebody's hands.
Kept(c) ==
  \/ stored = c \/ c \in abandoned
  \/ (\E t \in Callback : Grants(t, c)) \/ (\E p \in Proc : Bears(p, c))
Orphans == \A c \in Cred : refresh[c] = "live" => Kept(c)

Sound == Hands /\ Tokens /\ Spent /\ Refused /\ Reach /\ Orphans

\* A credential that is known is not issued again, and one that dies is carried by nobody.
LEMMA KnownStays ==
  ASSUME Types, Hands, NEW c \in Cred, Knows(c)
  PROVE  /\ ~Issued(c) /\ access[c] # "none"
         /\ (\A p \in Proc : ~Bears(p, c)) /\ (\A t \in Callback : ~Grants(t, c))
<1>1. ~Untouched(c)
  BY DEF Hands
<1>2. c \in Int /\ issued \in Int
  BY UserOAuthAssumption DEF Types, TokenTypes, Cred
<1> QED BY <1>1, <1>2 DEF Untouched, Issued, Hands

\* A good credential stays good unless it is dropped, discarded or revoked.
LEMMA GoodStays ==
  ASSUME Types, Next, NEW c \in Cred, Good(c),
         \A p \in Proc : ~(flight[p].pc = "dropAccess" /\ flight[p].new = c),
         \A t \in Callback : ~(call[t].pc = "discardAccess" /\ call[t].held = c),
         \A t \in Handler : ~(call[t].pc = "revokeFailed" /\ call[t].held = c)
  PROVE  Good(c)'
<1>1. AccessMove(c) /\ RefreshMove(c) /\ causes \subseteq causes'
  BY SlackMoves, GhostMoves DEF Moves
<1>2. access'[c] = "dead" => "withdrawn" \in causes' \/ access[c] = "dead"
  BY <1>1 DEF AccessMove, Issued
<1>3. access'[c] = "dead" /\ access[c] # "dead" => refresh'[c] # "live"
  BY <1>1 DEF AccessMove, Issued
<1>4. access'[c] = "dead" /\ access[c] = "dead" => refresh'[c] # "live"
  BY <1>1 DEF RefreshMove, Issued, Good
<1> QED BY <1>1, <1>2, <1>3, <1>4 DEF Good

\* An unspent refresh token of which nobody knows stays so until it is dropped or discarded.
LEMMA UnspentStays ==
  ASSUME Types, Next, NEW c \in Cred, Unspent(c), ~Knows(c),
         \A p \in Proc : ~(flight[p].pc = "dropRefresh" /\ flight[p].new = c),
         \A t \in Callback : ~(call[t].pc = "discardRefresh" /\ call[t].held = c)
  PROVE  Unspent(c)'
<1>1. RefreshMove(c) /\ causes \subseteq causes'
  BY SlackMoves, GhostMoves DEF Moves
<1>2. \A p \in Proc : flight[p].seen # c
  BY DEF Knows
<1> QED BY <1>1, <1>2 DEF Unspent, RefreshMove, Issued

\* A newly issued credential is good.
LEMMA IssuedIsGood == ASSUME NEW c, Issued(c)  PROVE Good(c)' /\ Unspent(c)'
  BY DEF Issued, Good, Unspent

\* What is stored and what is about to be stays good.
LEMMA TokensKept ==
  ASSUME Types, Sound, Next, faults' = faults
  PROVE  Tokens'
<1>h. Hands /\ Tokens /\ Refused /\ None \notin Cred
  BY UserOAuthAssumption DEF Sound
<1>1. ASSUME NEW c \in Cred, stored' = c  PROVE Good(c)'
  <2>1. CASE stored = c
    <3>1. Knows(c) /\ Good(c)
      BY <1>h, <2>1 DEF Knows, Tokens
    <3>2. \A t \in Handler : ~(call[t].pc = "revokeFailed" /\ call[t].held = c)
      BY <1>h, <2>1 DEF Refused
    <3>3. (\A p \in Proc : ~Bears(p, c)) /\ (\A t \in Callback : ~Grants(t, c))
      BY <1>h, <3>1, KnownStays
    <3>4. /\ \A p \in Proc : ~(flight[p].pc = "dropAccess" /\ flight[p].new = c)
          /\ \A t \in Callback : ~(call[t].pc = "discardAccess" /\ call[t].held = c)
      BY <3>3 DEF Bears, Grants, Carrying, Granting
    <3> QED BY <3>1, <3>2, <3>4, GoodStays
  <2>2. CASE \E p \in Proc : Recorded(p)
    <3>1. Good(c)
      BY <1>h, <1>1, <2>2 DEF Recorded, Tokens
    <3> QED BY <2>2, <3>1 DEF Recorded, Good, slack
  <2>3. CASE \E t \in Callback : Granted(t)
    <3>1. Good(c)
      BY <1>h, <1>1, <2>3 DEF Granted, Tokens
    <3> QED BY <2>3, <3>1 DEF Granted, Good, slack
  <2> QED BY <1>h, <1>1, <2>1, <2>2, <2>3, StoredMoves
<1>2. ASSUME NEW p \in Proc, NEW c \in Cred, flight'[p].pc = "replace", flight'[p].new = c
      PROVE  Good(c)' /\ Unspent(c)'
  <2>1. CASE flight'[p] = flight[p]
    <3>2. Bears(p, c) /\ Good(c) /\ Unspent(c)
      BY <1>h, <1>2, <2>1 DEF Bears, Carrying, Tokens
    <3>3. ~Knows(c) /\ (\A q \in Proc \ {p} : ~Bears(q, c)) /\ (\A t \in Callback : ~Grants(t, c))
      BY <1>h, <3>2 DEF Hands
    <3>4. \A q \in Proc : ~(flight[q].pc \in {"dropAccess", "dropRefresh"} /\ flight[q].new = c)
      BY <1>2, <2>1, <3>3 DEF Bears, Carrying
    <3>5. \A t \in Callback : ~(call[t].pc \in {"discardAccess", "discardRefresh"} /\ call[t].held = c)
      BY <3>3 DEF Grants, Granting
    <3>6. \A t \in Handler : call[t].held # c
      BY <3>3 DEF Knows
    <3> QED BY <3>2, <3>3, <3>4, <3>5, <3>6, GoodStays, UnspentStays
  <2>2. CASE Rotated(p)
    <3>1. c = issued + 1 /\ Issued(issued + 1)
      BY <1>2, <2>2 DEF Rotated, Flown
    <3> QED BY <3>1, IssuedIsGood
  <2> QED BY <1>2, <2>1, <2>2, CalmFlights DEF CalmFlight, Recorded, Flown
<1>3. ASSUME NEW t \in Callback, NEW c \in Cred, call'[t].pc = "save", call'[t].held = c
      PROVE  Good(c)' /\ Unspent(c)'
  <2>1. CASE call'[t] = call[t]
    <3>2. Grants(t, c) /\ Good(c) /\ Unspent(c)
      BY <1>h, <1>3, <2>1 DEF Grants, Granting, Tokens
    <3>3. ~Knows(c) /\ (\A u \in Callback \ {t} : ~Grants(u, c)) /\ (\A p \in Proc : ~Bears(p, c))
      BY <1>h, <3>2 DEF Hands
    <3>4. \A u \in Callback : ~(call[u].pc \in {"discardAccess", "discardRefresh"} /\ call[u].held = c)
      BY <1>3, <2>1, <3>3 DEF Grants, Granting
    <3>5. \A p \in Proc : ~(flight[p].pc \in {"dropAccess", "dropRefresh"} /\ flight[p].new = c)
      BY <3>3 DEF Bears, Carrying
    <3>6. \A u \in Handler : call[u].held # c
      BY <3>3 DEF Knows
    <3> QED BY <3>2, <3>3, <3>4, <3>5, <3>6, GoodStays, UnspentStays
  <2>2. CASE call'[t].held = issued + 1 /\ Issued(issued + 1)
    BY <1>3, <2>2, IssuedIsGood
  <2> QED BY <1>3, <2>1, <2>2, CallbackMoves DEF CallbackMove
<1>4. /\ stored' \in Maybe
      /\ \A p \in Proc : flight'[p].pc = "replace" => flight'[p].new \in Cred
      /\ \A t \in Callback : call'[t].pc = "save" => call'[t].held \in Cred
  BY TypesKept DEF Types, TokenTypes, FlightTypes, FlightAt, CallTypes, CallbackAt, Carrying, Granting
<1> QED BY <1>1, <1>2, <1>3, <1>4 DEF Tokens, Good, Unspent, Maybe

\* A spent refresh token stays spent.
LEMMA SpentKept == ASSUME Types, Sound, Next, faults' = faults  PROVE Spent'
<1> SUFFICES ASSUME NEW p \in Proc, flight'[p].pc \in Carrying \cup {"erase"}
             PROVE  refresh'[flight'[p].seen] = "dead"
  BY DEF Spent
<1>h. Hands /\ Spent /\ Moves /\ FlightAt(flight[p])
  BY SlackMoves DEF Sound, Types, FlightTypes
<1>1. ASSUME NEW c \in Cred, flight[p].seen = c, refresh[c] = "dead"  PROVE refresh'[c] = "dead"
  <2>1. ~Issued(c)
    BY <1>h, <1>1, KnownStays DEF Knows
  <2> QED BY <1>h, <1>1, <2>1 DEF Moves, RefreshMove
<1>2. CASE flight[p].pc \in Carrying \cup {"erase"} /\ flight'[p].seen = flight[p].seen
  <2>1. flight[p].seen \in Cred /\ refresh[flight[p].seen] = "dead"
    BY <1>h, <1>2 DEF FlightAt, Spent
  <2> QED BY <1>1, <1>2, <2>1
<1>3. CASE refresh[flight[p].seen] = "dead" /\ flight[p].seen \in Cred /\ flight'[p].seen = flight[p].seen
  BY <1>1, <1>3
<1>4. CASE Rotated(p)
  <2>1. flight'[p].seen = flight[p].seen /\ flight[p].seen \in Cred /\ issued + 1 \in Cred /\ Issued(issued + 1)
    BY <1>4, <1>h DEF Rotated, Flown, FlightAt
  <2>2. flight[p].seen # issued + 1
    BY <1>h, <2>1, KnownStays DEF Knows
  <2> QED BY <1>4, <2>1, <2>2 DEF Rotated, Types, TokenTypes
<1> QED BY <1>2, <1>3, <1>4, CalmFlights DEF CalmFlight, Recorded, Flown, Carrying

\* What was refused to a handler stays refused, and what it erased is not stored again.
LEMMA RefusedKept == ASSUME Types, Sound, Next, faults' = faults  PROVE Refused'
<1> SUFFICES ASSUME NEW t \in Handler
             PROVE  /\ call'[t].pc = "erase" => access'[call'[t].seen] = "dead"
                    /\ call'[t].pc \in {"findFailed", "eraseFailed", "revokeFailed"} => access'[call'[t].held] # "live"
                    /\ call'[t].pc = "revokeFailed" => call'[t].held # stored'
  BY DEF Refused
<1>h. Hands /\ Refused /\ Moves /\ HandlerAt(call[t]) /\ HandlerMove(t) /\ None \notin Cred
  BY HandlerMoves, SlackMoves, UserOAuthAssumption DEF Sound, Types, CallTypes
<1>1. CASE call'[t] = call[t]
  <2>1. ASSUME NEW c \in Cred, call[t].seen = c \/ call[t].held = c
        PROVE  /\ access[c] = "dead" => access'[c] = "dead"
               /\ access[c] # "live" => access'[c] # "live"
               /\ stored # c => stored' # c
    <3>1. Knows(c) /\ ~Issued(c) /\ (\A p \in Proc : ~Bears(p, c)) /\ (\A u \in Callback : ~Grants(u, c))
      BY <1>h, <2>1, KnownStays DEF Knows
    <3>2. AccessMove(c)
      BY <1>h DEF Moves
    <3>3. stored' = c => stored = c
      BY <1>h, <3>1, StoredMoves DEF Recorded, Granted, Bears, Grants, Carrying, Granting
    <3> QED BY <3>1, <3>2, <3>3 DEF AccessMove
  <2> QED BY <1>h, <1>1, <2>1 DEF Refused, HandlerAt
<1>2. CASE call'[t].pc \in {"read", "joined", "offer", "done", "validate", "using"}
  BY <1>2
<1>3. CASE call'[t].pc = "erase" /\ call'[t].seen = call[t].seen /\ access[call[t].seen] = "dead" /\ UNCHANGED slack
  BY <1>3 DEF slack
<1>4. CASE call'[t].pc = "findFailed" /\ call'[t].held = call[t].held /\ access[call[t].held] # "live" /\ UNCHANGED slack
  BY <1>4 DEF slack
<1>5. CASE /\ call'[t].pc = "eraseFailed" /\ call[t].pc = "findFailed" /\ call'[t].held = call[t].held
           /\ UNCHANGED slack
  BY <1>h, <1>5 DEF slack, Refused
<1>6. CASE /\ call'[t].pc = "revokeFailed" /\ call[t].pc = "eraseFailed" /\ call'[t].held = call[t].held
           /\ stored' = None /\ UNCHANGED slack
  BY <1>h, <1>6 DEF slack, Refused, HandlerAt
<1> QED BY <1>h, <1>1, <1>2, <1>3, <1>4, <1>5, <1>6 DEF HandlerMove

\* The refresh that spends the stored refresh token has its successor.
LEMMA ReachKept == ASSUME Types, Sound, Next, faults' = faults  PROVE Reach'
<1> SUFFICES ASSUME NEW c \in Cred, stored' = c, "withdrawn" \notin causes'
             PROVE  \/ refresh'[c] # "dead"
                    \/ \E p \in Proc : flight'[p].pc = "replace" /\ flight'[p].seen = c
  <2>1. stored' \in Maybe
    BY TypesKept DEF Types, TokenTypes
  <2> QED BY <2>1 DEF Reach, Maybe
<1>h. Hands /\ Tokens /\ Reach /\ Moves /\ None \notin Cred /\ "withdrawn" \notin causes
  BY SlackMoves, GhostMoves, UserOAuthAssumption DEF Sound
<1>1. CASE stored = c
  <2>1. Knows(c) /\ (\A p \in Proc : ~Bears(p, c)) /\ (\A t \in Callback : ~Grants(t, c))
    BY <1>h, <1>1, KnownStays DEF Knows
  <2>2. CASE refresh[c] # "dead"
    <3>1. ASSUME NEW p \in Proc, Rotate(p) \/ RotateLost(p), flight[p].seen = c, refresh[c] = "live"
          PROVE  flight'[p].pc = "replace" /\ flight'[p].seen = c
      <4>1. Rotate(p)
        BY <3>1 DEF RotateLost, Faults, Types
      <4> QED BY <3>1, <4>1, RotateMoves DEF Rotated, Flown
    <3>2. RefreshMove(c)
      BY <1>h DEF Moves
    <3>3. /\ \A p \in Proc : ~(flight[p].pc = "dropRefresh" /\ flight[p].new = c)
          /\ \A t \in Callback : ~(call[t].pc = "discardRefresh" /\ call[t].held = c)
      BY <2>1 DEF Bears, Grants, Carrying, Granting
    <3> QED BY <2>2, <3>1, <3>2, <3>3 DEF RefreshMove, Issued
  <2>3. CASE \E p \in Proc : flight[p].pc = "replace" /\ flight[p].seen = c
    <3>1. PICK p \in Proc : flight[p].pc = "replace" /\ flight[p].seen = c
      BY <2>3
    <3>2. ~Recorded(p)
      BY <1>1, <2>1 DEF Recorded, Bears, Carrying
    <3>3. flight'[p] = flight[p]
      BY <1>1, <3>1, <3>2, CalmFlights DEF CalmFlight, Rotated, Carrying
    <3> QED BY <3>1, <3>3
  <2> QED BY <1>h, <1>1, <2>2, <2>3 DEF Reach
<1>2. CASE \E p \in Proc : Recorded(p)
  BY <1>2, <1>h DEF Recorded, Tokens, Unspent, slack
<1>3. CASE \E t \in Callback : Granted(t)
  BY <1>3, <1>h DEF Granted, Tokens, Unspent, slack
<1> QED BY <1>h, <1>1, <1>2, <1>3, StoredMoves

\* A stored credential is erased only once it is no good, or has its successor held.
LEMMA ErasedForCause ==
  ASSUME Types, Sound, Next, stored \in Cred, stored' = None
  PROVE  /\ refresh[stored] = "live" => stored \in abandoned'
         /\ causes' # {} \/ "withdrawn" \in causes
<1>h. /\ Hands /\ Tokens /\ Spent /\ Refused /\ Reach /\ Knows(stored) /\ None \notin Cred
      /\ Good(stored) /\ access[stored] # "none"
      /\ access \in [Cred -> {"none", "live", "expired", "dead"}]
  <2>1. Hands /\ Tokens /\ Spent /\ Refused /\ Reach /\ Knows(stored) /\ None \notin Cred
    BY UserOAuthAssumption DEF Sound, Knows
  <2>2. Good(stored)
    BY <2>1 DEF Tokens
  <2> QED BY <2>1, <2>2, KnownStays DEF Types, TokenTypes
<1>1. CASE \E t \in Handler : ErasedBy(t)
  <2>1. access[stored] = "dead"
    BY <1>h, <1>1 DEF ErasedBy, Refused
  <2> QED BY <1>h, <2>1 DEF Good
<1>2. CASE \E t \in Handler : ErasedAfter(t)
  <2>1. PICK t \in Handler : ErasedAfter(t)
    BY <1>2
  <2>2. call[t].held = stored
    BY <2>1 DEF ErasedAfter, Types, CallTypes, HandlerAt
  <2>3. access[stored] # "live"
    BY <1>h, <2>1, <2>2 DEF ErasedAfter, Refused
  <2> QED BY <1>h, <2>1, <2>3 DEF ErasedAfter, Good
<1>3. CASE \E p \in Proc : ErasedIn(p)
  <2>1. PICK p \in Proc : ErasedIn(p)
    BY <1>3
  <2>2. refresh[stored] = "dead"
    BY <1>h, <2>1 DEF ErasedIn, Spent
  <2> QED BY <1>h, <2>1, <2>2 DEF ErasedIn, Reach
<1> QED BY <1>1, <1>2, <1>3, ErasedMoves

\* A credential issued without a fault is in somebody's hands.
LEMMA IssuedKept ==
  ASSUME Types, Next, faults' = faults, NEW c \in Cred, Issued(c)
  PROVE  Kept(c)'
<1>1. issued \in Int
  BY UserOAuthAssumption DEF Types, TokenTypes
<1>2. issued' # issued /\ c = issued' /\ c = issued + 1
  BY <1>1 DEF Issued
<1>3. CASE \E p \in Proc : Rotated(p)
  BY <1>2, <1>3 DEF Rotated, Flown, Kept, Bears, Carrying
<1> QED BY <1>2, <1>3, IssuedMoves DEF Kept, Grants

\* A live refresh token passes from hand to hand, into the store, and out of it only when a
\* later grant takes its place or its access token expired in use.
LEMMA OrphansKept == ASSUME Types, Sound, Next, faults' = faults  PROVE Orphans'
<1> SUFFICES ASSUME NEW c \in Cred, refresh'[c] = "live"  PROVE Kept(c)'
  BY DEF Orphans
<1>h. /\ Hands /\ Tokens /\ Spent /\ Refused /\ Orphans /\ RefreshMove(c) /\ None \notin Cred
      /\ abandoned \subseteq abandoned'
  BY SlackMoves, GhostMoves, UserOAuthAssumption DEF Sound, Moves
<1>1. CASE Issued(c)
  BY <1>1, IssuedKept
<1>2. CASE refresh[c] = "live"
  <2>1. CASE stored = c
    <3>1. CASE stored' = None
      BY <1>2, <2>1, <3>1, ErasedForCause DEF Kept
    <3>2. CASE \E p \in Proc : Recorded(p)
      BY <1>h, <1>2, <2>1, <3>2 DEF Recorded, Spent, Carrying
    <3>3. CASE \E t \in Callback : Granted(t)
      BY <1>h, <2>1, <3>3 DEF Granted, Kept
    <3> QED BY <2>1, <3>1, <3>2, <3>3, StoredMoves DEF Kept
  <2>2. CASE c \in abandoned
    BY <1>h, <2>2 DEF Kept
  <2>3. CASE \E t \in Callback : Grants(t, c)
    <3>1. PICK t \in Callback : Grants(t, c)
      BY <2>3
    <3>2. CASE Granted(t)
      BY <3>1, <3>2 DEF Granted, Grants, Kept
    <3>3. Granted(t) \/ Grants(t, c)'
      BY <3>1, CallbackMoves DEF CallbackMove, Grants, Granting
    <3> QED BY <3>2, <3>3 DEF Kept
  <2>4. CASE \E p \in Proc : Bears(p, c)
    <3>1. PICK p \in Proc : Bears(p, c)
      BY <2>4
    <3>2. CASE Recorded(p)
      BY <3>1, <3>2 DEF Recorded, Bears, Kept
    <3>3. Recorded(p) \/ Bears(p, c)'
      BY <3>1, CalmFlights DEF CalmFlight, Rotated, Flown, Bears, Carrying
    <3> QED BY <3>2, <3>3 DEF Kept
  <2> QED BY <1>h, <1>2, <2>1, <2>2, <2>3, <2>4 DEF Orphans, Kept
<1> QED BY <1>h, <1>1, <1>2 DEF RefreshMove

------------------------------------------------------------------------------
(* The credential of the user *)

IInv == Types /\ (faults = 0 => Sound)

\* Everybody's hands are empty when the calls begin.
LEMMA SoundFirst == Init => Sound
<1> SUFFICES ASSUME Init  PROVE Sound
  OBVIOUS
<1>1. /\ \A t \in Handler : call[t] = Fresh("read")
      /\ \A t \in Callback : call[t] = Fresh("consume")
      /\ \A p \in Proc : flight[p] = Idle
      /\ stored \in {None, Unrotated, 1} /\ issued = 1
      /\ \A c \in Cred : access[c] = (IF c = stored THEN "live" ELSE "none")
      /\ \A c \in Cred : refresh[c] = (IF c = stored /\ c # Unrotated THEN "live" ELSE "none")
  BY UserOAuthAssumption DEF Init, InitCalls, First, Call
<1>2. /\ Fresh("read").pc = "read" /\ Fresh("read").seen = None /\ Fresh("read").held = None
      /\ Fresh("consume").pc = "consume" /\ Idle.pc = "idle" /\ Idle.seen = None
  BY DEF Fresh, Idle
<1>3. None \notin Cred /\ Unrotated \in Cred /\ 1 \in Cred /\ Unrotated = 0
  BY UserOAuthAssumption DEF Cred, Unrotated
<1>4. Hands
  <2>1. \A c \in Cred : Knows(c) => c = stored
    BY <1>1, <1>2, <1>3 DEF Knows
  <2>2. \A c \in Cred : Knows(c) => ~Untouched(c)
    BY <1>1, <1>3, <2>1 DEF Untouched
  <2>3. \A c \in Cred : (\A p \in Proc : ~Bears(p, c)) /\ (\A t \in Callback : ~Grants(t, c))
    BY <1>1, <1>2 DEF Bears, Grants, Carrying, Granting
  <2> QED BY <2>2, <2>3 DEF Hands
<1>5. Tokens
  BY <1>1, <1>2, <1>3 DEF Tokens, Good
<1>6. Spent /\ Refused
  BY <1>1, <1>2 DEF Spent, Refused, Carrying
<1>7. Reach
  BY <1>1, <1>3 DEF Reach
<1>8. Orphans
  BY <1>1 DEF Orphans, Kept
<1> QED BY <1>4, <1>5, <1>6, <1>7, <1>8 DEF Sound

\* The invariant: types always, and what the credentials are worth until the first fault.
LEMMA Inductive == Init => IInv  BY TypesFirst, SoundFirst DEF IInv

\* Every step keeps the invariant.
LEMMA InductiveKept == IInv /\ [Next]_vars => IInv'
<1> SUFFICES ASSUME IInv, [Next]_vars  PROVE IInv'
  OBVIOUS
<1>1. Types'
  BY TypesKept DEF IInv
<1>2. CASE UNCHANGED vars
  <2>1. UNCHANGED <<stored, issued, access, refresh, call, flight, faults, abandoned, causes>>
    BY <1>2 DEF vars
  <2>2. Hands => Hands'
    BY <2>1, Zenon DEF Hands, Knows, Bears, Grants, Untouched
  <2>3. (Tokens => Tokens') /\ (Spent => Spent') /\ (Refused => Refused') /\ (Reach => Reach')
    BY <2>1, Zenon DEF Tokens, Good, Unspent, Spent, Refused, Reach
  <2>4. Orphans => Orphans'
    BY <2>1, Zenon DEF Orphans, Kept, Bears, Grants
  <2> QED BY <1>1, <2>1, <2>2, <2>3, <2>4 DEF IInv, Sound
<1>3. CASE Next
  <2>1. ASSUME faults' = 0  PROVE Sound'
    <3>1. Types /\ Sound /\ faults' = faults
      <4>1. Types /\ faults \in Nat /\ faults' \in {faults, faults + 1}
        BY <1>3, GhostMoves DEF IInv, Types
      <4>2. faults = 0
        BY <2>1, <4>1
      <4> QED BY <2>1, <4>1, <4>2 DEF IInv
    <3>2. Hands /\ Tokens' /\ Spent' /\ Refused' /\ Reach' /\ Orphans'
      BY <1>3, <3>1, TokensKept, SpentKept, RefusedKept, ReachKept, OrphansKept DEF Sound
    <3>3. Hands'
      BY <1>3, <3>1, <3>2, HandsKept
    <3> QED BY <3>2, <3>3 DEF Sound
  <2> QED BY <1>1, <2>1 DEF IInv
<1> QED BY <1>2, <1>3

\* Without lost answers and withdrawals the stored refresh token is good, or the refresh that
\* spent it still holds the successor and is about to store it: two processes that rotate
\* the same credential, and a callback that overwrites it, never strand the user.
THEOREM SuccessorStaysInReach == Spec => []SuccessorInReach
<1>1. IInv => SuccessorInReach
  BY DEF IInv, Sound, Reach, SuccessorInReach, Flying
<1> QED BY <1>1, Inductive, InductiveKept, PTL DEF Spec

\* Without faults every live refresh token Slack issued is stored, in the hands of the call or
\* the refresh it was issued to, or was left behind by one of two acts of the program: saving
\* a later grant over it, or erasing it when its access token expired in use (saveGrant,
\* invalidateAccessToken). The loser of a race revokes what it was given (dropRotated,
\* discardGrant).
THEOREM NothingIsOrphaned == Spec => []NoOrphans
<1>1. IInv => NoOrphans
  BY DEF IInv, Sound, Orphans, Kept, NoOrphans, Grants, Bears, Granting, Carrying, Flying
<1> QED BY <1>1, Inductive, InductiveKept, PTL DEF Spec

\* A stored credential is erased only after a fault, a withdrawal, a race of two rotations, or
\* an expiry between validation and use: revokeIfUnchanged compares what it erases.
THEOREM LossHasACause == Spec => LostOnlyForCause
<1>1. IInv /\ [Next]_vars => [stored # None /\ stored' = None => faults' > 0 \/ causes' # {}]_vars
  <2> SUFFICES ASSUME IInv, Next, stored # None, stored' = None, ~(faults' > 0)  PROVE causes' # {}
    OBVIOUS
  <2>1. Types /\ faults \in Nat /\ faults' \in {faults, faults + 1} /\ causes \subseteq causes'
    BY GhostMoves DEF IInv, Types
  <2>2. faults = 0
    BY <2>1
  <2>3. Sound /\ stored \in Cred
    BY <2>2 DEF IInv, Types, TokenTypes, Maybe
  <2> QED BY <2>1, <2>3, ErasedForCause
<1> QED BY <1>1, Inductive, InductiveKept, PTL DEF Spec, LostOnlyForCause
=============================================================================
