----------------------------- MODULE MentionProofs ------------------------------
(***************************************************************************)
(* Mention groups, for any deliveries, callbacks, rosters, commands and    *)
(* numbers of revisions, grants and faults: the catalog in use was Radar's *)
(* when it was last asked for, no call ends without a word, a message is   *)
(* not replaced twice, and a new grant survives the failure of an older.   *)
(***************************************************************************)
EXTENDS MentionReplacement, TLAPS

------------------------------------------------------------------------------
(* The catalog in use was current *)

\* Radar never returns to a revision, so a catalog it still has is told from those gone.
History ==
  /\ radar \in Catalog
  /\ \A c \in gone : c \in Catalog /\ c.rev < radar.rev

\* What was gone when a request was sent is gone for good, and no answer to it is among that.
Request ==
  /\ DOMAIN flight = {"pc", "answer", "gone"} /\ flight.pc \in {"idle", "sent", "heard"}
  /\ flight.gone \subseteq gone
  /\ flight.pc = "heard" => flight.answer \in (gone \cup {radar}) \ flight.gone

\* A catalog is at hand only if Radar has had it, and a request is under way only while
\* nothing at hand is fresh.
Cache ==
  /\ floor \subseteq gone
  /\ cached \in [cat : gone \cup {radar}, fresh : BOOLEAN] \cup {NoCache}
  /\ flight.pc # "idle" => ~Fresh

CatalogInv == History /\ Request /\ Cache /\ CatalogWasCurrent

\* The catalogs that were Radar's.
LEMMA Cached ==
  ASSUME History, Cache, cached # NoCache
  PROVE  /\ cached \in [cat : gone \cup {radar}, fresh : BOOLEAN]
         /\ cached.cat.rev = radar.rev => cached.cat = radar
BY MentionCatalogAssumption DEF History, Cache, Catalog

\* NoCache is no catalog.
LEMMA CachedIsNot ==
  ASSUME History, NEW k \in [cat : gone \cup {radar}, fresh : BOOLEAN]
  PROVE  k # NoCache
BY MentionCatalogAssumption DEF History

\* The revisions of Radar's catalog grow.
LEMMA BecomesKept ==
  ASSUME CatalogInv, NEW r \in Roster \cup {Absent, Empty}, Becomes(r),
         UNCHANGED <<cached, floor, flight>>
  PROVE  CatalogInv'
<1>1. History' /\ gone \cup {radar} \subseteq gone' \cup {radar'} /\ gone \subseteq gone'
  BY MentionCatalogAssumption DEF CatalogInv, History, Becomes, Catalog
<1>2. radar \in gone' /\ \A c \in flight.gone : c # radar'
  BY <1>1 DEF CatalogInv, Request, History, Becomes, Catalog
<1>3. Request'
  BY <1>1, <1>2 DEF CatalogInv, Request
<1>4. Cache'
  BY <1>1 DEF CatalogInv, Cache, Fresh
<1> QED BY <1>1, <1>3, <1>4 DEF CatalogInv, CatalogWasCurrent, Fresh

\* Radar's answer, its catalog or an older one, is taken or refused as a whole.
LEMMA FlightKept ==
  ASSUME CatalogInv, Answer \/ AnswerOld \/ Take \/ Refuse \/ Lapse \/ (~Fresh /\ Ask /\ UNCHANGED <<radar, gone, cached, floor>>)
  PROVE  CatalogInv'
<1>1. History'
  BY DEF CatalogInv, History, Answer, AnswerOld, Take, Refuse, Lapse
<1>2. CASE Answer
  <2>1. cached # NoCache /\ cached.cat.rev = radar.rev => cached.cat = radar
    BY Cached DEF CatalogInv
  <2>2. /\ DOMAIN flight' = DOMAIN flight /\ flight'.gone = flight.gone
        /\ flight'.pc = "heard" /\ flight'.answer = radar
    BY <1>2, <2>1 DEF Answer, CatalogInv, Request
  <2>3. radar \notin flight.gone
    BY DEF CatalogInv, History, Request, Catalog
  <2> QED BY <1>1, <1>2, <2>2, <2>3 DEF Answer, CatalogInv, Request, Cache, CatalogWasCurrent, Fresh
<1>3. CASE AnswerOld
  BY <1>1, <1>3 DEF AnswerOld, CatalogInv, Request, Cache, CatalogWasCurrent, Fresh
<1>4. CASE Take
  <2>1. cached' \in [cat : gone \cup {radar}, fresh : BOOLEAN] /\ cached'.cat \notin floor'
    BY <1>4 DEF Take, CatalogInv, Request
  <2> QED BY <1>1, <1>4, <2>1 DEF Take, CatalogInv, Request, Cache, CatalogWasCurrent, Fresh, Idle
<1>5. CASE Refuse
  BY <1>1, <1>5 DEF Refuse, CatalogInv, Request, Cache, CatalogWasCurrent, Fresh, Idle
<1>6. CASE Lapse
  <2>1. cached' \in [cat : gone \cup {radar}, fresh : BOOLEAN] /\ cached'.fresh = FALSE
    BY <1>6, Cached DEF Lapse, CatalogInv, Fresh
  <2> QED BY <1>1, <1>6, <2>1 DEF Lapse, CatalogInv, Request, Cache, CatalogWasCurrent, Fresh
<1>7. CASE ~Fresh /\ Ask /\ UNCHANGED <<radar, gone, cached, floor>>
  BY <1>1, <1>7 DEF Ask, CatalogInv, Request, Cache, CatalogWasCurrent, Fresh, Idle
<1> QED BY <1>2, <1>3, <1>4, <1>5, <1>6, <1>7

\* Every action keeps the catalog, its cache and the request for it in order.
LEMMA CatalogKept ==
  ASSUME CatalogInv, [Next]_vars
  PROVE  CatalogInv'
<1>1. CASE UNCHANGED catalogVars
  BY <1>1 DEF catalogVars, CatalogInv, History, Request, Cache, CatalogWasCurrent, Fresh
<1>2. ASSUME NEW t \in Call, GetCatalog(t)  PROVE CatalogInv'
  BY <1>1, <1>2, FlightKept DEF GetCatalog, catalogVars
<1>3. CASE CatalogTaken \/ CatalogRefused
  BY <1>3, FlightKept DEF CatalogTaken, CatalogRefused
<1>4. CASE Radar
  <2>1. CASE Edit
    BY <2>1, BecomesKept DEF Edit
  <2>2. ASSUME NEW k \in Command, Invoke(k)  PROVE CatalogInv'
    BY <2>2 DEF Invoke, CatalogInv, History, Request, Cache, CatalogWasCurrent, Fresh
  <2>3. ASSUME NEW k \in Command, Carry(k)  PROVE CatalogInv'
    <3>1. CASE UNCHANGED <<radar, gone>>
      BY <2>3, <3>1 DEF Carry, CatalogInv, History, Request, Cache, CatalogWasCurrent, Fresh
    <3>2. CASE \E r \in Roster \cup {Absent} : Becomes(r)
      BY <2>3, <3>2, BecomesKept DEF Carry
    <3> QED BY <2>3, <3>1, <3>2 DEF Carry, Carried
  <2> QED BY <1>4, <2>1, <2>2, <2>3, FlightKept DEF Radar
<1>5. CASE Crash
  BY <1>5 DEF Crash, ForgetCatalog, CatalogInv, History, Request, Cache, CatalogWasCurrent, Fresh, Idle
<1>6. \/ UNCHANGED catalogVars \/ CatalogTaken \/ CatalogRefused \/ Radar \/ Crash
      \/ \E t \in Call : GetCatalog(t)
  BY DEF Next, vars, Deliver, Follow, Load, Step, GetToken, Update, UpdateRefused, TokenRefused,
               Invalidate, AskAuthorization, OfferOrRetry, Author, Withdraw, ForgetKey
<1> QED BY <1>1, <1>2, <1>3, <1>4, <1>5, <1>6

\* A catalog that is served fresh had not been replaced when the request that validated it
\* was sent: mentionable members are never older than the cache's TTL says.
THEOREM CatalogIsCurrent == Spec => []CatalogWasCurrent
<1>1. Init => CatalogInv
  <2> SUFFICES ASSUME Init  PROVE CatalogInv
    OBVIOUS
  <2>1. radar \in Catalog /\ gone = {} /\ floor = {} /\ flight = Idle
        /\ (cached = NoCache \/ cached = [cat |-> radar, fresh |-> FALSE])
    BY MentionCatalogAssumption DEF Init, InitCalls, CatalogInit, Catalog
  <2>2. ~Fresh /\ cached \in [cat : gone \cup {radar}, fresh : BOOLEAN] \cup {NoCache}
    <3>1. CASE cached = NoCache
      BY <3>1 DEF Fresh
    <3>2. CASE cached = [cat |-> radar, fresh |-> FALSE]
      <4>1. cached \in [cat : gone \cup {radar}, fresh : BOOLEAN]
        BY <3>2
      <4>2. ~cached.fresh
        BY <3>2
      <4> QED BY <4>1, <4>2 DEF Fresh
    <3> QED BY <2>1, <3>1, <3>2
  <2> QED BY <2>1, <2>2 DEF CatalogInv, History, Request, Cache, CatalogWasCurrent, Idle
<1>2. CatalogInv /\ [Next]_vars => CatalogInv'
  BY CatalogKept
<1>3. CatalogInv => CatalogWasCurrent
  BY DEF CatalogInv
<1> QED BY <1>1, <1>2, <1>3, PTL DEF Spec

------------------------------------------------------------------------------
(* The calls and the credential *)

\* Where a call goes by a token it was given.
Trying == {"update", "retry", "invalidate", "invalidateAgain", "offer", "again"}
Pc == {"new", "load", "catalog", "waits", "token", "ask", "done", "ignored"} \cup Trying

\* Credentials are numbered as they are granted; only the last one can be stored.
Credentials ==
  /\ grants \in Nat /\ links \in Nat
  /\ stored \in {NoToken, grants} /\ valid \subseteq 1 .. grants
Calls == call \in [Call -> [pc : Pc, token : Nat, granted : 0 .. grants, saw : {"orig", "edited", "new", "gone"}]]

\* A call goes by the credential that was the last when it asked, and asks for a new one
\* only where none is stored or the author has just granted it.
Errands ==
  \A t \in Call :
    /\ call[t].pc \in Trying => call[t].token = call[t].granted
    /\ call[t].pc = "ask" => Required \/ grants > call[t].granted

CallInv == Credentials /\ Calls /\ text \in {"orig", "edited", "new", "gone"} /\ Errands /\ NeverSilent

\* A call that ends in silence has no other excuse than a grant it did not know of.
Sound(t) ==
  /\ call'[t].pc \in Trying => call'[t].token = call'[t].granted
  /\ call'[t].pc = "ask" => Required' \/ grants' > call'[t].granted
  /\ call'[t].pc = "done" => t \in told' \/ t \in applied' \/ grants' > call'[t].granted

\* What happens to the credential does not spoil a call that is not concerned.
LEMMA OthersKept ==
  ASSUME CallInv, Credentials', NEW S \in SUBSET Call,
         \A t \in Call \ S : call'[t] = call[t], \A t \in S : Sound(t),
         \/ UNCHANGED <<stored, valid, grants>>
         \/ stored' = NoToken /\ grants' = grants
         \/ stored' = stored /\ valid' \subseteq valid /\ grants' = grants
         \/ grants' = grants + 1,
         told \subseteq told', applied \subseteq applied'
  PROVE  Errands' /\ NeverSilent'
<1>1. \A t \in Call : call[t].granted \in 0 .. grants
  BY DEF CallInv, Calls
<1>2. grants \in Nat /\ grants' \in Nat /\ grants' >= grants /\ (Required /\ grants' = grants => Required')
  BY DEF CallInv, Credentials, Required, NoToken
<1>3. ASSUME NEW t \in Call \ S  PROVE Sound(t)
  BY <1>1, <1>2, <1>3 DEF Sound, CallInv, Errands, NeverSilent, IsAt
<1>4. \A t \in Call : Sound(t)
  BY <1>3
<1> QED BY <1>4 DEF Sound, Errands, NeverSilent, IsAt

\* The credential's number is that of the last grant, or none.
LEMMA CredentialsKept ==
  ASSUME CallInv, [Next]_vars
  PROVE  Credentials'
<1> USE DEF oauth
<1>1. CASE UNCHANGED oauth
  BY <1>1 DEF CallInv, Credentials
<1>2. ASSUME NEW r \in Resume, Follow(r)  PROVE Credentials'
  BY <1>2 DEF Follow, CallInv, Credentials
<1>3. ASSUME NEW t \in Call, GetToken(t) \/ Invalidate(t) \/ AskAuthorization(t) \/ OfferOrRetry(t)
      PROVE  Credentials'
  <2>1. \/ UNCHANGED oauth
        \/ /\ stored' \in {stored, NoToken} /\ valid' \subseteq valid /\ grants' = grants
           /\ links' \in {links, links + 1}
    BY <1>3 DEF GetToken, Erase, Invalidate, Invalidated, AskAuthorization, OfferOrRetry, Offer
  <2>2. CASE stored' \in {stored, NoToken} /\ valid' \subseteq valid /\ grants' = grants
             /\ links' \in {links, links + 1}
    BY <2>2 DEF CallInv, Credentials
  <2> QED BY <1>1, <2>1, <2>2
<1>4. CASE Withdraw
  BY <1>4 DEF Withdraw, CallInv, Credentials
<1>5. \/ UNCHANGED oauth \/ Withdraw \/ \E r \in Resume : Follow(r)
      \/ \E t \in Call : GetToken(t) \/ Invalidate(t) \/ AskAuthorization(t) \/ OfferOrRetry(t)
  BY Zenon DEF Next, vars, Deliver, Load, Step, GetCatalog, Update, UpdateRefused, TokenRefused,
               CatalogTaken, CatalogRefused, Radar, Author, ForgetKey, Crash
<1> QED BY <1>1, <1>2, <1>3, <1>4, <1>5

\* A step that moves one call keeps the invariant if what becomes of the call is sound.
LEMMA OneMoves ==
  ASSUME CallInv, Credentials', NEW t \in Call, grants' >= grants,
         \/ UNCHANGED <<stored, valid, grants>>
         \/ stored' = NoToken /\ grants' = grants
         \/ stored' = stored /\ valid' \subseteq valid /\ grants' = grants
         \/ grants' = grants + 1,
         told \subseteq told', applied \subseteq applied',
         text' \in {"orig", "edited", "new", "gone"},
         NEW k, k \in [pc : Pc, token : Nat, granted : 0 .. grants', saw : {"orig", "edited", "new", "gone"}],
         call' = [call EXCEPT ![t] = k],
         k.pc \in Trying => k.token = k.granted,
         k.pc = "ask" => Required' \/ grants' > k.granted,
         k.pc = "done" => t \in told' \/ t \in applied' \/ grants' > k.granted
  PROVE  CallInv'
<1>1. grants \in Nat /\ grants' \in Nat
  BY DEF CallInv, Credentials
<1>2. \A u \in Call : call[u] \in [pc : Pc, token : Nat, granted : 0 .. grants', saw : {"orig", "edited", "new", "gone"}]
  BY <1>1 DEF CallInv, Calls
<1>3. Calls'
  BY <1>2 DEF CallInv, Calls
<1>4. call'[t] = k /\ \A u \in Call \ {t} : call'[u] = call[u]
  BY DEF CallInv, Calls
<1>5. Sound(t)
  BY <1>4 DEF Sound
<1>6. Errands' /\ NeverSilent'
  <2>1. \A u \in {t} : Sound(u)
    BY <1>5
  <2>2. {t} \in SUBSET Call
    OBVIOUS
  <2> QED BY <1>4, <2>1, <2>2, OthersKept
<1> QED BY <1>3, <1>6 DEF CallInv

\* What is known of a call.
LEMMA CallIs ==
  ASSUME CallInv, NEW t \in Call
  PROVE  /\ call[t] \in [pc : Pc, token : Nat, granted : 0 .. grants, saw : {"orig", "edited", "new", "gone"}]
         /\ call[t].pc \in Trying => call[t].token = call[t].granted
         /\ call[t].pc = "ask" => Required \/ grants > call[t].granted
         /\ grants \in Nat /\ stored \in {NoToken, grants} /\ NoToken \notin valid
BY DEF CallInv, Calls, Credentials, Errands, NoToken

\* A call goes on with the token it has, or without any, while no credential is granted.
LEMMA GoesOn ==
  ASSUME CallInv, Credentials', NEW t \in Call, grants' = grants,
         \/ UNCHANGED <<stored, valid>>
         \/ stored' = NoToken
         \/ stored' = stored /\ valid' \subseteq valid,
         told \subseteq told', applied \subseteq applied',
         text' \in {"orig", "edited", "new", "gone"},
         NEW pc \in Pc,
         \/ call' = [call EXCEPT ![t].pc = pc]
         \/ call' = [call EXCEPT ![t].pc = pc, ![t].saw = text],
         pc \in Trying => call[t].pc \in Trying,
         pc = "ask" => Required' \/ grants' > call[t].granted,
         pc = "done" => t \in told' \cup applied' \/ grants' > call[t].granted
  PROVE  CallInv'
<1> DEFINE K == [pc : Pc, token : Nat, granted : 0 .. grants, saw : {"orig", "edited", "new", "gone"}]
<1>1. call[t] \in K /\ (call[t].pc \in Trying => call[t].token = call[t].granted)
  BY CallIs
<1>2. text \in {"orig", "edited", "new", "gone"} /\ grants \in Nat
  BY CallIs DEF CallInv
<1>3. PICK k \in {[call[t] EXCEPT !.pc = pc], [call[t] EXCEPT !.pc = pc, !.saw = text]} :
        call' = [call EXCEPT ![t] = k]
  OBVIOUS
<1>4. k \in K /\ k.token = call[t].token /\ k.granted = call[t].granted /\ k.pc = pc
  BY <1>1, <1>2, <1>3
<1> HIDE DEF K
<1>5. k.pc \in Trying => k.token = k.granted
  BY <1>1, <1>4
<1>6. k.pc = "ask" => Required' \/ grants' > k.granted
  BY <1>4
<1>7. /\ grants' >= grants
      /\ k \in [pc : Pc, token : Nat, granted : 0 .. grants', saw : {"orig", "edited", "new", "gone"}]
  BY <1>2, <1>4 DEF K
<1>8. k.pc = "done" => t \in told' \/ t \in applied' \/ grants' > k.granted
  BY <1>4
<1> QED BY <1>2, <1>3, <1>5, <1>6, <1>7, <1>8, OneMoves

\* Steps that leave the credential alone: the event and the message, the catalog, and
\* what Slack makes of an update.
LEMMA RequestsKept ==
  ASSUME CallInv, NEW t \in Call,
         \/ GetCatalog(t) \/ Update(t) \/ UpdateRefused(t) \/ TokenRefused(t)
         \/ (t \in Delivery /\ Deliver(t)) \/ (t \in Resume /\ Load(t))
  PROVE  CallInv'
<1> DEFINE Goal(pc) ==
      /\ UNCHANGED oauth /\ told \subseteq told' /\ applied \subseteq applied'
      /\ text' \in {"orig", "edited", "new", "gone"}
      /\ \/ call' = [call EXCEPT ![t].pc = pc]
         \/ call' = [call EXCEPT ![t].pc = pc, ![t].saw = text]
      /\ pc \in Trying => call[t].pc \in Trying
      /\ pc = "done" => t \in told' \cup applied'
<1>1. \A pc \in Pc \ {"ask"} : Goal(pc) => CallInv'
  BY GoesOn DEF oauth, CallInv, Credentials
<1> HIDE DEF Goal
<1>2. text \in {"orig", "edited", "new", "gone"}
  BY DEF CallInv
<1>3. \E pc \in Pc \ {"ask"} : Goal(pc)
  <2> USE DEF Goes, IsAt, TellsAndEnds, Tells, Trying, Goal
  <2>1. CASE GetCatalog(t)
    <3>1. Goal("token") \/ Goal("done") \/ Goal("waits")
      BY <1>2, <2>1 DEF GetCatalog, Planned
    <3> QED BY <3>1 DEF Pc
  <2>2. CASE Update(t) \/ UpdateRefused(t)
    <3>1. Goal("done")
      BY <1>2, <2>2 DEF Update, UpdateRefused
    <3> QED BY <3>1 DEF Pc
  <2>3. CASE TokenRefused(t)
    <3>1. Goal("invalidate") \/ Goal("invalidateAgain")
      BY <1>2, <2>3 DEF TokenRefused
    <3> QED BY <3>1 DEF Pc
  <2>4. CASE Deliver(t) \/ Load(t)
    <3>1. Goal("catalog") \/ Goal("ignored") \/ Goal("done")
      BY <1>2, <2>4 DEF Deliver, Load
    <3> QED BY <3>1 DEF Pc
  <2> QED BY <2>1, <2>2, <2>3, <2>4
<1> QED BY <1>1, <1>3

\* Asking for the token: the call goes by what is stored, or by nothing.
LEMMA GetTokenKept ==
  ASSUME CallInv, Credentials', NEW t \in Call, GetToken(t)
  PROVE  CallInv'
<1> DEFINE K == [pc : Pc, token : Nat, granted : 0 .. grants, saw : {"orig", "edited", "new", "gone"}]
<1> DEFINE go(pc, k) == [call[t] EXCEPT !.pc = pc, !.token = k, !.granted = grants]
<1>1. /\ call[t] \in K /\ text \in {"orig", "edited", "new", "gone"}
      /\ grants \in Nat /\ stored \in {NoToken, grants} /\ NoToken \notin valid
  BY CallIs DEF CallInv
<1>2. /\ UNCHANGED <<text, applied>> /\ told \subseteq told' /\ grants' = grants
  BY DEF GetToken, TellsAndEnds, Tells, Erase, oauth
<1>3. ASSUME NEW pc \in Pc, NEW k \in {NoToken, grants}
      PROVE  /\ go(pc, k) \in K
             /\ go(pc, k).pc = pc /\ go(pc, k).token = k /\ go(pc, k).granted = grants
  <2>1. k \in Nat /\ grants \in 0 .. grants
    BY <1>1 DEF NoToken
  <2>2. \A r \in K : /\ [r EXCEPT !.pc = pc] \in K /\ [r EXCEPT !.token = k] \in K
                    /\ [r EXCEPT !.granted = grants] \in K
    BY <2>1
  <2>3. \A r \in K : /\ [r EXCEPT !.pc = pc].pc = pc
                    /\ [r EXCEPT !.token = k].token = k /\ [r EXCEPT !.token = k].pc = r.pc
                    /\ [r EXCEPT !.granted = grants].granted = grants
                    /\ [r EXCEPT !.granted = grants].pc = r.pc
                    /\ [r EXCEPT !.granted = grants].token = r.token
    OBVIOUS
  <2> HIDE DEF K
  <2>4. go(pc, k) = [[[call[t] EXCEPT !.pc = pc] EXCEPT !.token = k] EXCEPT !.granted = grants]
    OBVIOUS
  <2> DEFINE q == [call[t] EXCEPT !.pc = pc]  r == [q EXCEPT !.token = k]
  <2>5. q \in K /\ r \in K /\ q.pc = pc /\ r.pc = pc /\ r.token = k
    BY <1>1, <2>2, <2>3
  <2>6. go(pc, k) = [r EXCEPT !.granted = grants]
    BY <2>4
  <2> HIDE DEF q, r, go
  <2> QED BY <2>2, <2>3, <2>5, <2>6
<1>0. K = [pc : Pc, token : Nat, granted : 0 .. grants', saw : {"orig", "edited", "new", "gone"}]
      /\ grants' >= grants
  BY <1>1, <1>2
<1>4. CASE Required /\ Erase /\ call' = [call EXCEPT ![t] = go("ask", NoToken)]
  <2>1. Required' /\ stored' = NoToken /\ "ask" \in Pc /\ "ask" \notin Trying
    BY <1>1, <1>4 DEF Required, Erase, Pc, Trying
  <2>2. PICK k \in K : /\ call' = [call EXCEPT ![t] = k] /\ k.pc = "ask"
    BY <1>3, <1>4, <2>1
  <2> QED BY <1>0, <1>1, <1>2, <2>1, <2>2, OneMoves
<1>5. CASE ~Required /\ UNCHANGED oauth
           /\ \E pc \in {"update", "retry"} : call' = [call EXCEPT ![t] = go(pc, stored)]
  <2>1. stored = grants /\ stored' = stored /\ valid' = valid
    BY <1>1, <1>5 DEF Required, oauth
  <2>2. PICK pc \in {"update", "retry"} : call' = [call EXCEPT ![t] = go(pc, stored)]
    BY <1>5
  <2>3. pc \in Pc /\ pc # "ask" /\ pc # "done"
    BY DEF Pc, Trying
  <2>4. PICK k \in K : /\ call' = [call EXCEPT ![t] = k] /\ k.pc = pc
                       /\ k.token = k.granted
    BY <1>3, <2>1, <2>2, <2>3
  <2> QED BY <1>0, <1>1, <1>2, <2>1, <2>3, <2>4, OneMoves
<1>6. CASE UNCHANGED oauth /\ TellsAndEnds(t)
  <2>1. "done" \in Pc /\ "done" \notin Trying /\ t \in told' /\ call' = [call EXCEPT ![t].pc = "done"]
    BY <1>6 DEF TellsAndEnds, Tells, Goes, Pc, Trying
  <2> QED BY <1>1, <1>2, <1>6, <2>1, GoesOn DEF oauth
<1> QED BY <1>4, <1>5, <1>6 DEF GetToken, IsAt

\* Giving up a token that was refused, and asking the author for another.
LEMMA AsksKept ==
  ASSUME CallInv, Credentials', NEW t \in Call, Invalidate(t) \/ AskAuthorization(t) \/ OfferOrRetry(t)
  PROVE  CallInv'
<1> DEFINE Goal(pc) ==
      /\ stored' = NoToken \/ UNCHANGED <<stored, valid>>
      /\ call' = [call EXCEPT ![t].pc = pc]
      /\ pc \in Trying => call[t].pc \in Trying
      /\ pc = "ask" => Required' \/ grants' > call[t].granted
      /\ pc = "done" => t \in told' \cup applied' \/ grants' > call[t].granted
<1>1. /\ call[t].pc \in Trying => call[t].token = call[t].granted
      /\ call[t].pc = "ask" => Required \/ grants > call[t].granted
      /\ grants \in Nat /\ stored \in {NoToken, grants} /\ NoToken \notin valid
      /\ call[t].granted \in 0 .. grants
      /\ text \in {"orig", "edited", "new", "gone"}
  BY CallIs DEF CallInv
<1>2. /\ UNCHANGED <<text, applied, grants>> /\ told \subseteq told'
  BY DEF Invalidate, AskAuthorization, OfferOrRetry, Offer, TellsAndEnds, Tells, oauth
<1>3. \A pc \in Pc : Goal(pc) => CallInv'
  BY <1>1, <1>2, GoesOn
<1> HIDE DEF Goal
<1>4. \E pc \in Pc : Goal(pc)
  <2> USE DEF Goes, IsAt, TellsAndEnds, Tells, Trying, oauth
  <2>1. CASE Invalidate(t)
    <3>1. CASE Invalidated(call[t].token) /\ (Goes(t, "offer") \/ Goes(t, "ask"))
      <4>1. call[t].pc \in Trying
        BY <2>1 DEF Invalidate
      <4>2. Required' \/ grants' > call[t].granted
        BY <1>1, <1>2, <3>1, <4>1 DEF Invalidated, Required
      <4>3. stored' = NoToken \/ UNCHANGED <<stored, valid>>
        BY <3>1 DEF Invalidated
      <4>4. Goal("offer") \/ Goal("ask")
        BY <3>1, <4>1, <4>2, <4>3 DEF Goal
      <4> QED BY <4>4 DEF Pc
    <3>2. CASE UNCHANGED oauth
               /\ IF IsAt(t, "invalidate") THEN Goes(t, "offer") /\ UNCHANGED told ELSE TellsAndEnds(t)
      <4>1. Goal("offer") \/ Goal("done")
        BY <2>1, <3>2 DEF Invalidate, Goal
      <4> QED BY <4>1 DEF Pc
    <3> QED BY <2>1, <3>1, <3>2 DEF Invalidate
  <2>2. CASE AskAuthorization(t)
    <3>1. Goal("done")
      BY <1>1, <1>2, <2>2 DEF AskAuthorization, Offer, Goal
    <3> QED BY <3>1 DEF Pc
  <2>3. CASE OfferOrRetry(t)
    <3>1. Goal("done") \/ Goal("again")
      BY <1>1, <1>2, <2>3 DEF OfferOrRetry, Offer, Goal
    <3> QED BY <3>1 DEF Pc
  <2> QED BY <2>1, <2>2, <2>3
<1> QED BY <1>3, <1>4

\* The catalog reaches everyone who waits for it, or fails all of them; a link is followed;
\* the process dies; the author edits, deletes or withdraws.
LEMMA ManyKept ==
  ASSUME CallInv, Credentials',
         \/ CatalogTaken \/ CatalogRefused \/ Radar \/ Author \/ Withdraw \/ ForgetKey \/ Crash
         \/ UNCHANGED vars \/ \E r \in Resume : Follow(r)
  PROVE  CallInv'
<1>1. ASSUME UNCHANGED oauth, UNCHANGED text, told \subseteq told', applied \subseteq applied',
             NEW S \in SUBSET Call, NEW pc \in {"token", "done", "ignored"},
             call' = [t \in Call |-> IF t \in S THEN [call[t] EXCEPT !.pc = pc] ELSE call[t]],
             pc = "done" => S \subseteq told'
      PROVE  CallInv'
  <2>1. /\ \A t \in S : call'[t] = [call[t] EXCEPT !.pc = pc]
        /\ \A t \in Call \ S : call'[t] = call[t]
    BY <1>1
  <2>2. \A t \in S : call'[t].pc = pc
    BY <2>1, CallIs
  <2>3. \A t \in S : Sound(t)
    BY <1>1, <2>2 DEF Sound, Trying
  <2>4. Calls'
    BY <1>1 DEF CallInv, Calls, oauth, Pc
  <2>5. Errands' /\ NeverSilent'
    BY <1>1, <2>1, <2>3, OthersKept DEF oauth
  <2> QED BY <1>1, <2>4, <2>5 DEF CallInv
<1>2. CASE CatalogTaken \/ CatalogRefused
  <2>1. /\ UNCHANGED oauth /\ UNCHANGED text /\ UNCHANGED applied /\ told \subseteq told'
        /\ Waiting \in SUBSET Call
    BY <1>2 DEF CatalogTaken, CatalogRefused, Waiting
  <2>2. \/ call' = [t \in Call |-> IF t \in Waiting THEN [call[t] EXCEPT !.pc = "token"] ELSE call[t]]
        \/ /\ call' = [t \in Call |-> IF t \in Waiting THEN [call[t] EXCEPT !.pc = "done"] ELSE call[t]]
           /\ Waiting \subseteq told'
    BY <1>2 DEF CatalogTaken, CatalogRefused
  <2> QED BY <1>1, <2>1, <2>2
<1>3. CASE Crash
  <2> DEFINE S == {t \in Call : call[t].pc \notin {"new", "done", "ignored"}}
  <2>1. call' = [t \in Call |-> IF t \in S THEN [call[t] EXCEPT !.pc = "ignored"] ELSE call[t]]
    BY <1>3 DEF Crash
  <2>2. S \in SUBSET Call /\ UNCHANGED oauth /\ UNCHANGED text /\ told' = told /\ applied' = applied
    BY <1>3 DEF Crash, oauth
  <2> HIDE DEF S
  <2> QED BY <1>1, <2>1, <2>2
<1>4. CASE Radar \/ Author \/ ForgetKey \/ UNCHANGED vars
  <2>1. /\ UNCHANGED <<oauth, call, told, applied>> /\ text' \in {"orig", "edited", "new", "gone"}
    BY <1>4 DEF Radar, Author, ForgetKey, vars, oauth, CallInv
  <2> QED BY <2>1 DEF CallInv, Calls, Errands, NeverSilent, IsAt, Required, oauth
<1>5. CASE Withdraw
  <2>1. /\ UNCHANGED <<stored, grants, call, told, applied, text>> /\ valid' \subseteq valid
    BY <1>5 DEF Withdraw
  <2>2. {} \in SUBSET Call /\ \A t \in {} : Sound(t)
    OBVIOUS
  <2>3. Errands' /\ NeverSilent'
    BY <2>1, <2>2, OthersKept
  <2> QED BY <2>1, <2>3 DEF CallInv, Calls
<1>6. ASSUME NEW r \in Resume, Follow(r)  PROVE CallInv'
  <2>1. /\ r \in Call /\ grants' = grants + 1 /\ UNCHANGED <<text, told, applied>>
        /\ call' = [call EXCEPT ![r] = [call[r] EXCEPT !.pc = "load"]]
    BY <1>6 DEF Follow, Goes, Call
  <2>2. /\ call[r] \in [pc : Pc, token : Nat, granted : 0 .. grants, saw : {"orig", "edited", "new", "gone"}]
        /\ grants \in Nat /\ text \in {"orig", "edited", "new", "gone"}
    BY <2>1, CallIs DEF CallInv
  <2>3. /\ [call[r] EXCEPT !.pc = "load"] \in
             [pc : Pc, token : Nat, granted : 0 .. grants', saw : {"orig", "edited", "new", "gone"}]
        /\ [call[r] EXCEPT !.pc = "load"].pc = "load" /\ "load" \notin Trying
        /\ grants' >= grants
    BY <2>1, <2>2 DEF Pc, Trying
  <2> QED BY <2>1, <2>2, <2>3, OneMoves
<1> QED BY <1>2, <1>3, <1>4, <1>5, <1>6

\* Every action keeps the invariant of calls and credential.
LEMMA CallKept == CallInv /\ [Next]_vars => CallInv'
<1> SUFFICES ASSUME CallInv, [Next]_vars  PROVE CallInv'
  OBVIOUS
<1>1. Credentials'
  BY CredentialsKept
<1>2. ASSUME NEW d \in Delivery, Deliver(d)  PROVE CallInv'
  BY <1>2, RequestsKept DEF Call
<1>3. ASSUME NEW r \in Resume, Load(r)  PROVE CallInv'
  BY <1>3, RequestsKept DEF Call
<1>4. ASSUME NEW t \in Call, Step(t)  PROVE CallInv'
  BY <1>1, <1>4, RequestsKept, GetTokenKept, AsksKept DEF Step
<1> QED BY <1>1, <1>2, <1>3, <1>4, ManyKept DEF Next

\* The first calls have no token and have asked for none.
LEMMA CallFirst == Init => CallInv
<1> SUFFICES ASSUME Init  PROVE CallInv
  OBVIOUS
<1>1. /\ call = [t \in Call |-> First] /\ text = "orig" /\ links = 0
      /\ grants \in {0, 1} /\ stored = grants /\ valid = {grants} \ {NoToken}
  BY DEF Init, InitCalls
<1>2. Credentials
  BY <1>1 DEF Credentials, NoToken
<1>3. First \in [pc : Pc, token : Nat, granted : 0 .. grants, saw : {"orig", "edited", "new", "gone"}]
      /\ First.pc = "new"
  BY <1>1 DEF First, Pc, NoToken
<1>4. Calls /\ \A t \in Call : call[t].pc = "new"
  BY <1>1, <1>3 DEF Calls
<1> QED BY <1>1, <1>2, <1>4 DEF CallInv, Errands, NeverSilent, IsAt, Trying

\* The invariant of calls and credential holds throughout.
LEMMA CallInvariant == Spec => []CallInv
BY CallFirst, CallKept, PTL DEF Spec

\* No call ends without an update, a word to the author or a link, unless the author
\* granted a credential while the call was about to ask for one.
THEOREM NobodyIsLeft == Spec => []NeverSilent
<1>1. CallInv => NeverSilent
  BY DEF CallInv
<1> QED BY <1>1, CallInvariant, PTL

------------------------------------------------------------------------------
(* The message and the grant *)

\* Nothing has happened to the message before an event of it was taken up, which the
\* deduper remembers until it forgets; a delivery finds the message replaced, and a
\* resumption goes on with anything but the original, only then.
Once ==
  /\ Message \notin seen /\ ~forgot =>
       links = 0 /\ text # "new" /\ \A t \in Call : call[t].pc \in {"new", "ignored"}
  /\ \A d \in Delivery : call[d].saw = "new" => forgot
  /\ \A r \in Resume : call[r].saw = "orig" \/ call[r].pc = "ignored"

\* A step of a call that has begun leaves the other calls and the deduper alone.
LEMMA StepIs ==
  ASSUME CallInv, NEW t \in Call, Step(t)
  PROVE  /\ UNCHANGED <<seen, forgot>> /\ call[t].pc \notin {"new", "ignored"}
         /\ \A u \in Call : call'[u].saw = call[u].saw /\ (call[u].pc = "ignored" => call'[u].pc = "ignored")
<1> USE DEF Goes, IsAt, TellsAndEnds, Tells
<1>1. /\ UNCHANGED <<seen, forgot>> /\ call[t].pc \notin {"new", "ignored"}
      /\ \E k : call' = [call EXCEPT ![t] = k]
  BY DEF Step, GetCatalog, Planned, GetToken, Update, UpdateRefused, TokenRefused, Invalidate,
         AskAuthorization, OfferOrRetry, Offer
<1>2. call[t] \in [pc : Pc, token : Nat, granted : 0 .. grants, saw : {"orig", "edited", "new", "gone"}]
  BY CallIs
<1>3. call'[t].saw = call[t].saw
  <2>1. CASE GetToken(t)
    BY <1>2, <2>1 DEF GetToken, CallInv, Calls
  <2>2. CASE GetCatalog(t)
    BY <1>2, <2>2 DEF GetCatalog, Planned, CallInv, Calls
  <2>3. CASE Update(t) \/ UpdateRefused(t) \/ TokenRefused(t)
    BY <1>2, <2>3 DEF Update, UpdateRefused, TokenRefused, CallInv, Calls
  <2>4. CASE Invalidate(t) \/ AskAuthorization(t) \/ OfferOrRetry(t)
    BY <1>2, <2>4 DEF Invalidate, AskAuthorization, OfferOrRetry, Offer, CallInv, Calls
  <2> QED BY <2>1, <2>2, <2>3, <2>4 DEF Step
<1>4. \A u \in Call \ {t} : call'[u] = call[u]
  BY <1>1 DEF CallInv, Calls
<1> QED BY <1>1, <1>3, <1>4

\* A step that begins no call and gives the deduper nothing to forget keeps it.
LEMMA OnceStays ==
  ASSUME Once, forgot => forgot',
         \A u \in Call : call'[u].saw = call[u].saw /\ (call[u].pc = "ignored" => call'[u].pc = "ignored"),
         \/ forgot'
         \/ Message \in seen /\ seen' = seen
         \/ /\ UNCHANGED <<seen, links>> /\ text' # "new"
            /\ \A u \in Call : call'[u].pc \in {"new", "ignored"} \/ call'[u].pc = call[u].pc
  PROVE  Once'
<1>1. Delivery \subseteq Call /\ Resume \subseteq Call
  BY DEF Call
<1> QED BY <1>1 DEF Once

\* Every action keeps what the deduper promises.
LEMMA OnceKept ==
  ASSUME CallInv, Once, [Next]_vars
  PROVE  Once'
<1> USE DEF Goes, IsAt, oauth
<1>0. \A u \in Call : call[u] \in [pc : Pc, token : Nat, granted : 0 .. grants, saw : {"orig", "edited", "new", "gone"}]
  BY CallIs
<1>1. ASSUME NEW t \in Call, Step(t)  PROVE Once'
  <2>1. forgot \/ Message \in seen
    BY <1>1, StepIs DEF Once
  <2> QED BY <1>1, <2>1, StepIs, OnceStays
<1>2. ASSUME NEW d \in Delivery, Deliver(d)  PROVE Once'
  <2>1. d \in Call /\ d \notin Resume /\ UNCHANGED <<links, text, forgot>>
    BY <1>2, MentionReplacementAssumption DEF Deliver, Call
  <2>2. CASE Claim(d) /\ call' = [call EXCEPT ![d].pc = "catalog", ![d].saw = text]
    <3>1. Message \in seen' /\ (text = "new" => forgot)
      BY <2>2 DEF Claim, Once
    <3>2. call'[d].saw = text /\ \A u \in Call \ {d} : call'[u] = call[u]
      BY <1>0, <2>1, <2>2 DEF CallInv, Calls
    <3> QED BY <2>1, <3>1, <3>2 DEF Once, Call
  <2>3. CASE UNCHANGED seen /\ Goes(d, "ignored")
    <3>1. \A u \in Call : call'[u].saw = call[u].saw /\ (call[u].pc = "ignored" => call'[u].pc = "ignored")
            /\ (call'[u].pc = "ignored" \/ call'[u].pc = call[u].pc)
      BY <1>0, <2>1, <2>3 DEF CallInv, Calls
    <3> QED BY <2>1, <2>3, <3>1 DEF Once, Call
  <2> QED BY <1>2, <2>2, <2>3 DEF Deliver
<1>3. ASSUME NEW r \in Resume, Load(r)  PROVE Once'
  <2>1. r \in Call /\ r \notin Delivery /\ UNCHANGED <<links, text, forgot, seen>> /\ call[r].pc = "load"
    BY <1>3, MentionReplacementAssumption DEF Load, Call
  <2>2. forgot \/ Message \in seen
    BY <2>1 DEF Once
  <2>3. /\ \A u \in Call \ {r} : call'[u] = call[u]
        /\ call'[r].pc = "ignored" \/ call'[r].saw = "orig" \/ call'[r].saw = call[r].saw
    BY <1>0, <1>3, <2>1 DEF Load, SafeTarget, TellsAndEnds, CallInv, Calls
  <2>4. call[r].saw = "orig"
    BY <2>1 DEF Once
  <2> QED BY <2>1, <2>2, <2>3, <2>4 DEF Once, Call
<1>4. ASSUME NEW r \in Resume, Follow(r)  PROVE Once'
  <2>1. r \in Call /\ UNCHANGED <<seen, forgot>> /\ links # 0
    BY <1>4 DEF Follow, Call, CallInv, Credentials
  <2>2. \A u \in Call : call'[u].saw = call[u].saw /\ (call[u].pc = "ignored" => call'[u].pc = "ignored")
    BY <1>0, <1>4, <2>1 DEF Follow, CallInv, Calls
  <2>3. forgot \/ Message \in seen
    BY <2>1 DEF Once
  <2> QED BY <2>1, <2>2, <2>3, OnceStays
<1>5. CASE CatalogTaken \/ CatalogRefused
  <2>1. /\ UNCHANGED <<seen, forgot, links, text>>
        /\ \A u \in Call : call'[u].saw = call[u].saw /\ (call[u].pc = "ignored" => call'[u].pc = "ignored")
        /\ \A u \in Call : call'[u].pc = call[u].pc \/ call[u].pc = "waits"
    BY <1>0, <1>5 DEF CatalogTaken, CatalogRefused, Waiting
  <2>2. forgot \/ Message \in seen \/ (text' # "new" /\ \A u \in Call : call'[u].pc = call[u].pc)
    BY <2>1 DEF Once
  <2> QED BY <2>1, <2>2, OnceStays
<1>6. CASE Radar \/ Author \/ Withdraw \/ UNCHANGED vars
  <2>1. /\ UNCHANGED <<seen, forgot, links, call>> /\ (text' = "new" => text = "new")
    BY <1>6 DEF Radar, Author, Withdraw, vars
  <2> QED BY <2>1 DEF Once
<1>7. CASE ForgetKey \/ Crash
  <2>1. /\ forgot'
        /\ \A u \in Call : call'[u].saw = call[u].saw /\ (call[u].pc = "ignored" => call'[u].pc = "ignored")
    BY <1>0, <1>7 DEF ForgetKey, Crash
  <2> QED BY <2>1, OnceStays
<1> QED BY <1>1, <1>2, <1>3, <1>4, <1>5, <1>6, <1>7 DEF Next

\* A message that was replaced is replaced again only by a call that began before, or
\* after the deduper forgot it; a resumed call touches the original text only.
THEOREM ReplacedOnceOnly == Spec => ReplacedOnce
<1>1. Init => Once
  <2> SUFFICES ASSUME Init  PROVE Once
    OBVIOUS
  <2>1. call = [t \in Call |-> First] /\ text = "orig" /\ links = 0
    BY DEF Init, InitCalls
  <2>2. \A t \in Call : call[t].pc = "new" /\ call[t].saw = "orig"
    BY <2>1 DEF First
  <2> QED BY <2>1, <2>2 DEF Once, Call
<1>2. CallInv /\ Once /\ [Next]_vars => Once'
  BY OnceKept
<1>3. ASSUME CallInv, Once, [Next]_vars, NEW t \in applied' \ applied
      PROVE  (call[t].saw = "new" => forgot) /\ (t \in Resume => call[t].saw = "orig")
  <2>1. t \in Call /\ Update(t)
    <3>1. applied' = applied \/ \E u \in Call : Update(u)
      BY <1>3, Zenon DEF Next, vars, Deliver, Follow, Load, Step, GetCatalog, GetToken, UpdateRefused,
             TokenRefused, Invalidate, AskAuthorization, OfferOrRetry, CatalogTaken, CatalogRefused, Radar, Author,
             Withdraw, ForgetKey, Crash
    <3>2. PICK u \in Call : Update(u)
      BY <1>3, <3>1
    <3> QED BY <1>3, <3>2 DEF Update
  <2>2. call[t].pc \in {"update", "retry"}
    BY <2>1 DEF Update
  <2> QED BY <1>3, <2>1, <2>2 DEF Once, Call
<1>4. CallInv /\ Once /\ [Next]_vars =>
        \A t \in applied' \ applied :
          /\ call[t].saw = "new" => forgot
          /\ t \in Resume => call[t].saw = "orig"
  BY <1>3
<1>5. Spec => [](CallInv /\ Once)
  BY <1>1, <1>2, CallInvariant, PTL DEF Spec
<1> QED BY <1>4, <1>5, PTL DEF Spec, ReplacedOnce

\* A credential that Slack accepts is erased only by a call that used it and was refused:
\* one granted while an older token fails stays.
THEOREM GrantsSurvive == Spec => GrantSurvives
<1>1. ASSUME CallInv, [Next]_vars, stored' = NoToken, stored \in valid
      PROVE  \E t \in Call :
               call[t].token = stored /\ call[t].pc \in {"invalidate", "invalidateAgain"}
  <2>1. stored # NoToken /\ ~Required /\ grants \in Nat
    BY <1>1 DEF CallInv, Credentials, NoToken, Required
  <2>2. stored' # stored
    BY <1>1, <2>1
  <2>3. \A r \in Resume : ~Follow(r)
    BY <1>1, <2>1 DEF Follow, NoToken
  <2>4. \E t \in Call : GetToken(t) \/ Invalidate(t) \/ AskAuthorization(t) \/ OfferOrRetry(t)
    BY <1>1, <2>2, <2>3 DEF Next, vars, oauth, Deliver, Load, Step, GetCatalog, Update, UpdateRefused,
         TokenRefused, CatalogTaken, CatalogRefused, Radar, Author, Withdraw, ForgetKey, Crash
  <2>5. PICK t \in Call : GetToken(t) \/ Invalidate(t) \/ AskAuthorization(t) \/ OfferOrRetry(t)
    BY <2>4
  <2>6. Invalidate(t) /\ stored = call[t].token
    BY <2>1, <2>2, <2>5 DEF GetToken, Invalidate, Invalidated, AskAuthorization, OfferOrRetry, Offer, oauth
  <2> QED BY <2>6 DEF Invalidate
<1>2. CallInv /\ [Next]_vars =>
        (stored' = NoToken /\ stored \in valid =>
           \E t \in Call :
             call[t].token = stored /\ call[t].pc \in {"invalidate", "invalidateAgain"})
  BY <1>1
<1> QED BY <1>2, CallInvariant, PTL DEF Spec, GrantSurvives
=============================================================================
