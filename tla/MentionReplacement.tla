--------------------------- MODULE MentionReplacement ---------------------------
(***************************************************************************)
(* One message with a group's handle in it: deliveries of its event and    *)
(* resumptions after an OAuth callback replace the handle by the group's   *)
(* members, in the author's name, while the author may edit or delete the  *)
(* message, the catalog changes and credentials come and go.               *)
(***************************************************************************)
EXTENDS MentionCatalog

CONSTANTS
  Delivery,     \* deliveries of the message's event
  Resume,       \* callbacks that resume it
  EventOf,      \* the event id each delivery carries
  Long,         \* rosters that make the text longer than 4000 characters
  MaxFaults,    \* bound: failed requests, lost answers, crashes, forgotten keys
  MaxGrants     \* bound: credentials the author grants

Call == Delivery \cup Resume
Message == "message"        \* the deduper's key of the message
Key == {EventOf[d] : d \in Delivery} \cup {Message}
NoToken == 0

ASSUME MentionReplacementAssumption ==
  /\ Delivery \cap Resume = {}
  /\ DOMAIN EventOf = Delivery /\ Message \notin {EventOf[d] : d \in Delivery}
  /\ Long \subseteq Roster
  /\ MaxFaults \in Nat /\ MaxGrants \in Nat \ {0}

VARIABLES
  text,         \* the message as Slack has it
  seen,         \* MentionEventDeduper.seen
  stored, valid,\* the credential in the database; those Slack accepts
  grants,       \* credentials granted so far
  links,        \* links offered and not followed yet
  call,         \* the calls under way
  told,         \* ghost: calls that sent the author a word, or offered a link
  applied,      \* ghost: calls whose update Slack applied
  forgot,       \* ghost: the deduper has lost a key
  faults

oauth == <<stored, valid, grants, links>>
vars == <<catalogVars, text, seen, oauth, call, told, applied, forgot, faults>>

\* A call: where it is, the token it goes by, and, as ghosts, the grants there were when
\* it last asked for one and the text Slack had when it began.
First == [pc |-> "new", token |-> NoToken, granted |-> 0, saw |-> "orig"]

InitCalls(calls, n) ==
  /\ CatalogInit(n)
  /\ text = "orig"
  /\ seen = {}
  /\ grants \in {0, 1} /\ stored = grants /\ valid = {grants} \ {NoToken}
  /\ links = 0
  /\ call = calls
  /\ told = {} /\ applied = {} /\ forgot = FALSE
  /\ faults = 0

Init == InitCalls([t \in Call |-> First], 0)

IsAt(t, pc) == call[t].pc = pc
Goes(t, pc) == call' = [call EXCEPT ![t].pc = pc]
Tells(t) == told' = told \cup {t}
Faults == faults < MaxFaults /\ faults' = faults + 1

\* A notice, and the end of the call.
TellsAndEnds(t) == Tells(t) /\ Goes(t, "done")

-----------------------------------------------------------------------------
(* What starts a call *)

\* Mutant of Claim: only the event's id is looked up.
ClaimByEvent(d) == EventOf[d] \notin seen /\ seen' = seen \cup {EventOf[d], Message}

\* MentionEventDeduper.claim
Claim(d) == {EventOf[d], Message} \cap seen = {} /\ seen' = seen \cup {EventOf[d], Message}

\* handleEvent. The event's text has the handle, whatever the message says by now.
Deliver(d) ==
  /\ IsAt(d, "new")
  /\ \/ Claim(d) /\ call' = [call EXCEPT ![d].pc = "catalog", ![d].saw = text]
     \/ {EventOf[d], Message} \cap seen # {} /\ Goes(d, "ignored") /\ UNCHANGED seen
  /\ UNCHANGED <<catalogVars, text, oauth, told, applied, forgot, faults>>

\* A link is followed: the grant is saved and resumeAfterAuthorization called.
Follow(r) ==
  /\ IsAt(r, "new") /\ links > 0 /\ grants < MaxGrants
  /\ links' = links - 1
  /\ grants' = grants + 1 /\ stored' = grants' /\ valid' = valid \cup {grants'}
  /\ Goes(r, "load")
  /\ UNCHANGED <<catalogVars, text, seen, told, applied, forgot, faults>>

\* isSafeResumeTarget: our own update counts as an edit.
SafeTarget == text = "orig"

\* The message is read again. If it cannot be read the callback's page says so.
Load(r) ==
  /\ IsAt(r, "load")
  /\ \/ /\ call' = [call EXCEPT ![r].pc = IF SafeTarget THEN "catalog" ELSE "ignored",
                                ![r].saw = text]
        /\ UNCHANGED <<told, faults>>
     \/ Faults /\ TellsAndEnds(r)
  /\ UNCHANGED <<catalogVars, text, seen, oauth, applied, forgot>>

-----------------------------------------------------------------------------
(* process: the catalog *)

\* An unknown or empty group is told of, a text too long as well.
Planned(t, roster) ==
  /\ Goes(t, IF roster \in Roster \ Long THEN "token" ELSE "done")
  /\ told' = IF roster \in Roster \ Long THEN told ELSE told \cup {t}

GetCatalog(t) ==
  /\ IsAt(t, "catalog")
  /\ \/ Fresh /\ Planned(t, cached.cat.roster) /\ UNCHANGED flight
     \/ ~Fresh /\ Ask /\ Goes(t, "waits") /\ UNCHANGED told
  /\ UNCHANGED <<radar, gone, cached, floor, command, text, seen, oauth, applied, forgot, faults>>

Waiting == {t \in Call : IsAt(t, "waits")}

\* The catalog arrives, for everyone who waits.
CatalogTaken ==
  /\ Take
  /\ LET ready == cached'.cat.roster \in Roster \ Long IN
     /\ call' = [t \in Call |-> IF t \in Waiting
          THEN [call[t] EXCEPT !.pc = IF ready THEN "token" ELSE "done"] ELSE call[t]]
     /\ told' = IF ready THEN told ELSE told \cup Waiting
  /\ UNCHANGED <<text, seen, oauth, applied, forgot, faults>>

\* It fails, for everyone who waits: the message is left alone.
CatalogRefused ==
  /\ Refuse
  /\ call' = [t \in Call |-> IF t \in Waiting THEN [call[t] EXCEPT !.pc = "done"] ELSE call[t]]
  /\ told' = told \cup Waiting
  /\ UNCHANGED <<text, seen, oauth, applied, forgot, faults>>

-----------------------------------------------------------------------------
(* process: the token and the update *)

\* getAccessToken demands a new authorization and erases what it found.
Required == stored \notin valid
Erase == stored' = NoToken /\ UNCHANGED <<valid, grants, links>>

\* getAccessToken, of process and of the retry with another token.
GetToken(t) ==
  /\ call[t].pc \in {"token", "again"}
  /\ LET go(pc, k) == call' = [call EXCEPT ![t].pc = pc, ![t].token = k, ![t].granted = grants] IN
     \/ /\ Required /\ Erase
        /\ go("ask", NoToken) /\ UNCHANGED <<told, faults>>
     \/ /\ ~Required /\ (IsAt(t, "token") \/ stored # call[t].token)
        /\ go(IF IsAt(t, "token") THEN "update" ELSE "retry", stored)
        /\ UNCHANGED <<oauth, told, faults>>
     \/ /\ IsAt(t, "again") /\ ~Required /\ stored = call[t].token
        /\ TellsAndEnds(t) /\ UNCHANGED <<oauth, faults>>
     \/ Faults /\ TellsAndEnds(t) /\ UNCHANGED oauth
  /\ UNCHANGED <<catalogVars, text, seen, applied, forgot>>

\* chat.update with a token Slack accepts: the text is replaced, whatever it has become,
\* unless the message is gone; the answer may be lost.
Update(t) ==
  /\ call[t].pc \in {"update", "retry"}
  /\ call[t].token \in valid /\ text # "gone"
  /\ text' = "new"
  /\ applied' = applied \cup {t}
  /\ \/ Goes(t, "done") /\ UNCHANGED <<told, faults>>
     \/ Faults /\ TellsAndEnds(t)
  /\ UNCHANGED <<catalogVars, seen, oauth, forgot>>

\* Slack refuses: the message is gone or may not be edited, or the request is lost.
UpdateRefused(t) ==
  /\ call[t].pc \in {"update", "retry"}
  /\ TellsAndEnds(t)
  /\ \/ text = "gone" /\ call[t].token \in valid /\ UNCHANGED faults
     \/ Faults
  /\ UNCHANGED <<catalogVars, text, seen, oauth, applied, forgot>>

\* Slack refuses the token, or (a missing scope) one that is valid otherwise.
TokenRefused(t) ==
  /\ call[t].pc \in {"update", "retry"}
  /\ \/ call[t].token \notin valid /\ UNCHANGED faults
     \/ Faults
  /\ Goes(t, IF IsAt(t, "update") THEN "invalidate" ELSE "invalidateAgain")
  /\ UNCHANGED <<catalogVars, text, seen, oauth, told, applied, forgot>>

\* Mutant of Invalidated: whatever is stored is erased.
InvalidatedAny(k) == stored' = NoToken /\ valid' = valid \ {k, stored}

\* invalidateAccessToken: only the token that failed is erased and revoked.
Invalidated(k) ==
  /\ stored' = IF stored = k THEN NoToken ELSE stored
  /\ valid' = IF stored = k THEN valid \ {k} ELSE valid

\* An error is only logged the first time, and ends the call the second.
Invalidate(t) ==
  /\ call[t].pc \in {"invalidate", "invalidateAgain"}
  /\ \/ /\ Invalidated(call[t].token) /\ UNCHANGED <<grants, links>>
        /\ Goes(t, IF IsAt(t, "invalidate") THEN "offer" ELSE "ask") /\ UNCHANGED <<told, faults>>
     \/ /\ Faults /\ UNCHANGED oauth
        /\ IF IsAt(t, "invalidate") THEN Goes(t, "offer") /\ UNCHANGED told ELSE TellsAndEnds(t)
  /\ UNCHANGED <<catalogVars, text, seen, applied, forgot>>

-----------------------------------------------------------------------------
(* promptAuthorization *)

\* A link is offered where a credential is missing.
Offer(t) ==
  /\ Required
  /\ stored' = NoToken /\ links' = links + 1 /\ UNCHANGED <<valid, grants>>
  /\ TellsAndEnds(t) /\ UNCHANGED faults

\* Mutant of AskAuthorization: the notice of an error is left out.
AskQuietly(t) ==
  /\ IsAt(t, "ask")
  /\ \/ Offer(t)
     \/ ~Required /\ Goes(t, "done") /\ UNCHANGED <<oauth, told, faults>>
     \/ Faults /\ Goes(t, "done") /\ UNCHANGED <<oauth, told>>
  /\ UNCHANGED <<catalogVars, text, seen, applied, forgot>>

\* After getAccessToken failed: if a credential has appeared by now the call just ends.
AskAuthorization(t) ==
  /\ IsAt(t, "ask")
  /\ \/ Offer(t)
     \/ ~Required /\ Goes(t, "done") /\ UNCHANGED <<oauth, told, faults>>
     \/ Faults /\ TellsAndEnds(t) /\ UNCHANGED oauth
  /\ UNCHANGED <<catalogVars, text, seen, applied, forgot>>

\* After the token failed: if a credential has appeared the update is tried once more.
OfferOrRetry(t) ==
  /\ IsAt(t, "offer")
  /\ \/ Offer(t)
     \/ ~Required /\ Goes(t, "again") /\ UNCHANGED <<oauth, told, faults>>
     \/ Faults /\ Tells(t) /\ Goes(t, "again") /\ UNCHANGED oauth
  /\ UNCHANGED <<catalogVars, text, seen, applied, forgot>>

-----------------------------------------------------------------------------
(* The environment *)

\* The author edits the message, or deletes it.
Author ==
  /\ text # "gone"
  /\ text' \in {"edited", "gone"} \ {text}
  /\ UNCHANGED <<catalogVars, seen, oauth, call, told, applied, forgot, faults>>

\* The author withdraws the authorization at Slack.
Withdraw ==
  /\ valid # {} /\ valid' = {}
  /\ UNCHANGED <<catalogVars, text, seen, stored, grants, links, call, told, applied, forgot, faults>>

\* A key of the deduper runs out after fifteen minutes, or is the oldest of too many.
ForgetKey ==
  /\ Faults
  /\ \E k \in seen : seen' = seen \ {k}
  /\ forgot' = TRUE
  /\ UNCHANGED <<catalogVars, text, oauth, call, told, applied>>

\* The process dies with its calls, its cache and its deduper.
Crash ==
  /\ Faults
  /\ ForgetCatalog /\ UNCHANGED <<radar, gone, command>>
  /\ seen' = {} /\ forgot' = TRUE
  /\ call' = [t \in Call |-> IF call[t].pc \in {"new", "done", "ignored"} THEN call[t]
                             ELSE [call[t] EXCEPT !.pc = "ignored"]]
  /\ UNCHANGED <<text, oauth, told, applied>>

\* Radar, the commands and the TTL.
Radar ==
  /\ \/ Edit \/ Answer \/ AnswerOld \/ Lapse
     \/ \E k \in Command : Invoke(k) \/ Carry(k)
  /\ UNCHANGED <<text, seen, oauth, call, told, applied, forgot, faults>>

Step(t) ==
  \/ GetCatalog(t) \/ GetToken(t) \/ Update(t) \/ UpdateRefused(t) \/ TokenRefused(t)
  \/ Invalidate(t) \/ AskAuthorization(t) \/ OfferOrRetry(t)

Next ==
  \/ \E d \in Delivery : Deliver(d)
  \/ \E r \in Resume : Follow(r) \/ Load(r)
  \/ \E t \in Call : Step(t)
  \/ CatalogTaken \/ CatalogRefused
  \/ Radar \/ Author \/ Withdraw \/ ForgetKey \/ Crash

\* Requests end, by their timeouts at the latest. Nobody has to follow a link.
Fairness ==
  /\ \A t \in Call : WF_vars(Step(t))
  /\ \A r \in Resume : WF_vars(Load(r))
  /\ WF_vars(CatalogTaken \/ CatalogRefused)

Spec == Init /\ [][Next]_vars /\ Fairness

-----------------------------------------------------------------------------
(* Properties *)

\* A catalog is used only if Radar still had it when the request that last validated it
\* was sent: the cache fails closed, so a member removed before is not mentioned.
CatalogWasCurrent == Fresh => cached.cat \notin floor

\* A call that ends without an update has sent the author a word on why, or a link, unless
\* the author granted a credential while it was about to ask for one. (Sent: a notice that
\* Slack refuses is only logged, service.ts:401.)
NeverSilent ==
  \A t \in Call : IsAt(t, "done") =>
    t \in told \/ t \in applied \/ grants > call[t].granted

\* A message already replaced is replaced again only by a call that began before, or
\* when the deduper forgot it; and a resumed call only touches the original text it read.
ReplacedOnce ==
  [][\A t \in applied' \ applied :
       /\ call[t].saw = "new" => forgot
       /\ t \in Resume => call[t].saw = "orig"]_vars

\* A credential granted while an older token fails survives that failure: what is stored
\* and accepted is erased only by a call that used it and was refused. (Rotation, and what
\* a refused refresh erases, are UserOAuth's.)
GrantSurvives ==
  [][stored' = NoToken /\ stored \in valid =>
       \E t \in Call :
         call[t].token = stored /\ call[t].pc \in {"invalidate", "invalidateAgain"}]_vars

\* Every call that has begun ends.
CallsEnd == <>[](\A t \in Call : call[t].pc \in {"new", "done", "ignored"})
=============================================================================
