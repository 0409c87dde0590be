------------------------------- MODULE EventIntake ------------------------------
(***************************************************************************)
(* What becomes of an event of Slack before anything is done for it:       *)
(* messages and mentions become requests of a session (slack/handlers.ts), *)
(* reactions to an event's message go to Radar's attendance list           *)
(* (slack/event-attendance.ts).                                            *)
(***************************************************************************)
EXTENDS Naturals, Sequences

CONSTANT None

-----------------------------------------------------------------------------
(* Messages; `text` and `files` say whether there are any *)

\* receive(): only original messages of people, and without a mention only direct ones.
Accepted(e) ==
  /\ ~ e.bot /\ e.subtype = None /\ e.user # None /\ e.channel # None /\ e.ts # None
  /\ e.kind = "message" => e.channelType = "im" /\ (e.text \/ e.files)

teamId(e) == IF e.envelopeTeam # None THEN e.envelopeTeam ELSE e.team
threadTs(e) == IF e.threadTs # None THEN e.threadTs ELSE e.ts

sessionId(e) == <<teamId(e), e.channel, threadTs(e)>>

\* The id of Slack's envelope, which stays when Slack sends it again; else the message's.
requestId(e) ==
  IF e.eventId # None THEN <<"slack-event", e.eventId>>
  ELSE <<"slack-fallback", teamId(e), e.channel, e.ts, e.user>>

isMention(e) == e.kind = "app_mention" /\ e.channelType # "im" /\ ~ e.direct
isThreadReply(e) == isMention(e) /\ threadTs(e) # e.ts

\* What the request is answered from: nothing but a greeting, Slack's thread, the message
\* alone, or the turns of its session.
AnsweredFrom(e) ==
  IF ~ (e.text \/ e.files) /\ ~ isThreadReply(e) THEN "greeting"
  ELSE IF isThreadReply(e) THEN "thread"
  ELSE IF isMention(e) THEN "message" ELSE "session"

-----------------------------------------------------------------------------
(* Reactions *)

\* handleReaction(): of a message, with an emoji that says something, all of it well formed.
Relayed(r) == r.item = "message" /\ r.kind # None /\ r.wellFormed

slackEventId(r) == IF r.eventId # None THEN r.eventId ELSE <<r.action, r.eventTs, r.message, r.user, r.name>>

\* An answer of Radar, or none that could be read before the timeout.
Retryable(answer) == answer \in {"throttled", "failed", "unanswered"}

\* The requests Radar is sent, given how it answers the first and the second.
Attempts(r, answers) ==
  IF ~ Relayed(r) THEN <<>>
  ELSE [i \in 1 .. (IF Retryable(answers[1]) THEN 2 ELSE 1) |-> [id |-> slackEventId(r), answer |-> answers[i]]]

\* What is not logged as lost.
Delivered(attempts) == attempts # <<>> /\ attempts[Len(attempts)].answer = "ok"
=============================================================================
