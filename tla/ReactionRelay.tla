----------------------------- MODULE ReactionRelay ------------------------------
(***************************************************************************)
(* The relay of reactions: a message that gets a team's emoji is linked in *)
(* the channels of the team. Users add and withdraw the emoji while the    *)
(* handlers of earlier additions ask Slack for its count, and the relay    *)
(* listens only after it has joined the public channels and knows its own  *)
(* user.                                                                   *)
(***************************************************************************)
EXTENDS Integers, FiniteSets, Sequences

CONSTANTS
  User,         \* people who react; the bot's own reactions are dropped
  Channels,     \* TEAM_CHANNELS of the emoji, in order: one, or all teams'
  Handler,      \* handlers under way at once
  MaxToggles,       \* bound: reactions added
  MaxReactionFaults \* bound: requests that fail, events Slack sends twice

ASSUME ReactionAssumption == Channels \in Seq(STRING) /\ MaxToggles \in Nat /\ MaxReactionFaults \in Nat

VARIABLES
  setup,        \* of the listener
  public,       \* public channels the bot is not in
  reactors,     \* who has the emoji on the message
  pending,      \* events to come, by user
  handler,
  relayed,      \* links in each channel
  excuses,      \* ghost: withdrawals, failures, repeated events
  toggles,
  reactionFaults

slackMessage == <<reactors, pending, toggles>>
reactionVars == <<setup, public, slackMessage, handler, relayed, excuses, reactionFaults>>

Waiting == [pc |-> "idle", next |-> 1]

ReactionInit ==
  /\ setup = "backfill" /\ public = {"new"}
  /\ reactors = {} /\ pending = [u \in User |-> 0] /\ toggles = 0
  /\ handler = [h \in Handler |-> Waiting]
  /\ relayed = [c \in 1..Len(Channels) |-> 0]
  /\ excuses = 0 /\ reactionFaults = 0

Excused == excuses' = excuses + 1
Fails == reactionFaults < MaxReactionFaults /\ reactionFaults' = reactionFaults + 1
Works == UNCHANGED <<excuses, reactionFaults>>

-----------------------------------------------------------------------------
(* The listener *)

\* Every public channel is joined; a channel that fails is passed over, a page ends it.
Backfill ==
  /\ setup = "backfill"
  /\ \/ public = {} /\ UNCHANGED public /\ setup' = "auth" /\ Works
     \/ \E c \in public : public' = public \ {c} /\ UNCHANGED setup /\ Works
     \/ UNCHANGED public /\ setup' = "auth" /\ Fails /\ UNCHANGED excuses
  /\ UNCHANGED <<slackMessage, handler, relayed>>

\* Without its own user the relay does not listen. Missing memberships are only logged.
Register ==
  /\ setup = "auth"
  /\ \/ setup' = "on" /\ Works
     \/ setup' = "off" /\ Fails /\ UNCHANGED excuses
  /\ UNCHANGED <<public, slackMessage, handler, relayed>>

-----------------------------------------------------------------------------
(* Slack *)

React(u) ==
  /\ u \notin reactors /\ toggles < MaxToggles
  /\ toggles' = toggles + 1
  /\ reactors' = reactors \union {u}
  /\ pending' = [pending EXCEPT ![u] = @ + 1]
  /\ UNCHANGED <<setup, public, handler, relayed, excuses, reactionFaults>>

Withdraw(u) ==
  /\ u \in reactors
  /\ reactors' = reactors \ {u}
  /\ Excused
  /\ UNCHANGED <<setup, public, pending, toggles, handler, relayed, reactionFaults>>

-----------------------------------------------------------------------------
(* The handlers *)

Goto(h, pc) == handler' = [handler EXCEPT ![h].pc = pc]
Leave(h) == handler' = [handler EXCEPT ![h] = Waiting]

\* An event comes, once more if its acknowledgement is lost; nobody may be listening yet.
Dispatch(h, u) ==
  /\ pending[u] > 0 /\ handler[h].pc = "idle"
  /\ \/ pending' = [pending EXCEPT ![u] = @ - 1] /\ Works
     \/ UNCHANGED pending /\ Fails /\ Excused
  /\ IF setup = "on" THEN Goto(h, "get") ELSE UNCHANGED handler
  /\ UNCHANGED <<setup, public, reactors, toggles, relayed>>

\* Mutant of AlreadyThere: the reaction that brought the event is not counted.
ThreeAreThere == Cardinality(reactors) > 2

\* The emoji was there before, as far as Slack's count tells now.
AlreadyThere == Cardinality(reactors) > 1

\* Where the count is not to be had, the message is relayed.
Get(h) ==
  /\ handler[h].pc = "get"
  /\ \/ (IF AlreadyThere THEN Leave(h) ELSE Goto(h, "link")) /\ Works
     \/ Goto(h, "link") /\ Fails /\ Excused
  /\ UNCHANGED <<setup, public, slackMessage, relayed>>

buildPermalink(h) ==
  /\ handler[h].pc = "link"
  /\ \/ Goto(h, "relay") /\ Works
     \/ Leave(h) /\ Fails /\ UNCHANGED excuses
  /\ UNCHANGED <<setup, public, slackMessage, relayed>>

Advance(h) ==
  IF handler[h].next = Len(Channels) THEN Leave(h)
  ELSE handler' = [handler EXCEPT ![h].next = @ + 1]

\* Channel after channel; a failed one is passed over, and the client may send it again.
relayToOne(h) ==
  /\ handler[h].pc = "relay"
  /\ LET sent == [relayed EXCEPT ![handler[h].next] = @ + 1] IN
     \/ relayed' = sent /\ Advance(h) /\ Works
     \/ /\ relayed' \in {relayed, sent} /\ Fails /\ Excused
        /\ Advance(h) \/ UNCHANGED handler
  /\ UNCHANGED <<setup, public, slackMessage>>

ReactionNext ==
  \/ Backfill \/ Register
  \/ \E u \in User : React(u) \/ Withdraw(u) \/ \E h \in Handler : Dispatch(h, u)
  \/ \E h \in Handler : Get(h) \/ buildPermalink(h) \/ relayToOne(h)

ReactionSpec == ReactionInit /\ [][ReactionNext]_reactionVars

-----------------------------------------------------------------------------
(* Properties *)

\* However many people react at once, a channel gets the link once, but for withdrawn
\* reactions, failed requests and events sent twice.
RelayedForCause == \A c \in DOMAIN relayed : relayed[c] <= 1 + excuses
=============================================================================
