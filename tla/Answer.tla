--------------------------------- MODULE Answer ---------------------------------
(***************************************************************************)
(* What the user sees of one request: the control message, the preview of  *)
(* the answer, its final form and the notices of failure, as requests to   *)
(* Slack are applied, refused, given up or applied late while the run      *)
(* generates, saves and delivers its answer or is stopped.                 *)
(***************************************************************************)
EXTENDS Integers

CONSTANTS
  MaxCalls,     \* MAX_CALLS: requests a preview may make
  MaxFaults     \* bound: requests that go wrong, a save or rendering that fails

ASSUME AnswerAssumption == MaxCalls \in Nat \ {0} /\ MaxFaults \in Nat

VARIABLES
  main,         \* where the run is
  state,        \* ConversationControl: running, committing, committed
  stopped,      \* cancelled or past the deadline: its signal is aborted
  phase,        \* LiveAnswer.phase
  flight,       \* the preview request under way
  live,         \* the other fields of LiveAnswer
  delivered,    \* markDelivered
  notified,     \* SlackRequestControls.notified
  notification, \* its delivery is under way
  control,      \* the control message in Slack
  bound,        \* its ts is known
  preview,      \* the preview message in Slack
  stream,       \* the streamed answer in Slack
  posts,        \* answers posted
  notices,      \* error notices posted
  limbo,        \* a preview request the client gave up, which Slack may still apply
  late,         \* ghost: it has been
  faults

liveAnswer == <<phase, flight, live>>
controls == <<delivered, notified, notification, bound>>
thread == <<control, preview, stream, posts, notices>>
vars == <<main, state, stopped, liveAnswer, controls, thread, limbo, late, faults>>

Init ==
  /\ main = "start" /\ state = "running" /\ stopped = FALSE
  /\ phase = "preview" /\ flight = "none"
  /\ live = [ts |-> FALSE, attempted |-> FALSE, fallbackSafe |-> FALSE, frozen |-> FALSE,
             pending |-> FALSE, calls |-> 0, saved |-> FALSE]
  /\ delivered = FALSE /\ notified = FALSE /\ notification = FALSE
  /\ control = "none" /\ bound = FALSE
  /\ preview = "none" /\ stream = "none" /\ posts = 0 /\ notices = 0
  /\ limbo = FALSE /\ late = FALSE /\ faults = 0

At(pc) == main = pc
Goes(pc) == main' = pc
Fault == faults < MaxFaults /\ faults' = faults + 1
NoFault == UNCHANGED faults

\* A request to Slack: applied and confirmed; applied and not confirmed, for its answer is
\* lost or carries a warning; or neither. An aborted one fails either way.
Confirmed == NoFault
Unconfirmed == Fault
CutShort == IF stopped THEN NoFault ELSE Fault

-----------------------------------------------------------------------------
(* The control message *)

\* The abort listener; during a commit it leaves the verdict to its outcome.
OnAbort == IF bound /\ state = "running" /\ ~notified
           THEN notified' = TRUE /\ notification' = TRUE
           ELSE UNCHANGED <<notified, notification>>

\* SlackRequestControls.start: without the control message the run fails.
Start ==
  /\ At("start")
  /\ \/ /\ ~stopped /\ Confirmed
        /\ control' = "working" /\ bound' = TRUE /\ Goes("generate")
     \/ /\ CutShort
        /\ control' \in {"none", "working"} /\ UNCHANGED bound /\ Goes("notice")
  /\ UNCHANGED <<state, stopped, liveAnswer, delivered, notified, notification, preview,
                 stream, posts, notices, limbo, late>>

\* The user cancels, or three minutes have passed; a commit is not cancelled but may be late.
Stop ==
  /\ ~stopped /\ state # "committed" /\ main \notin {"notice", "finish", "relabel", "done"}
  /\ stopped' = TRUE
  /\ OnAbort
  /\ UNCHANGED <<main, state, liveAnswer, delivered, bound, thread, limbo, late, faults>>

\* The notice of the stop replaces the control message, or is lost.
NotificationEnds ==
  /\ notification
  /\ notification' = FALSE
  /\ \/ control' = "stopped" /\ Confirmed
     \/ control' \in {control, "stopped"} /\ Unconfirmed
  /\ UNCHANGED <<main, state, stopped, liveAnswer, delivered, notified, bound, preview,
                 stream, posts, notices, limbo, late>>

-----------------------------------------------------------------------------
(* The preview *)

\* A delta of the answer; one too many for the budget freezes the preview.
Delta ==
  /\ At("generate") /\ phase = "preview" /\ ~stopped /\ ~live.frozen
  /\ \/ live' = [live EXCEPT !.pending = TRUE]
     \/ live' = [live EXCEPT !.pending = FALSE, !.frozen = TRUE]
  /\ UNCHANGED <<main, state, stopped, phase, flight, controls, thread, limbo, late, faults>>

\* pump: one request at a time carries the latest text, up to MaxCalls of them.
Pump ==
  /\ flight = "none" /\ live.pending /\ ~live.frozen /\ ~stopped /\ phase = "preview"
  /\ IF live.calls < MaxCalls
     THEN /\ flight' = "sent"
          /\ live' = [live EXCEPT !.pending = FALSE, !.attempted = TRUE, !.calls = @ + 1]
     ELSE /\ live' = [live EXCEPT !.pending = FALSE, !.frozen = TRUE]
          /\ UNCHANGED flight
  /\ UNCHANGED <<main, state, stopped, phase, controls, thread, limbo, late, faults>>

Frozen(l) == [l EXCEPT !.frozen = TRUE, !.pending = FALSE]

\* It settles. Whatever is not confirmed freezes the preview; a first post that Slack
\* refuses by a method or scope it lacks leaves nothing behind.
PreviewSettles ==
  /\ flight = "sent"
  /\ flight' = "none"
  /\ \/ /\ ~stopped /\ Confirmed
        /\ preview' = "partial" /\ live' = [live EXCEPT !.ts = TRUE] /\ UNCHANGED limbo
     \/ /\ CutShort
        /\ \/ preview' = "partial" /\ UNCHANGED limbo    \* a warning, or the answer lost
              /\ \E ts \in {live.ts, TRUE} : live' = Frozen([live EXCEPT !.ts = ts])
           \/ UNCHANGED preview /\ limbo' \in {limbo, TRUE} /\ live' = Frozen(live)
           \/ UNCHANGED <<preview, limbo>> /\ ~live.ts
              /\ live' = Frozen([live EXCEPT !.fallbackSafe = TRUE])
  /\ UNCHANGED <<main, state, stopped, phase, controls, control, stream, posts, notices, late>>

\* Slack applies a preview the client has given up.
AppliedLate ==
  /\ limbo /\ limbo' = FALSE /\ late' = TRUE
  /\ preview' = "partial"
  /\ UNCHANGED <<main, state, stopped, liveAnswer, controls, control, stream, posts, notices, faults>>

-----------------------------------------------------------------------------
(* Generation and save *)

\* The stream of the model ends: normally, in an error or at a limit, or stopped. A
\* greeting is an answer without a preview.
Generated ==
  /\ At("generate")
  /\ \/ ~stopped /\ Goes("seal")
     \/ Goes("clean")
  /\ UNCHANGED <<state, stopped, liveAnswer, controls, thread, limbo, late, faults>>

\* Mutant of Sealed: the request under way is not awaited.
SealedAtOnce ==
  /\ phase' = IF phase = "preview" THEN "sealed" ELSE phase
  /\ live' = [live EXCEPT !.pending = FALSE]

\* seal: no further preview starts, and the one under way has settled.
Sealed ==
  /\ flight = "none"
  /\ phase' = IF phase = "preview" THEN "sealed" ELSE phase
  /\ live' = [live EXCEPT !.pending = FALSE]

Seal ==
  /\ At("seal")
  /\ Sealed
  /\ Goes(IF stopped THEN "clean" ELSE "commit")
  /\ UNCHANGED <<state, stopped, flight, controls, thread, limbo, late, faults>>

Commit ==
  /\ At("commit")
  /\ IF stopped THEN Goes("clean") /\ UNCHANGED state
     ELSE Goes("save") /\ state' = "committing"
  /\ UNCHANGED <<stopped, liveAnswer, controls, thread, limbo, late, faults>>

Save ==
  /\ At("save")
  /\ \/ /\ state' = "committed" /\ live' = [live EXCEPT !.saved = TRUE]
        /\ NoFault /\ Goes("finalize")
     \/ state' = "running" /\ UNCHANGED live /\ Fault /\ Goes("clean")
  /\ UNCHANGED <<stopped, phase, flight, controls, thread, limbo, late>>

-----------------------------------------------------------------------------
(* The final answer *)

\* finalize: the preview becomes the answer if its identity is known; without a preview
\* the answer is delivered anew; an unknown one can only be left alone.
Finalize ==
  /\ At("finalize")
  /\ \/ /\ ~live.attempted \/ live.fallbackSafe
        /\ Goes("deliver") /\ NoFault /\ UNCHANGED phase
     \/ /\ live.attempted /\ ~live.fallbackSafe /\ live.ts
        /\ Goes("update") /\ phase' = "finalizing" /\ NoFault
     \/ /\ live.attempted /\ ~live.fallbackSafe /\ ~live.ts
        /\ Goes("clean") /\ NoFault /\ UNCHANGED phase
     \/ Fault /\ Goes("clean") /\ UNCHANGED phase       \* rendering the answer fails
  /\ UNCHANGED <<state, stopped, flight, live, controls, thread, limbo, late>>

\* The one update to the final answer.
Update ==
  /\ At("update")
  /\ \/ /\ preview' = "final" /\ phase' = "committed" /\ delivered' = TRUE /\ Confirmed
     \/ /\ preview' \in {preview, "final"} /\ UNCHANGED <<phase, delivered>> /\ Unconfirmed
  /\ Goes("clean")
  /\ UNCHANGED <<state, stopped, flight, live, notified, notification, bound, control,
                 stream, posts, notices, limbo, late>>

\* deliverFinalAnswer: a post where it cannot stream, else a stream of one or two chunks.
Deliver ==
  /\ At("deliver")
  /\ \E pc \in {"post", "startStream"} : Goes(pc)
  /\ UNCHANGED <<state, stopped, liveAnswer, controls, thread, limbo, late, faults>>

Post ==
  /\ At("post")
  /\ \/ posts' = posts + 1 /\ delivered' = TRUE /\ Confirmed
     \/ posts' \in {posts, posts + 1} /\ UNCHANGED delivered /\ Unconfirmed
  /\ Goes("clean")
  /\ UNCHANGED <<state, stopped, liveAnswer, notified, notification, bound, control, preview,
                 stream, notices, limbo, late>>

\* Mutant of StartFails: any failed start falls back to a post.
StartFailsOver ==
  /\ Unconfirmed
  /\ stream' \in {stream, "part", "full"} /\ Goes("post")

\* Only a refusal that leaves nothing behind falls back to a post.
StartFails ==
  /\ Unconfirmed
  /\ \/ UNCHANGED stream /\ Goes("post")
     \/ stream' \in {stream, "part", "full"} /\ Goes("clean")

StartStream ==
  /\ At("startStream")
  /\ \/ stream' = "full" /\ Goes("stopStream") /\ Confirmed
     \/ stream' = "part" /\ Goes("append") /\ Confirmed
     \/ StartFails
  /\ UNCHANGED <<state, stopped, liveAnswer, controls, control, preview, posts, notices, limbo, late>>

\* Mutant of AppendFails: what Slack says of the append is not looked at.
AppendUnread == Unconfirmed /\ stream' \in {"part", "full"} /\ Goes("stopStream")

\* A chunk that may be missing ends the delivery, unconfirmed.
AppendFails == Unconfirmed /\ stream' \in {"part", "full"} /\ Goes("abandon")

ExtendStream ==
  /\ At("append")
  /\ \/ stream' = "full" /\ Goes("stopStream") /\ Confirmed
     \/ AppendFails
  /\ UNCHANGED <<state, stopped, liveAnswer, controls, control, preview, posts, notices, limbo, late>>

\* The stream is closed. After an error it is closed once more, to no effect on the body.
StopStream ==
  /\ main \in {"stopStream", "abandon"}
  /\ \/ Confirmed /\ delivered' = At("stopStream") /\ Goes("clean")
     \/ Unconfirmed /\ UNCHANGED delivered /\ Goes(IF At("abandon") THEN "clean" ELSE "abandon")
  /\ UNCHANGED <<state, stopped, liveAnswer, notified, notification, bound, thread, limbo, late>>

-----------------------------------------------------------------------------
(* The end *)

\* Mutant of Disowned: a saved answer whose delivery failed is called unfinished.
DisownedIfShown == live.ts /\ phase # "committed"

\* What cleanup relabels: a known preview of an answer that was neither saved nor finalized.
Disowned == live.ts /\ ~live.saved /\ phase \notin {"finalizing", "committed"}

\* The preview of a failed run is relabelled; errors after the save are only logged.
Clean ==
  /\ At("clean")
  /\ Sealed
  /\ \/ Disowned /\ preview' = "unfinished" /\ Confirmed
     \/ Disowned /\ preview' \in {preview, "unfinished"} /\ Unconfirmed
     \/ ~Disowned /\ UNCHANGED preview /\ NoFault
  /\ Goes(IF state = "committed" THEN "finish" ELSE "notice")
  /\ UNCHANGED <<state, stopped, flight, controls, control, stream, posts, notices, limbo, late>>

\* Mutant of stopNotified: the notice of the stop is not asked about.
StopForgotten == FALSE

stopNotified == notified

\* The error is posted unless a notice of the stop has been sent.
Notice ==
  /\ At("notice")
  /\ \/ stopNotified /\ UNCHANGED notices /\ NoFault
     \/ ~stopNotified /\ notices' = notices + 1 /\ Confirmed
     \/ ~stopNotified /\ notices' \in {notices, notices + 1} /\ Unconfirmed
  /\ Goes("finish")
  /\ UNCHANGED <<state, stopped, liveAnswer, controls, control, preview, stream, posts, limbo, late>>

\* finish: after a delivery the control message is deleted, else it says how the run ended.
Finish ==
  /\ At("finish") /\ ~notification
  /\ LET text == IF state = "committed" THEN "unconfirmed" ELSE "failed" IN
     \/ (~bound \/ notified) /\ UNCHANGED control /\ NoFault /\ Goes("done")
     \/ /\ bound /\ ~notified /\ delivered
        /\ \/ control' = "deleted" /\ Confirmed /\ Goes("done")
           \/ control' \in {control, "deleted"} /\ Unconfirmed /\ Goes("relabel")
     \/ /\ bound /\ ~notified /\ ~delivered
        /\ \/ control' = text /\ Confirmed
           \/ control' \in {control, text} /\ Unconfirmed
        /\ Goes("done")
  /\ UNCHANGED <<state, stopped, liveAnswer, controls, preview, stream, posts, notices, limbo, late>>

\* The deletion was not confirmed: what is left of the message is updated, once.
Relabel ==
  /\ At("relabel")
  /\ \/ control' = (IF control = "deleted" THEN control ELSE "finished") /\ Confirmed
     \/ UNCHANGED control /\ Unconfirmed
  /\ Goes("done")
  /\ UNCHANGED <<state, stopped, liveAnswer, controls, preview, stream, posts, notices, limbo, late>>

Run ==
  \/ Start \/ Generated \/ Seal \/ Commit \/ Save \/ Finalize \/ Update \/ Deliver \/ Post
  \/ StartStream \/ ExtendStream \/ StopStream \/ Clean \/ Notice \/ Finish \/ Relabel

Next == Run \/ Stop \/ NotificationEnds \/ Delta \/ Pump \/ PreviewSettles \/ AppliedLate

\* The model's stream ends by the deadline, requests by their timeouts, the save by the
\* database's.
Fairness == WF_vars(Run) /\ WF_vars(NotificationEnds) /\ WF_vars(PreviewSettles)

Spec == Init /\ [][Next]_vars /\ Fairness

-----------------------------------------------------------------------------
(* Properties *)

Shown == (IF preview = "final" THEN 1 ELSE 0) + (IF stream # "none" THEN 1 ELSE 0) + posts

\* The answer appears once at most, by update, stream or post: a request of unknown outcome
\* is never made up for by another.
OneAnswer == Shown <= 1

\* A saved answer is never called a failure: no notice, no relabelled preview or control.
SavedNeverDenied ==
  live.saved => notices = 0 /\ preview # "unfinished" /\ control \notin {"failed", "stopped"}

\* The control message goes away, or says the request is done, only when the whole answer
\* is there to read.
GoneMeansShown ==
  control \in {"deleted", "finished"} => late \/ preview = "final" \/ stream = "full" \/ posts = 1

\* The final answer is not overwritten by a preview or a relabelling, except by a request
\* that Slack applies after the client has given it up.
FinalStays == [][preview = "final" => preview' = "final" \/ late']_vars

\* Every run ends, and one without faults ends with the answer shown and the control gone,
\* or with one notice of what happened and no preview that passes for an answer.
EndsClearly ==
  <>(/\ main = "done"
     /\ faults = 0 /\ ~limbo /\ ~late =>
          \/ delivered /\ control = "deleted" /\ preview \in {"none", "final"}
          \/ /\ bound => control \in {"failed", "stopped"}
             /\ notices + (IF notified THEN 1 ELSE 0) = 1
             /\ live.ts => preview = "unfinished")
=============================================================================
