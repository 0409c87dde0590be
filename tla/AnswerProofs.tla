------------------------------ MODULE AnswerProofs ------------------------------
(***************************************************************************)
(* The answer of a request, for any number of faults and preview requests: *)
(* it appears once, a saved one is never denied, the control message goes  *)
(* away only for an answer that is there, and a final one is not           *)
(* overwritten.                                                            *)
(***************************************************************************)
EXTENDS Answer, TLAPS

------------------------------------------------------------------------------
(* The invariant *)

\* Where the run can be, and the phases of it.
Pcs == {"start", "generate", "seal", "commit", "save", "finalize", "update", "deliver", "post",
        "startStream", "append", "stopStream", "abandon", "clean", "notice", "finish", "relabel", "done"}
LiveType == [ts : BOOLEAN, attempted : BOOLEAN, fallbackSafe : BOOLEAN, frozen : BOOLEAN,
         pending : BOOLEAN, calls : Nat, saved : BOOLEAN]
\* What the variables hold, as far as the invariants need it.
Types ==
  /\ main \in Pcs
  /\ state \in {"running", "committing", "committed"}
  /\ phase \in {"preview", "sealed", "finalizing", "committed"} /\ flight \in {"none", "sent"}
  /\ live \in LiveType
  /\ control \in {"none", "working", "stopped", "deleted", "unconfirmed", "failed", "finished"}
  /\ preview \in {"none", "partial", "final", "unfinished"} /\ stream \in {"none", "part", "full"}
  /\ posts \in Nat /\ notices \in Nat
\* The run before its answer is delivered, while it is, and after.
Trying == {"start", "generate", "seal", "commit", "save", "finalize"}
Answering == {"update", "deliver", "post", "startStream"}
Streaming == {"append", "stopStream", "abandon"}
Ending == {"clean", "notice", "finish", "relabel", "done"}
\* At most one way of showing the answer is taken, and none before its turn.
Shows ==
  /\ Shown <= 1
  /\ main \in Trying \cup Answering => Shown = 0
  /\ main \in Streaming => preview # "final" /\ posts = 0
  /\ main = "stopStream" => stream = "full"

\* No preview request is under way once the preview is sealed; a final preview is known as such.
Previews ==
  /\ phase # "preview" => flight = "none"
  /\ main \in {"commit", "save", "finalize"} \cup Answering \cup Streaming => phase # "preview"
  /\ main = "update" => phase = "finalizing"
  /\ preview = "final" => phase \in {"finalizing", "committed"}

\* A stop that is notified came before the commit, and what is saved is never called a failure.
Verdicts ==
  /\ state = "committing" <=> main = "save"
  /\ main \in Trying \ {"save", "finalize"} => state = "running"
  /\ live.saved <=> state = "committed"
  /\ notification => notified
  /\ notified => stopped /\ state = "running"
  /\ control = "stopped" => notified
  /\ main \in {"finalize"} \cup Answering \cup Streaming => state = "committed"
  /\ main = "notice" => state # "committed"
  /\ main \in Trying => notices = 0 /\ preview # "unfinished" /\ control \in {"none", "working", "stopped"}
  /\ live.saved => notices = 0 /\ preview # "unfinished" /\ control # "failed"

\* What is marked as delivered is there to read, and only then does the control message go.
Deliveries ==
  /\ delivered => main \in Ending
  /\ delivered => late \/ preview = "final" \/ stream = "full" \/ posts = 1
  /\ main = "relabel" => delivered
  /\ control \in {"deleted", "finished"} => delivered /\ main \in {"relabel", "done"}

AInv == Types /\ Shows /\ Previews /\ Verdicts /\ Deliveries

\* The fields of the live answer stay what they are.
LEMMA LiveIsLive ==
  ASSUME NEW l \in LiveType
  PROVE  /\ [l EXCEPT !.pending = TRUE] \in LiveType
         /\ [l EXCEPT !.pending = FALSE] \in LiveType
         /\ [l EXCEPT !.pending = FALSE, !.frozen = TRUE] \in LiveType
         /\ [l EXCEPT !.frozen = TRUE, !.pending = FALSE] \in LiveType
         /\ \A ts \in {l.ts, TRUE} : [l EXCEPT !.ts = ts] \in LiveType
         /\ [l EXCEPT !.fallbackSafe = TRUE] \in LiveType
         /\ [l EXCEPT !.saved = TRUE] \in LiveType
         /\ [l EXCEPT !.pending = FALSE, !.attempted = TRUE, !.calls = @ + 1] \in LiveType
<1>1. l.calls + 1 \in Nat
  BY DEF LiveType
<1>2. [l EXCEPT !.pending = FALSE, !.attempted = TRUE, !.calls = @ + 1] \in LiveType
  BY <1>1, Zenon DEF LiveType
<1>3. l.ts \in BOOLEAN
  BY Zenon DEF LiveType
<1>4. ASSUME NEW ts \in BOOLEAN  PROVE [l EXCEPT !.ts = ts] \in LiveType
  BY Zenon DEF LiveType
<1>5. \A ts \in {l.ts, TRUE} : [l EXCEPT !.ts = ts] \in LiveType
  BY <1>3, <1>4, Zenon
<1> QED BY <1>2, <1>5, Zenon DEF LiveType

\* Every step keeps the types.
LEMMA TypesKept ==
  ASSUME Types, [Next]_vars
  PROVE  Types'
<1> USE DEF liveAnswer, controls, thread, Fault, NoFault, Confirmed, Unconfirmed, CutShort, At, Goes
<1> USE DEF Types, Pcs
<1>1. CASE Start
  BY <1>1 DEF Start
<1>2. CASE Generated
  BY <1>2 DEF Generated
<1>3. CASE Seal
  <2>1. live' \in LiveType
    BY <1>3, LiveIsLive DEF Seal, Sealed
  <2> QED BY <1>3, <2>1 DEF Seal, Sealed
<1>4. CASE Commit
  BY <1>4 DEF Commit
<1>5. CASE Save
  <2>1. live' \in LiveType
    BY <1>5, LiveIsLive DEF Save
  <2> QED BY <1>5, <2>1 DEF Save
<1>6. CASE Finalize
  BY <1>6 DEF Finalize
<1>7. CASE Update
  BY <1>7 DEF Update
<1>8. CASE Deliver
  BY <1>8 DEF Deliver
<1>9. CASE Post
  BY <1>9 DEF Post
<1>10. CASE StartStream
  BY <1>10 DEF StartStream, StartFails
<1>11. CASE ExtendStream
  BY <1>11 DEF ExtendStream, AppendFails
<1>12. CASE StopStream
  BY <1>12 DEF StopStream
<1>13. CASE Clean
  <2>1. live' \in LiveType
    BY <1>13, LiveIsLive DEF Clean, Sealed
  <2> QED BY <1>13, <2>1 DEF Clean, Sealed, Disowned
<1>14. CASE Notice
  BY <1>14 DEF Notice, stopNotified
<1>15. CASE Finish
  BY <1>15 DEF Finish
<1>16. CASE Relabel
  BY <1>16 DEF Relabel
<1>17. CASE Stop
  BY <1>17 DEF Stop, OnAbort
<1>18. CASE NotificationEnds
  BY <1>18 DEF NotificationEnds
<1>19. CASE Delta
  <2>1. live' \in LiveType
    BY <1>19, LiveIsLive DEF Delta
  <2> QED BY <1>19, <2>1 DEF Delta
<1>20. CASE Pump
  <2>1. live' \in LiveType
    BY <1>20, LiveIsLive DEF Pump
  <2> QED BY <1>20, <2>1 DEF Pump
<1>21. CASE PreviewSettles
  <2>1. ASSUME NEW l \in LiveType  PROVE Frozen(l) \in LiveType
    BY LiveIsLive DEF Frozen
  <2>2. \/ live' = [live EXCEPT !.ts = TRUE]
        \/ \E ts \in {live.ts, TRUE} : live' = Frozen([live EXCEPT !.ts = ts])
        \/ live' = Frozen(live) \/ live' = Frozen([live EXCEPT !.fallbackSafe = TRUE])
    BY <1>21, Zenon DEF PreviewSettles
  <2>3. live' \in LiveType
    BY <2>1, <2>2, LiveIsLive
  <2>4. flight' = "none" /\ preview' \in {preview, "partial"}
    BY <1>21 DEF PreviewSettles
  <2>5. UNCHANGED <<main, state, phase, control, stream, posts, notices>>
    BY <1>21 DEF PreviewSettles
  <2> QED BY <2>3, <2>4, <2>5
<1>22. CASE AppliedLate
  BY <1>22 DEF AppliedLate
<1>23. CASE UNCHANGED vars
  BY <1>23 DEF vars
<1> QED BY <1>1, <1>2, <1>3, <1>4, <1>5, <1>6, <1>7, <1>8, <1>9, <1>10, <1>11, <1>12,
         <1>13, <1>14, <1>15, <1>16, <1>17, <1>18, <1>19, <1>20, <1>21, <1>22, <1>23
         DEF Next, Run

\* Every step keeps the ways of showing the answer apart.
LEMMA ShowsKept ==
  ASSUME Types, Shows, Previews, [Next]_vars
  PROVE  Shows'
<1> USE DEF liveAnswer, controls, thread, Fault, NoFault, Confirmed, Unconfirmed, CutShort, At, Goes
<1> USE DEF Types, Shows, Previews, Shown, Pcs, LiveType, Trying, Answering, Streaming
<1>1. CASE Start
  BY <1>1 DEF Start
<1>2. CASE Generated
  BY <1>2 DEF Generated
<1>3. CASE Seal
  BY <1>3 DEF Seal, Sealed
<1>4. CASE Commit
  BY <1>4 DEF Commit
<1>5. CASE Save
  BY <1>5 DEF Save
<1>6. CASE Finalize
  BY <1>6 DEF Finalize
<1>7. CASE Update
  BY <1>7 DEF Update
<1>8. CASE Deliver
  BY <1>8 DEF Deliver
<1>9. CASE Post
  BY <1>9 DEF Post
<1>10. CASE StartStream
  BY <1>10 DEF StartStream, StartFails
<1>11. CASE ExtendStream
  BY <1>11 DEF ExtendStream, AppendFails
<1>12. CASE StopStream
  BY <1>12 DEF StopStream
<1>13. CASE Clean
  BY <1>13 DEF Clean, Sealed, Disowned
<1>14. CASE Notice
  BY <1>14 DEF Notice, stopNotified
<1>15. CASE Finish
  BY <1>15 DEF Finish
<1>16. CASE Relabel
  BY <1>16 DEF Relabel
<1>17. CASE Stop
  BY <1>17 DEF Stop, OnAbort
<1>18. CASE NotificationEnds
  BY <1>18 DEF NotificationEnds
<1>19. CASE Delta
  BY <1>19 DEF Delta
<1>20. CASE Pump
  BY <1>20 DEF Pump
<1>21. CASE PreviewSettles
  BY <1>21 DEF PreviewSettles, Frozen
<1>22. CASE AppliedLate
  BY <1>22 DEF AppliedLate
<1>23. CASE UNCHANGED vars
  BY <1>23 DEF vars
<1> QED BY <1>1, <1>2, <1>3, <1>4, <1>5, <1>6, <1>7, <1>8, <1>9, <1>10, <1>11, <1>12,
         <1>13, <1>14, <1>15, <1>16, <1>17, <1>18, <1>19, <1>20, <1>21, <1>22, <1>23
         DEF Next, Run

\* Every step keeps previews from starting after the seal.
LEMMA PreviewsKept ==
  ASSUME Types, Shows, Previews, [Next]_vars
  PROVE  Previews'
<1> USE DEF liveAnswer, controls, thread, Fault, NoFault, Confirmed, Unconfirmed, CutShort, At, Goes
<1> USE DEF Types, Shows, Previews, Shown, Pcs, LiveType, Trying, Answering, Streaming
<1>1. CASE Start
  BY <1>1 DEF Start
<1>2. CASE Generated
  BY <1>2 DEF Generated
<1>3. CASE Seal
  BY <1>3 DEF Seal, Sealed
<1>4. CASE Commit
  BY <1>4 DEF Commit
<1>5. CASE Save
  BY <1>5 DEF Save
<1>6. CASE Finalize
  BY <1>6 DEF Finalize
<1>7. CASE Update
  BY <1>7 DEF Update
<1>8. CASE Deliver
  BY <1>8 DEF Deliver
<1>9. CASE Post
  BY <1>9 DEF Post
<1>10. CASE StartStream
  BY <1>10 DEF StartStream, StartFails
<1>11. CASE ExtendStream
  BY <1>11 DEF ExtendStream, AppendFails
<1>12. CASE StopStream
  BY <1>12 DEF StopStream
<1>13. CASE Clean
  BY <1>13 DEF Clean, Sealed, Disowned
<1>14. CASE Notice
  BY <1>14 DEF Notice, stopNotified
<1>15. CASE Finish
  BY <1>15 DEF Finish
<1>16. CASE Relabel
  BY <1>16 DEF Relabel
<1>17. CASE Stop
  BY <1>17 DEF Stop, OnAbort
<1>18. CASE NotificationEnds
  BY <1>18 DEF NotificationEnds
<1>19. CASE Delta
  BY <1>19 DEF Delta
<1>20. CASE Pump
  BY <1>20 DEF Pump
<1>21. CASE PreviewSettles
  BY <1>21 DEF PreviewSettles, Frozen
<1>22. CASE AppliedLate
  BY <1>22 DEF AppliedLate
<1>23. CASE UNCHANGED vars
  BY <1>23 DEF vars
<1> QED BY <1>1, <1>2, <1>3, <1>4, <1>5, <1>6, <1>7, <1>8, <1>9, <1>10, <1>11, <1>12,
         <1>13, <1>14, <1>15, <1>16, <1>17, <1>18, <1>19, <1>20, <1>21, <1>22, <1>23
         DEF Next, Run

\* Every step keeps the verdict of the run and what the user is told together.
LEMMA VerdictsKept ==
  ASSUME Types, Verdicts, [Next]_vars
  PROVE  Verdicts'
<1> USE DEF liveAnswer, controls, thread, Fault, NoFault, Confirmed, Unconfirmed, CutShort, At, Goes
<1> USE DEF Types, Verdicts, Pcs, LiveType, Trying, Answering, Streaming
<1>1. CASE Start
  BY <1>1 DEF Start
<1>2. CASE Generated
  BY <1>2 DEF Generated
<1>3. CASE Seal
  BY <1>3 DEF Seal, Sealed
<1>4. CASE Commit
  BY <1>4 DEF Commit
<1>5. CASE Save
  <2>1. state = "committing" /\ ~live.saved /\ ~notified /\ ~notification
    BY <1>5 DEF Save
  <2>2. /\ UNCHANGED <<control, preview, notices, notified, notification>>
        /\ main = "save"
    BY <1>5 DEF Save
  <2>3. CASE state' = "committed" /\ live' = [live EXCEPT !.saved = TRUE] /\ main' = "finalize"
    <3>1. live'.saved
      BY <2>3, Zenon DEF LiveType, Types
    <3> QED BY <2>1, <2>2, <2>3, <3>1
  <2>4. CASE state' = "running" /\ live' = live /\ main' = "clean"
    BY <2>1, <2>2, <2>4
  <2> QED BY <1>5, <2>3, <2>4 DEF Save
<1>6. CASE Finalize
  BY <1>6 DEF Finalize
<1>7. CASE Update
  BY <1>7 DEF Update
<1>8. CASE Deliver
  BY <1>8 DEF Deliver
<1>9. CASE Post
  BY <1>9 DEF Post
<1>10. CASE StartStream
  BY <1>10 DEF StartStream, StartFails
<1>11. CASE ExtendStream
  BY <1>11 DEF ExtendStream, AppendFails
<1>12. CASE StopStream
  BY <1>12 DEF StopStream
<1>13. CASE Clean
  BY <1>13 DEF Clean, Sealed, Disowned
<1>14. CASE Notice
  BY <1>14 DEF Notice, stopNotified
<1>15. CASE Finish
  BY <1>15 DEF Finish
<1>16. CASE Relabel
  BY <1>16 DEF Relabel
<1>17. CASE Stop
  BY <1>17 DEF Stop, OnAbort
<1>18. CASE NotificationEnds
  BY <1>18 DEF NotificationEnds
<1>19. CASE Delta
  BY <1>19 DEF Delta
<1>20. CASE Pump
  BY <1>20 DEF Pump
<1>21. CASE PreviewSettles
  BY <1>21 DEF PreviewSettles, Frozen
<1>22. CASE AppliedLate
  BY <1>22 DEF AppliedLate
<1>23. CASE UNCHANGED vars
  BY <1>23 DEF vars
<1> QED BY <1>1, <1>2, <1>3, <1>4, <1>5, <1>6, <1>7, <1>8, <1>9, <1>10, <1>11, <1>12,
         <1>13, <1>14, <1>15, <1>16, <1>17, <1>18, <1>19, <1>20, <1>21, <1>22, <1>23
         DEF Next, Run

\* Every step keeps what is marked as delivered in view.
LEMMA DeliveriesKept ==
  ASSUME Types, Shows, Previews, Verdicts, Deliveries, [Next]_vars
  PROVE  Deliveries'
<1> USE DEF liveAnswer, controls, thread, Fault, NoFault, Confirmed, Unconfirmed, CutShort, At, Goes
<1> USE DEF Types, Shows, Shown, Verdicts, Previews, Deliveries, Pcs, LiveType, Trying, Answering, Streaming, Ending
<1>1. CASE Start
  BY <1>1 DEF Start
<1>2. CASE Generated
  BY <1>2 DEF Generated
<1>3. CASE Seal
  BY <1>3 DEF Seal, Sealed
<1>4. CASE Commit
  BY <1>4 DEF Commit
<1>5. CASE Save
  BY <1>5 DEF Save
<1>6. CASE Finalize
  BY <1>6 DEF Finalize
<1>7. CASE Update
  BY <1>7 DEF Update
<1>8. CASE Deliver
  BY <1>8 DEF Deliver
<1>9. CASE Post
  BY <1>9 DEF Post
<1>10. CASE StartStream
  BY <1>10 DEF StartStream, StartFails
<1>11. CASE ExtendStream
  BY <1>11 DEF ExtendStream, AppendFails
<1>12. CASE StopStream
  <2>1. /\ UNCHANGED <<control, preview, stream, posts, late>>
        /\ main \in {"stopStream", "abandon"} /\ main' \in {"clean", "abandon"}
    BY <1>12 DEF StopStream
  <2>2. ~delivered
    BY <2>1
  <2>3. delivered' => main = "stopStream" /\ main' = "clean"
    BY <1>12, <2>2, Zenon DEF StopStream
  <2> QED BY <2>1, <2>2, <2>3
<1>13. CASE Clean
  BY <1>13 DEF Clean, Sealed, Disowned
<1>14. CASE Notice
  BY <1>14 DEF Notice, stopNotified
<1>15. CASE Finish
  BY <1>15 DEF Finish
<1>16. CASE Relabel
  BY <1>16 DEF Relabel
<1>17. CASE Stop
  BY <1>17 DEF Stop, OnAbort
<1>18. CASE NotificationEnds
  BY <1>18 DEF NotificationEnds
<1>19. CASE Delta
  BY <1>19 DEF Delta
<1>20. CASE Pump
  BY <1>20 DEF Pump
<1>21. CASE PreviewSettles
  BY <1>21 DEF PreviewSettles, Frozen
<1>22. CASE AppliedLate
  BY <1>22 DEF AppliedLate
<1>23. CASE UNCHANGED vars
  BY <1>23 DEF vars
<1> QED BY <1>1, <1>2, <1>3, <1>4, <1>5, <1>6, <1>7, <1>8, <1>9, <1>10, <1>11, <1>12,
         <1>13, <1>14, <1>15, <1>16, <1>17, <1>18, <1>19, <1>20, <1>21, <1>22, <1>23
         DEF Next, Run

------------------------------------------------------------------------------
(* The theorems *)

\* A run that begins has shown nothing.
LEMMA InitAInv == Init => AInv
<1> SUFFICES ASSUME Init PROVE AInv
  OBVIOUS
<1>1. live \in LiveType
  BY Zenon DEF Init, LiveType
<1>2. Types
  BY <1>1 DEF Init, Types, Pcs
<1>3. ~live.saved
  BY DEF Init
<1>4. Shows /\ Previews /\ Deliveries
  BY DEF Init, Shows, Shown, Previews, Deliveries, Trying, Answering, Streaming
<1>5. Verdicts
  BY <1>3 DEF Init, Verdicts, Trying, Answering, Streaming
<1> QED BY <1>2, <1>4, <1>5 DEF AInv

\* The invariant is inductive.
LEMMA AnswerInvariant == Spec => []AInv
<1>1. AInv /\ [Next]_vars => AInv'
  BY TypesKept, ShowsKept, PreviewsKept, VerdictsKept, DeliveriesKept DEF AInv
<1> QED BY <1>1, InitAInv, PTL DEF Spec

\* The answer appears once at most, whichever requests of its delivery fail, are lost or
\* are applied without an answer (live-answer.ts finalize, final-delivery.ts).
THEOREM AnsweredOnce == Spec => []OneAnswer
<1>1. AInv => OneAnswer
  BY DEF AInv, Shows, OneAnswer
<1> QED BY <1>1, AnswerInvariant, PTL

\* A saved answer is never called a failure, by a notice, a relabelled preview or the
\* control message, even if the run is stopped while it is saved or delivered.
THEOREM SavedIsNeverDenied == Spec => []SavedNeverDenied
<1>1. AInv => SavedNeverDenied
  BY DEF AInv, Verdicts, SavedNeverDenied
<1> QED BY <1>1, AnswerInvariant, PTL

\* The control message is deleted, or says that the request is done, only when the whole
\* answer is there to read.
THEOREM GoneIsShown == Spec => []GoneMeansShown
<1>1. AInv => GoneMeansShown
  BY DEF AInv, Deliveries, GoneMeansShown
<1> QED BY <1>1, AnswerInvariant, PTL

\* Only a request that Slack applies late overwrites the final answer: no preview is under
\* way when it is written, and cleanup leaves it alone.
THEOREM FinalIsKept == Spec => FinalStays
<1>1. AInv /\ [Next]_vars => (preview = "final" => preview' = "final" \/ late')
  <2> SUFFICES ASSUME AInv, [Next]_vars, preview = "final"
               PROVE  preview' = "final" \/ late'
    OBVIOUS
  <2>1. flight = "none" /\ ~Disowned
    BY DEF AInv, Previews, Disowned
  <2> QED BY <2>1 DEF Next, Run, vars, liveAnswer, controls, thread, Start, Generated, Seal, Commit,
        Save, Finalize, Update, Deliver, Post, StartStream, ExtendStream, StopStream, Clean, Notice,
        Finish, Relabel, Stop, NotificationEnds, Delta, Pump, PreviewSettles, AppliedLate, At
<1> QED BY <1>1, AnswerInvariant, PTL DEF Spec, FinalStays
=============================================================================
