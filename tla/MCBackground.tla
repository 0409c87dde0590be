----------------------------- MODULE MCBackground -------------------------------
(***************************************************************************)
(* What the process does beside conversations. The parts share no state    *)
(* but the process: a behaviour follows one of them.                       *)
(***************************************************************************)
EXTENDS RelayCapture, MeetingReminders, ReactionRelay, SlackSearch, RepositorySnapshots

CONSTANTS e1, e2, m1, r1, r2, c1, c2, c3, reads1, reads2

VARIABLE focus

MCEvent == {e1, e2, m1}

Plain == [type |-> "message", channelType |-> "channel", subtype |-> None, eventId |-> "ok",
          team |-> TeamId, app |-> AppId, channel |-> "ok", ts |-> 2, thread |-> None,
          user |-> "U", bot |-> None]

\* Two messages of the workspace, and one of another.
MCBody == [e \in MCEvent |-> IF e = m1 THEN [Plain EXCEPT !.team = "T2"] ELSE Plain]

MCChannels == <<"pm", "design">>

\* Pages of Slack: two that overlap, the last of the two, a match that its own context
\* shows at full length, and a text that differs from the one before.
Hit(k, text) == [key |-> k, role |-> "primary", text |-> text, author |-> Unknown]
Around(k, text) == [key |-> k, role |-> "context", text |-> text, author |-> Unknown]
SlackPage(messages, next) == [messages |-> messages, next |-> next, more |-> FALSE]

MCPages ==
  {SlackPage(<<Hit("k1", "whole"), Around("k2", "whole")>>, 1),
   SlackPage(<<Hit("k2", "whole"), Around("k1", "whole"), Around("k3", "whole")>>, 2),
   SlackPage(<<Hit("k3", "whole")>>, NoCursor),
   SlackPage(<<[Hit("k1", "short") EXCEPT !.author = "U1"], Around("k1", "whole")>>, NoCursor),
   SlackPage(<<Hit("k2", "other")>>, NoCursor)}

MCPrefixOf(text, longer) == text = "short" /\ longer = "whole"

\* Two clones and a reader of one actor, one and one of another.
MCActorOf == [x \in Clone \union Reader |-> IF x \in {c2, reads2} THEN "B" ELSE "A"]

parts == <<captureVars, reminderVars, reactionVars, searchVars, snapshotVars>>
mcVars == <<focus, parts>>

MCInit ==
  /\ focus \in {"capture", "reminders", "reactions", "search", "snapshots"}
  /\ CaptureInit /\ RemindersInit /\ ReactionInit /\ SearchInit /\ SnapshotsInit

MCNext ==
  /\ UNCHANGED focus
  /\ \/ /\ focus = "capture" /\ CaptureNext
        /\ UNCHANGED <<reminderVars, reactionVars, searchVars, snapshotVars>>
     \/ /\ focus = "reminders" /\ RemindersNext
        /\ UNCHANGED <<captureVars, reactionVars, searchVars, snapshotVars>>
     \/ /\ focus = "reactions" /\ ReactionNext
        /\ UNCHANGED <<captureVars, reminderVars, searchVars, snapshotVars>>
     \/ /\ focus = "search" /\ SearchNext
        /\ UNCHANGED <<captureVars, reminderVars, reactionVars, snapshotVars>>
     \/ /\ focus = "snapshots" /\ SnapshotsNext
        /\ UNCHANGED <<captureVars, reminderVars, reactionVars, searchVars>>

Followed(part, step) == focus = part /\ step

\* CaptureFairness, RemindersFairness and SnapshotsFairness, each while its part is followed.
MCFairness ==
  /\ WF_captureVars(Followed("capture", Shutdown))
  /\ \A d \in Delivery : WF_captureVars(Followed("capture", Settling(d)))
  /\ \A p \in Poller : WF_reminderVars(Followed("reminders", PollStep(p)))
  /\ \A r \in Reminder : WF_reminderVars(Followed("reminders", Expire(r)))
  /\ WF_snapshotVars(Followed("snapshots", Minted \/ MintFails))
  /\ \A c \in Clone : WF_snapshotVars(Followed("snapshots", ~ At(c, "idle") /\ CloneStep(c)))

MCSpec == MCInit /\ [][MCNext]_mcVars /\ MCFairness

\* What the process takes up comes to an end: every reminder is acknowledged, and every
\* clone of a repository is kept or given up.
BackgroundSettles ==
  /\ focus = "reminders" => RemindersSettle
  /\ focus = "snapshots" => ClonesEnd

-----------------------------------------------------------------------------
(* Envelopes *)

Envelope ==
  [type : {"message"}, channelType : {"channel", "im"},
   subtype : CAPTURED_SUBTYPES \union {None, "message_changed"}, eventId : {"ok", Invalid},
   team : {TeamId, "T2", None}, app : {AppId, "A2", None}, channel : {"ok"}, ts : {2},
   thread : {None, 1, 2, 3}, user : {"U", None, Invalid}, bot : {"B", None}]

\* What contract.test.ts and Radar ask of the metadata, for every envelope: a parent is
\* older than its reply, a broadcast has one, and only a bot has no user.
ASSUME
  \A b \in Envelope : extractRelayMessage(b) = "capture" =>
    /\ b.team = TeamId /\ b.app = AppId /\ b.channelType = "channel"
    /\ LET m == metadata(b) IN
       /\ m.thread # None => m.thread < m.ts
       /\ m.subtype = "thread_broadcast" => m.thread # None
       /\ m.user = None => m.subtype = "bot_message"

-----------------------------------------------------------------------------
(* Migrations *)

Migrate == INSTANCE Migrations

File(n, s) == [name |-> n, sql |-> s]
\* An image, its successor, one in which an applied file was changed, and one with a file
\* that sorts before others.
Images == {<<File(1, "a"), File(3, "c")>>, <<File(1, "a"), File(3, "c"), File(4, "d")>>,
           <<File(1, "a2"), File(3, "c")>>, <<File(1, "a"), File(2, "b"), File(3, "c")>>}
Ends == [at : 1 .. 4, how : {"failed", "unanswered"}] \union {[at |-> 0, how |-> "failed"]}

\* Over deployments, rollbacks and runs cut short, no statement takes effect twice or
\* unrecorded, a run that reports success has left every file of its image applied as it
\* is there, and a changed file stops the run without effect.
ASSUME
  \A image1, image2, image3 \in Images, end1, end2 \in Ends, end3 \in {[at |-> 0, how |-> "failed"]} :
    LET run1 == Migrate!runMigrations(Migrate!Empty, image1, end1)
        run2 == Migrate!runMigrations(run1.db, image2, end2)
        run3 == Migrate!runMigrations(run2.db, image3, end3)
    IN  /\ \A r \in {run1, run2, run3} : LET db == r.db IN
              /\ \A i, j \in DOMAIN db.effects : db.effects[i].name = db.effects[j].name => i = j
              /\ {[name |-> n, sql |-> db.applied[n]] : n \in DOMAIN db.applied}
                   = {db.effects[i] : i \in DOMAIN db.effects}
        /\ \A p \in {<<run1, image1>>, <<run2, image2>>, <<run3, image3>>} : p[1].status = "done" =>
             \A i \in DOMAIN p[2] : Migrate!Recorded(p[1].db, p[2][i].name) = p[2][i].sql
        /\ SubSeq(run3.db.effects, 1, Len(run2.db.effects)) = run2.db.effects

-----------------------------------------------------------------------------
(* Pages of a repository *)

Repo == INSTANCE RepositoryPages
  WITH pageFiles <- 2, pageLines <- 2, searchFiles <- 2, searchResults <- 2, outputBytes <- 4,
       blobBytes <- 5, skipSize <- 2, NoNext <- None

SeqsUpTo(S, n) == UNION {[1 .. k -> S] : k \in 0 .. n}

\* A line may be larger than a page is; the record of a path is not.
Line == {[size |-> 1, hit |-> FALSE]} \union [size : {1, 3, 5}, hit : {TRUE}]

RepositoryFile ==
  [type : {"file"}, size : {1}, content : {"text"}, lines : SeqsUpTo(Line, 3)]
  \union {[type |-> "link", size |-> 1, content |-> "binary", lines |-> <<>>],
          [type |-> "file", size |-> 6, content |-> "text", lines |-> <<>>],
          [type |-> "file", size |-> 1, content |-> "binary", lines |-> <<>>]}

\* The pages of a listing are all of it, once and in order, each with something new.
ASSUME
  \A entries \in SeqsUpTo([size : {1, 3}], 4) : \A offset \in 0 .. Len(entries) :
    LET page == Repo!list(entries, offset) IN
    IF page.complete THEN page.next = None /\ page.files = SubSeq(entries, offset + 1, Len(entries))
    ELSE page.next > offset /\ page.files = SubSeq(entries, offset + 1, page.next)

\* So are those of a text; only a line larger than a page ends them before the text does,
\* and that is said.
ASSUME
  \A file \in RepositoryFile : \A startLine \in 1 .. Len(file.lines) + 1 :
    LET page == Repo!read(file, startLine)
        rest == SubSeq(file.lines, startLine, Len(file.lines))
    IN  /\ page.complete => page.state = "text" /\ page.lines = rest
        /\ page.next # None => page.next > startLine /\ page.lines = SubSeq(file.lines, startLine, page.next - 1)
        /\ page.next = None /\ ~ page.complete => page.state # "text" /\ page.lines = <<>>

\* Wherever a page of a search ends, for its size, its results, its files or its time, the
\* next one begins with what comes after: nothing is shown twice, nothing is left out.
ASSUME
  \A files \in SeqsUpTo(RepositoryFile, 1) \union SeqsUpTo({f \in RepositoryFile : Len(f.lines) < 3}, 2)
             \union SeqsUpTo({f \in RepositoryFile : Len(f.lines) < 2}, 3) :
    \A i \in DOMAIN files, line \in 1 .. 3, late \in 2 .. 4 : i < late =>
      LET cursor == [fileIndex |-> i, line |-> line]
          page == Repo!search(files, cursor, late)
          rest == Repo!Between(files, cursor, Len(files) + 1)
      IN  IF page.next = None THEN page.items = rest
          ELSE /\ page.next # cursor /\ ~ page.complete
               /\ page.items \o Repo!Between(files, page.next, Len(files) + 1) = rest

-----------------------------------------------------------------------------
(* Pages of the web *)

Web == INSTANCE WebContent
  WITH maxEntries <- 3, totalBytes <- 6, actorEntries <- 2, actorBytes <- 4, NoNext <- None

Fetched == [id : {0}, actor : {"A", "B"}, bytes : {1, 2, 3, 5}, expires : {0}]

\* Each page is put at a time, and stays for four units of it.
PutAll(pages) ==
  FoldLeft(LAMBDA kept, i : Web!put(kept, [pages[i] EXCEPT !.id = i, !.expires = i + 4], i),
           <<>>, [i \in DOMAIN pages |-> i])

\* The store keeps to its quotas, refuses nothing that fits all of them, and lets go of a
\* page before its time only if the process as a whole has no room for the one it takes.
ASSUME
  \A pages \in SeqsUpTo(Fetched, 5) \ {<<>>} :
    LET n == Len(pages)
        before == Web!prune(PutAll(Front(pages)), n)
        after == PutAll(pages)
        new == [pages[n] EXCEPT !.id = n, !.expires = n + 4]
        lost == {i \in DOMAIN before : \A j \in DOMAIN after : after[j].id # before[i].id}
    IN  /\ Len(after) <= 3 /\ Web!Charged(after) <= 6
        /\ \A a \in {"A", "B"} : Len(Web!OfActor(after, a)) <= 2 /\ Web!Charged(Web!OfActor(after, a)) <= 4
        /\ Len(before) < 3 /\ Web!Charged(before) + new.bytes <= 6
             /\ Len(Web!OfActor(before, new.actor)) < 2
             /\ Web!Charged(Web!OfActor(before, new.actor)) + new.bytes <= 4 => after = Append(before, new)
        /\ lost # {} => Last(after) = new /\ (Len(before) >= 3 \/ Web!Charged(before) + new.bytes > 6)

Texts == {FlattenSeq(t) : t \in SeqsUpTo({<<"char">>, <<"high", "low">>}, 4)}

\* Windows and pages of matches are all of a text, once and in order, and part no pair.
ASSUME
  \A text \in Texts : \A offset \in 0 .. Len(text) : Web!validateOffset(text, offset) =>
    /\ \A chars \in 2 .. 4, bytes \in 4 .. 6 :
         LET window == Web!textWindow(text, offset, chars, bytes)
             rest == SubSeq(text, offset + 1, Len(text))
         IN  IF window.next = None THEN window.text = rest
             ELSE /\ window.next > offset /\ Web!validateOffset(text, window.next)
                  /\ window.text \o SubSeq(text, window.next + 1, Len(text)) = rest
    /\ \A literal \in Texts \ {<<>>}, count \in 1 .. 2 :
         LET page == Web!findLiteral(text, literal, offset, count)
             all == Web!Following(text, literal)
         IN  /\ page.matches \o (IF page.next = None THEN <<>> ELSE all[page.next]) = all[offset]
             /\ page.next # None => page.next > offset /\ all[page.next] # <<>>

-----------------------------------------------------------------------------
(* Reactions to the message of an event *)

Intake == INSTANCE EventIntake

Attended == [item : {"message", "file"}, kind : {None, "attending"}, wellFormed : BOOLEAN, eventId : {None, "E1"},
             action : {"added", "removed"}, eventTs : {1, 2}, message : {1}, user : {"U"}, name : {"yes"}]

\* Radar is asked at most twice, both times under one id by which it can tell, and again
\* only while it may not have the reaction; a reaction and its removal are told apart.
ASSUME
  \A r \in Attended, answers \in [1 .. 2 -> {"ok", "rejected", "throttled", "failed", "unanswered"}] :
    LET sent == Intake!Attempts(r, answers) IN
    /\ Len(sent) <= 2
    /\ Len(sent) = 2 => sent[1].id = sent[2].id
    /\ Len(sent) = 1 <=> Intake!Relayed(r) /\ answers[1] \in {"ok", "rejected"}
    /\ Intake!Delivered(sent) <=> \E i \in DOMAIN sent : sent[i].answer = "ok"

ASSUME
  \A r, other \in Attended : r.eventId = None /\ other.eventId = None /\ r.action # other.action =>
    Intake!slackEventId(r) # Intake!slackEventId(other)
=============================================================================
