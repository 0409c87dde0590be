-------------------------------- MODULE MCAnswer --------------------------------
(* The answer of one request, and what the model was given for it. *)
EXTENDS Answer, Sequences, FiniteSets, SequencesExt, TLC

CONSTANT Failed

Context == INSTANCE DialogueContext
  WITH contextBytes <- 7, recentTurns <- 3, summaryBudget <- 1, envelope <- 1, largestReply <- 4,
       Failed <- Failed

SeqsUpTo(S, n) == UNION {[1 .. k -> S] : k \in 0 .. n}

-----------------------------------------------------------------------------
(* A session: a history cut to the bytes of one message is the cache of the next. *)

Turn == {[user |-> u, answer |-> a] : u \in {1, 2}, a \in {1, 3, 7}}

\* Whether a run continues from the cache, filled by any of the runs before it, or from
\* the database, the model sees the same turns (conversation-runtime.ts:67, in-memory.ts:43).
ASSUME
  \A turns \in SeqsUpTo(Turn, 4), current \in {1, 2} : \A i \in 0 .. Len(turns) :
    LET cache == Context!FoldLeft(Context!cacheAfter, Context!recent(SubSeq(turns, 1, i)),
                                  SubSeq(turns, i + 1, Len(turns)))
    IN  Context!budgetMessages(cache, current) = Context!budgetMessages(Context!recent(turns), current)

-----------------------------------------------------------------------------
(* A thread *)

Reply(ts, body) == [ts |-> ts, body |-> body, user |-> "U", control |-> FALSE, replies |-> 0]
Root(n) == [ts |-> 1, body |-> "a", user |-> "V", control |-> FALSE, replies |-> n]

\* A root that counts one reply or two, a reply before the mention and its edited form,
\* the mention, the bot's control message and a reply that came later.
Message == {Root(1), Root(2), Reply(2, "a"), Reply(2, "b"), Reply(3, "a"),
            [Reply(3, "a") EXCEPT !.control = TRUE, !.ts = 4], Reply(5, "a")}

Page == [messages : SeqsUpTo(Message, 2) \ {<<>>}, next : {1}, more : BOOLEAN]

\* A thread is read whole or not at all: the dialogue ends with the mention, has every
\* reply the root counts but later ones and the bot's own, each once and in order.
ASSUME
  \A first, second \in Page :
    LET pages == <<first, second>>
        shown == Context!Thread(pages)
        read == Context!readSlackThread(pages, [threadTs |-> 1, ts |-> 3, user |-> "U"])
    IN  read # Failed =>
          /\ ~ second.more /\ read[1].ts = 1 /\ read[Len(read)].ts = 3
          /\ Cardinality(shown) = read[1].replies + 1
          /\ \A i, j \in DOMAIN read : i < j => read[i].ts < read[j].ts
          /\ \A m \in shown : (\E i \in DOMAIN read : read[i] = m) <=> (m.ts <= 3 /\ ~ m.control)

Sized == UNION {[1 .. n -> 1 .. 5] : n \in 1 .. 5}

\* Within the budget a thread loses nothing: the root and the newest replies stay as they
\* are, and the summary covers all the others, once and in order. What fits is not cut.
ASSUME
  \A sizes \in Sized, summarySize \in 0 .. 2 :
    LET messages == [i \in DOMAIN sizes |-> [ts |-> i, size |-> sizes[i]]]
        cut == Context!budgetSlackThread(messages, summarySize)
    IN  IF cut = Failed THEN Len(sizes) < 2 \/ Context!Sum(sizes) > 7
        ELSE /\ cut.root = messages[1] /\ cut.recent # <<>>
             /\ cut.summary \o cut.recent = Tail(messages)
             /\ Context!Sum([i \in DOMAIN cut.recent |-> cut.recent[i].size]) + sizes[1] + cut.size <= 7

-----------------------------------------------------------------------------
(* The blocks of an answer *)

Blocks == INSTANCE AnswerBlocks WITH SectionLimit <- 6, Fences <- 2, MaxBlocks <- 4

Line == [kind : {"fence", "divider", "header", "blank", "separator"}, size : {0}, cells : {2}, grown : {0}]
        \union [kind : {"row"}, size : {3}, cells : {2, 3}, grown : {0}]
        \union [kind : {"text"}, size : {2, 7}, cells : {2}, grown : {0}]
        \union [kind : {"text"}, size : {3}, cells : {2}, grown : {1}]

Numbered(lines) == [i \in DOMAIN lines |-> [at |-> i] @@ lines[i]]

\* What of an answer is to be seen: code, but for a fence; headings and text; the rows of
\* a table, the first of which is its header.
InCode(answer, i) == Cardinality({j \in 1 .. i - 1 : answer[j].kind = "fence"}) % 2 = 1
IsRow(answer, i) == i \in DOMAIN answer /\ ~ InCode(answer, i) /\ answer[i].kind \in {"row", "separator"}
ToBeSeen(answer, i) ==
  \/ InCode(answer, i) /\ answer[i].kind \notin {"fence", "blank"}
  \/ ~ InCode(answer, i) /\ answer[i].kind \in {"header", "heading3", "text"}
  \/ IsRow(answer, i) /\ IsRow(answer, i - 1) /\ answer[i].kind = "row"

\* Every line that is to be seen is, once and in order, or a notice says that lines are
\* left out; a message keeps its buttons and Slack's limits, but for one line too long for
\* a section and for lines that grew after they were split.
ASSUME
  \A lines \in SeqsUpTo(Line, 5) :
    LET answer == Numbered(lines)
        blocks == Blocks!convertMarkdownToBlocks(answer)
        shown == FlattenSeq([i \in DOMAIN blocks |->
          SelectSeq(blocks[i].lines, LAMBDA line : line.kind \notin {"rest", "blank"} /\ blocks[i].what # "divider")])
        places == [i \in DOMAIN shown |-> shown[i].at]
        seen == SetToSortSeq({i \in DOMAIN answer : ToBeSeen(answer, i)}, <)
    IN  /\ Len(blocks) <= 4 /\ Last(blocks).what = "feedback"
        /\ IF \E i \in DOMAIN blocks : blocks[i].what = "notice" THEN IsPrefix(places, seen) ELSE places = seen
        /\ \A i \in DOMAIN blocks : blocks[i].what = "section" =>
             \/ blocks[i].size <= 6
             \/ Len(blocks[i].lines) = 1
             \/ \E j \in DOMAIN blocks[i].lines : blocks[i].lines[j].grown > 0

-----------------------------------------------------------------------------
(* The events that become requests *)

CONSTANT None
Intake == INSTANCE EventIntake

Sent == [user : {"U", None}, bot : BOOLEAN, subtype : {None, "edited"}, channel : {"C", "D"},
         ts : {1, 2}, threadTs : {None, 1, 2}, text : BOOLEAN, files : BOOLEAN]

\* A message as a subscription delivers it: Slack sends a mention in a channel to both.
Event(m, kind, id) ==
  [kind |-> kind, eventId |-> id, channelType |-> IF m.channel = "D" THEN "im" ELSE "channel",
   direct |-> m.channel = "D", envelopeTeam |-> "T", team |-> None] @@ m

\* Of a message in a channel only its mention is taken, of a direct one the message itself.
\* Sent again it is the same request, two messages never are, and a thread is one session
\* from its root on.
ASSUME
  \A m \in Sent : LET direct == Event(m, "message", "E1")
                      mention == Event(m, "app_mention", "E2")
                  IN
    /\ m.channel = "C" => ~ Intake!Accepted(direct)
    /\ Intake!Accepted(mention) <=> ~ m.bot /\ m.subtype = None /\ m.user # None
    /\ Intake!Accepted(direct) => Intake!AnsweredFrom(direct) = "session"
    /\ \A kind \in {"message", "app_mention"}, other \in Sent :
         /\ Intake!requestId(Event(m, kind, None)) = Intake!requestId(Event(other, kind, None))
              <=> <<m.channel, m.ts, m.user>> = <<other.channel, other.ts, other.user>>
         /\ m.channel = other.channel /\ other.threadTs = m.ts /\ m.threadTs = None =>
              Intake!sessionId(Event(m, kind, "E1")) = Intake!sessionId(Event(other, kind, "E2"))
=============================================================================
