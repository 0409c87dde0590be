---------------------------- MODULE DialogueContext -----------------------------
(***************************************************************************)
(* What a run gives to the model (services/memory/in-memory.ts,            *)
(* slack/slack-thread-source.ts). A direct message continues the turns of  *)
(* its session, the oldest left out beyond the byte budget; a mention in a *)
(* thread is answered from Slack's own thread, read to its end or not at   *)
(* all, whose older replies become a summary beyond the budget. Bytes are  *)
(* counted in small units; nothing here has state of its own.              *)
(***************************************************************************)
EXTENDS Naturals, Sequences, FiniteSets, FiniteSetsExt, SequencesExt

CONSTANTS contextBytes, recentTurns, Failed

Sum(s) == FoldLeft(LAMBDA total, x : total + x, 0, s)
Keep(s, n) == SubSeq(s, Len(s) - n + 1, Len(s))
Recent(s, n) == IF Len(s) <= n THEN s ELSE Keep(s, n)

-----------------------------------------------------------------------------
(* Turns of a session; a turn is [user, answer] in bytes *)

Bytes(turn) == turn.user + turn.answer

\* How many of the newest fit whole; the first that does not ends the search.
Fitting(sizes, budget) == Max({n \in 0 .. Len(sizes) : Sum(Keep(sizes, n)) <= budget})

\* budgetMessages(), the message itself left out.
budgetMessages(turns, current) ==
  Keep(turns, Fitting([i \in DOMAIN turns |-> Bytes(turns[i])], contextBytes - current))

\* recent(): what a run reads if the cache has nothing.
recent(turns) == Recent(turns, recentTurns)

\* What commit() caches: the messages of the run with its own turn, cut again, and no
\* more than the cache keeps.
cacheAfter(history, turn) ==
  Recent(budgetMessages(Append(budgetMessages(history, turn.user), turn), 0), recentTurns)

-----------------------------------------------------------------------------
(* A thread of Slack; a message is [ts, body, user, control, size] *)

Thread(pages) == UNION {ToSet(pages[i].messages) : i \in DOMAIN pages}

\* readSlackThread(): the pages in order, as Slack answers them. A message twice must be
\* the same, a cursor may not come back, the last page may not say that there is more.
Complete(pages) ==
  /\ pages # <<>> /\ \A i \in DOMAIN pages : pages[i].messages # <<>>
  /\ \A m, n \in Thread(pages) : m.ts = n.ts => m = n
  /\ \A i, j \in 1 .. Len(pages) - 1 : pages[i].next = pages[j].next => i = j
  /\ ~ Last(pages).more

\* The root and the mention are there, and as many replies as the root counts.
Mentioned(pages, mention) ==
  /\ \E m \in Thread(pages) : m.ts = mention.ts /\ m.user = mention.user
  /\ \E root \in Thread(pages) :
       root.ts = mention.threadTs /\ root.replies = Cardinality({m.ts : m \in Thread(pages)}) - 1

\* What was said up to the mention, without the bot's own controls and previews.
readSlackThread(pages, mention) ==
  IF Complete(pages) /\ Mentioned(pages, mention)
  THEN SetToSortSeq({m \in Thread(pages) : m.ts <= mention.ts /\ ~ m.control}, LAMBDA m, n : m.ts < n.ts)
  ELSE Failed

-----------------------------------------------------------------------------
(* A thread within the budget; the summaries cover the replies they were made of *)

CONSTANTS
  summaryBudget,  \* what a summary may take
  envelope,       \* what is kept free for the notice around it
  largestReply    \* a reply that is summarised may not be larger

Input(state, chunk) == (IF state.covers = <<>> THEN 0 ELSE state.size) + Sum([i \in DOMAIN chunk |-> chunk[i].size])

\* summarizeChunk(): the summary so far and the chunk become one summary.
summarizeChunk(state, summarySize) ==
  IF Input(state, state.chunk) > contextBytes \/ summarySize = 0 \/ summarySize > summaryBudget
  THEN [state EXCEPT !.failed = TRUE]
  ELSE [state EXCEPT !.covers = @ \o state.chunk, !.size = summarySize, !.chunk = <<>>]

\* One older reply: it joins the chunk, before which a full chunk is summarised.
AddReply(state, message, summarySize) ==
  LET full == Input(state, Append(state.chunk, message)) > contextBytes
      room == IF full /\ state.chunk # <<>> THEN summarizeChunk(state, summarySize) ELSE state
  IN  IF state.failed \/ message.size > largestReply \/ (full /\ state.chunk = <<>>) \/ room.failed
      THEN [state EXCEPT !.failed = TRUE]
      ELSE [room EXCEPT !.chunk = Append(@, message)]

Summarised(older, summarySize) ==
  LET start == [covers |-> <<>>, size |-> 0, chunk |-> <<>>, failed |-> FALSE]
      end == FoldLeft(LAMBDA state, m : AddReply(state, m, summarySize), start, older)
  IN  IF end.failed \/ end.chunk = <<>> THEN end ELSE summarizeChunk(end, summarySize)

\* budgetSlackThread(): all of it if it fits; else the root, a summary of the older
\* replies and the newest ones, the mention among them.
budgetSlackThread(messages, summarySize) ==
  LET sizes == [i \in DOMAIN messages |-> messages[i].size]
      free == contextBytes - sizes[1] - summaryBudget - envelope
      count == IF contextBytes < sizes[1] + summaryBudget + envelope THEN 0
               ELSE Fitting(Tail(sizes), free)
      older == SubSeq(messages, 2, Len(messages) - count)
      summary == Summarised(older, summarySize)
  IN  IF Len(messages) < 2 THEN Failed
      ELSE IF Sum(sizes) <= contextBytes THEN [root |-> messages[1], summary |-> <<>>, size |-> 0, recent |-> Tail(messages)]
      ELSE IF \/ count = 0 \/ older = <<>> \/ summary.failed
              \/ sizes[1] + summary.size + envelope + Sum(Keep(sizes, count)) > contextBytes
      THEN Failed
      ELSE [root |-> messages[1], summary |-> summary.covers, size |-> summary.size + envelope,
            recent |-> Keep(messages, count)]
=============================================================================
