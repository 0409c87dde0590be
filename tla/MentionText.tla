------------------------------- MODULE MentionText ------------------------------
(***************************************************************************)
(* How a message is rewritten (slack/mention-groups/parser.ts): handles of *)
(* groups in plain text become their members, and everything else stays.   *)
(* A text is a sequence of tokens: a handle, a backtick, the brackets of a *)
(* Slack entity, a character of a word, an e-mail or URL, anything else.   *)
(***************************************************************************)
EXTENDS Naturals, Sequences, FiniteSets, FiniteSetsExt, SequencesExt

CONSTANTS
  Handle,         \* handles, with their "@"
  byHandle,       \* the catalog: a partial function from handles to groups
  members         \* [group -> set of members]

Tick == "tick"      \* a backtick
Open == "open"
Close == "close"
Word == "word"      \* a letter, digit, underscore or hyphen
Address == "address" \* an e-mail address or a URL
At == "at"
Other == "other"

Token == Handle \union {Tick, Open, Close, Word, Address, At, Other}

-----------------------------------------------------------------------------
(* Protected text *)

\* The ticks that begin at i.
RunAt(text, i) == Min({j \in i .. Len(text) + 1 : j = Len(text) + 1 \/ text[j] # Tick}) - i

\* The first tick at or after i.
NextTick(text, i) == {j \in i .. Len(text) : text[j] = Tick /\ \A k \in i .. j - 1 : text[k] # Tick}

\* Where as many ticks as opened the span follow each other again, from i on.
Closings(text, i, run) == {j \in i .. Len(text) + 1 - run : \A k \in j .. j + run - 1 : text[k] = Tick}

\* markBacktickSpans(): from a cursor on; a span that is not closed runs to the end.
BacktickSpans(text) ==
  LET span[i \in 1 .. Len(text) + 1] ==
        UNION {LET run == RunAt(text, open)
                   close == Closings(text, open + run, run)
               IN  IF close = {} THEN open .. Len(text)
                   ELSE (open .. Min(close) + run - 1) \union span[Min(close) + run] :
               open \in NextTick(text, i)}
  IN  span[1]

\* markDelimitedSpans(): an entity or a link, whatever is inside.
EntitySpans(text) ==
  LET span[i \in 1 .. Len(text) + 1] ==
        LET opens == {j \in i .. Len(text) : text[j] = Open}
            closes == {j \in i .. Len(text) : text[j] = Close /\ opens # {} /\ j > Min(opens)}
        IN  IF opens = {} THEN {}
            ELSE IF closes = {} THEN Min(opens) .. Len(text)
            ELSE (Min(opens) .. Min(closes)) \union span[Min(closes) + 1]
  IN  span[1]

buildProtectedOffsets(text) ==
  BacktickSpans(text) \union EntitySpans(text) \union {i \in DOMAIN text : text[i] = Address}

-----------------------------------------------------------------------------
(* Handles and their replacement *)

\* findMentionHandleOccurrences(): a handle that no word runs into, on either side.
findMentionHandleOccurrences(text) ==
  {i \in DOMAIN text \ buildProtectedOffsets(text) :
     /\ text[i] \in Handle
     /\ i > 1 => text[i - 1] \notin Handle \union {Word, Address, At}
     /\ i < Len(text) => text[i + 1] # Word}

\* The handle as code, and a mention of each member.
Replacement(handle) ==
  <<Tick, handle, Tick, Other>>
    \o FlattenSeq([i \in 1 .. Cardinality(members[byHandle[handle]]) |-> <<Open, Word, Close>>])
    \o <<Other>>

\* createMentionReplacementPlan(): the text with the handles of groups that have members
\* replaced, and the handles that are nobody's or of an empty group.
createMentionReplacementPlan(text) ==
  LET occurrences == findMentionHandleOccurrences(text)
      known == {i \in occurrences : text[i] \in DOMAIN byHandle}
      filled == {i \in known : members[byHandle[text[i]]] # {}}
  IN  [text |-> FlattenSeq([i \in DOMAIN text |-> IF i \in filled THEN Replacement(text[i]) ELSE <<text[i]>>]),
       changed |-> filled # {},
       matchedOccurrenceCount |-> Cardinality(known),
       groupHandles |-> {byHandle[text[i]] : i \in known},
       memberUserIds |-> UNION {members[byHandle[text[i]]] : i \in filled},
       unknownHandles |-> {text[i] : i \in occurrences \ known},
       emptyGroupHandles |-> {byHandle[text[i]] : i \in known \ filled}]

\* buildMentionGroupIndex(): a group by its handle and its aliases; the last to claim one has it.
buildMentionGroupIndex(groups) ==
  FoldLeft(LAMBDA index, g : [h \in DOMAIN index \union {g.handle} \union g.aliases |->
                                IF h \in {g.handle} \union g.aliases THEN g ELSE index[h]],
           <<>>, groups)
=============================================================================
