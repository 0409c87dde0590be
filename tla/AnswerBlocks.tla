------------------------------ MODULE AnswerBlocks ------------------------------
(***************************************************************************)
(* How a saved answer becomes the blocks of a message                      *)
(* (slack/markdown-to-blocks.ts). An answer is a sequence of lines         *)
(* [kind, size, cells]: a code fence, a rule, a heading, a row of a table  *)
(* or the separator below its header, an empty line, or text. A section    *)
(* holds the lines shown in it; `grown` is what Slack's form of a line     *)
(* adds to its size. What a heading loses beyond its 150 characters is     *)
(* left out.                                                               *)
(***************************************************************************)
EXTENDS Naturals, Sequences, FiniteSets, FiniteSetsExt, SequencesExt

CONSTANTS SectionLimit, Fences, MaxBlocks

Block(what, lines) == [what |-> what, lines |-> lines]

-----------------------------------------------------------------------------
(* parseMarkdown() *)

Blank(line) == line.kind = "blank"

\* What trim() leaves of joined lines.
Trimmed(lines) ==
  LET full == {i \in DOMAIN lines : ~ Blank(lines[i])}
  IN  IF full = {} THEN <<>> ELSE SubSeq(lines, Min(full), Max(full))

flushParagraph(state) ==
  [state EXCEPT !.paragraph = <<>>,
     !.parsed = IF Trimmed(state.paragraph) = <<>> THEN @
                ELSE Append(@, Block("paragraph", Trimmed(state.paragraph)))]

\* A table without a row below its header shows nothing. The header names the columns of
\* a table of three or more.
flushTable(state) ==
  LET rows == SelectSeq(SubSeq(state.table, 2, Len(state.table)), LAMBDA row : row.kind = "row")
  IN  [state EXCEPT !.table = <<>>,
         !.parsed = IF rows = <<>> THEN @
                    ELSE Append(@, Block(IF state.table[1].cells <= 2 THEN "pairs" ELSE "cards", rows))]

flushCode(state) ==
  [state EXCEPT !.code = <<>>,
     !.parsed = IF state.code = <<>> \/ (Len(state.code) = 1 /\ Blank(state.code[1])) THEN @
                ELSE Append(@, Block("code", state.code))]

flushText(state) == flushTable(flushParagraph(state))

Parse(state, line) ==
  CASE line.kind = "fence" /\ state.inCode -> flushCode([state EXCEPT !.inCode = FALSE])
    [] line.kind = "fence" /\ ~ state.inCode -> [flushText(state) EXCEPT !.inCode = TRUE]
    [] line.kind # "fence" /\ state.inCode -> [state EXCEPT !.code = Append(@, line)]
    [] line.kind \in {"divider", "header", "heading3"} /\ ~ state.inCode ->
         [flushText(state) EXCEPT !.parsed = Append(@, Block(line.kind, <<line>>))]
    [] line.kind \in {"row", "separator"} /\ ~ state.inCode ->
         [flushParagraph(state) EXCEPT !.table = Append(@, line)]
    [] line.kind \in {"text", "blank"} /\ ~ state.inCode ->
         [flushTable(state) EXCEPT !.paragraph = Append(@, line)]

parseMarkdown(answer) ==
  LET start == [parsed |-> <<>>, paragraph |-> <<>>, table |-> <<>>, code |-> <<>>, inCode |-> FALSE]
      end == flushText(FoldLeft(Parse, start, answer))
  IN  flushCode(end).parsed

-----------------------------------------------------------------------------
(* Sections *)

\* Joined by line ends.
Length(lines) == FoldLeft(LAMBDA total, line : total + line.size, 0, lines) + (IF lines = <<>> THEN 0 ELSE Len(lines) - 1)

\* A line goes into a new chunk if the last one has lines and no room for it; a chunk of
\* text does not begin with an empty line.
AddLine(chunks, line, limit, dropsBlank) ==
  LET full == Last(chunks) # <<>> /\ Length(Last(chunks)) + line.size + 1 > limit
      into == IF full THEN <<>> ELSE Last(chunks)
      chunk == IF dropsBlank /\ into = <<>> /\ Blank(line) THEN <<>> ELSE Append(into, line)
  IN  IF full THEN Append(chunks, chunk) ELSE Append(Front(chunks), chunk)

splitLongText(lines) ==
  IF Length(lines) <= SectionLimit THEN <<lines>>
  ELSE LET chunks == FoldLeft(LAMBDA c, line : AddLine(c, line, SectionLimit, TRUE), <<<<>>>>, lines)
           trimmed == [i \in DOMAIN chunks |-> Trimmed(chunks[i])]
       IN  IF Last(trimmed) = <<>> THEN Front(trimmed) ELSE trimmed

\* Room is left for the fences that each chunk gets again.
splitLongCode(lines) ==
  IF Length(lines) <= SectionLimit - Fences THEN <<lines>>
  ELSE FoldLeft(LAMBDA c, line : AddLine(c, line, SectionLimit - Fences, FALSE), <<<<>>>>, lines)

Sections(chunks, extra(_)) ==
  [i \in DOMAIN chunks |-> [what |-> "section", lines |-> chunks[i], size |-> Length(chunks[i]) + extra(chunks[i])]]

\* tableToMrkdwn(): a pair is one line, a card has one more for its other columns.
tableToMrkdwn(block) ==
  IF block.what = "pairs" THEN block.lines
  ELSE FlattenSeq([i \in DOMAIN block.lines |-> <<block.lines[i], [block.lines[i] EXCEPT !.kind = "rest"]>>])

\* parsedBlocksToSlackBlocks(): text takes Slack's form only after it is split.
SlackBlocks(block) ==
  CASE block.what = "code" -> Sections(splitLongCode(block.lines), LAMBDA lines : Fences)
    [] block.what \in {"pairs", "cards"} -> Sections(splitLongText(tableToMrkdwn(block)), LAMBDA lines : 0)
    [] block.what = "paragraph" ->
         Sections(splitLongText(block.lines),
                  LAMBDA lines : FoldLeft(LAMBDA total, line : total + line.grown, 0, lines))
    [] block.what \in {"divider", "header", "heading3"} -> <<Block(block.what, block.lines)>>

\* enforceBlockLimit(): the last block stays, after a notice of what was left out.
enforceBlockLimit(blocks) ==
  IF Len(blocks) <= MaxBlocks THEN blocks
  ELSE SubSeq(blocks, 1, MaxBlocks - 2) \o <<Block("notice", <<>>), Last(blocks)>>

\* convertMarkdownToBlocks(), as answers are converted: no footer, buttons for feedback.
convertMarkdownToBlocks(answer) ==
  LET parsed == parseMarkdown(answer)
  IN  enforceBlockLimit(Append(FlattenSeq([i \in DOMAIN parsed |-> SlackBlocks(parsed[i])]),
                               Block("feedback", <<>>)))
=============================================================================
