---------------------------- MODULE RepositoryPages -----------------------------
(***************************************************************************)
(* What the tools return of a snapshot, page by page                       *)
(* (tools/code-explorer/repository-snapshots.ts). A snapshot never         *)
(* changes, so a page is a function of where it starts. A file is          *)
(* [type, size, mode, content, lines], a line [size, hit]; sizes are those *)
(* of the JSON that is returned.                                           *)
(***************************************************************************)
EXTENDS Naturals, Sequences, FiniteSets, FiniteSetsExt, SequencesExt

CONSTANTS pageFiles, pageLines, searchFiles, searchResults, outputBytes, blobBytes,
          skipSize,   \* what the note of something skipped takes
          NoNext

\* A page ends before the first item it may not hold.
Longest(items, Fits(_)) == Max({n \in 0 .. Len(items) : Fits(SubSeq(items, 1, n))})

Size(items) == FoldLeft(LAMBDA total, item : total + item.size, 0, items)

\* list()
list(entries, offset) ==
  LET rest == SubSeq(entries, offset + 1, Len(entries))
      n == Longest(rest, LAMBDA page : Len(page) <= pageFiles /\ Size(page) <= outputBytes)
  IN  [files |-> SubSeq(rest, 1, n), complete |-> n >= Len(rest),
       next |-> IF n < Len(rest) THEN offset + n ELSE NoNext]

\* blob(): whether the file is text, or why it is not shown.
blob(file) ==
  CASE file.type # "file" -> "unsupported_symlink_or_gitlink"
    [] file.type = "file" /\ file.size > blobBytes -> "large"
    [] file.type = "file" /\ file.size <= blobBytes -> file.content   \* "text" or "binary"

\* read(): the lines of a file from startLine on.
read(file, startLine) ==
  LET rest == SubSeq(file.lines, startLine, Len(file.lines))
      n == Longest(rest, LAMBDA page : Len(page) <= pageLines /\ Size(page) <= outputBytes)
      truncated == n < Len(rest)
  IN  IF blob(file) # "text"
      THEN [state |-> blob(file), lines |-> <<>>, complete |-> FALSE, next |-> NoNext]
      ELSE [state |-> IF truncated /\ n = 0 THEN "large_line" ELSE "text", lines |-> SubSeq(rest, 1, n),
            complete |-> ~ truncated, next |-> IF truncated /\ n > 0 THEN startLine + n ELSE NoNext]

-----------------------------------------------------------------------------
(* search() *)

\* What a search of file i has to show from a line on: that the file is not text, or the
\* lines that match, those too large for any page as skipped.
Found(files, i, from) ==
  IF blob(files[i]) # "text"
  THEN <<[what |-> "skipped", fileIndex |-> i, line |-> 1, size |-> skipSize]>>
  ELSE LET hits == SetToSortSeq({l \in from .. Len(files[i].lines) : files[i].lines[l].hit}, <)
       IN  [k \in DOMAIN hits |->
             LET size == files[i].lines[hits[k]].size IN
             [what |-> IF size > outputBytes THEN "skipped" ELSE "match", fileIndex |-> i, line |-> hits[k],
              size |-> IF size > outputBytes THEN skipSize ELSE size]]

\* From a cursor up to, not including, file `until`.
Between(files, cursor, until) ==
  FlattenSeq([k \in 1 .. (IF until > cursor.fileIndex THEN until - cursor.fileIndex ELSE 0) |->
    Found(files, cursor.fileIndex + k - 1, IF k = 1 THEN cursor.line ELSE 1)])

Matches(items) == SelectSeq(items, LAMBDA item : item.what = "match")

\* The page of a search that had the time to come up to file `late`.
search(files, cursor, late) ==
  LET until == Min({Len(files) + 1, cursor.fileIndex + searchFiles, late})
      items == Between(files, cursor, until)
      n == Longest(items, LAMBDA page : Len(Matches(page)) <= searchResults /\ Size(page) <= outputBytes)
      more == n < Len(items) \/ until <= Len(files)
  IN  [items |-> SubSeq(items, 1, n),
       complete |-> ~ more /\ Matches(SubSeq(items, 1, n)) = SubSeq(items, 1, n),
       next |-> IF n < Len(items) THEN [fileIndex |-> items[n + 1].fileIndex, line |-> items[n + 1].line]
                ELSE IF more THEN [fileIndex |-> until, line |-> 1] ELSE NoNext]
=============================================================================
