------------------------------- MODULE WebContent -------------------------------
(***************************************************************************)
(* The pages that web_fetch has read (tools/web/content.ts): a store that  *)
(* all actors of the process share, and windows and matches of one text.   *)
(* A text is a sequence of UTF-16 units: a character of one unit and one   *)
(* byte, or a pair of four bytes.                                          *)
(***************************************************************************)
EXTENDS Naturals, Sequences, FiniteSets, FiniteSetsExt, SequencesExt

CONSTANTS maxEntries, totalBytes, actorEntries, actorBytes, NoNext

-----------------------------------------------------------------------------
(* ContentStore; an entry is [id, actor, bytes, expires], the oldest first *)

Charged(entries) == FoldLeft(LAMBDA total, e : total + e.bytes, 0, entries)
OfActor(entries, actor) == SelectSeq(entries, LAMBDA e : e.actor = actor)
prune(entries, now) == SelectSeq(entries, LAMBDA e : now < e.expires)

\* An actor beyond its own quota is refused; beyond that of the process, the oldest
\* entries go, whoever they are of.
put(entries, entry, now) ==
  LET kept == prune(entries, now)
      own == OfActor(kept, entry.actor)
      gone == {n \in 0 .. Len(kept) :
                 /\ Len(kept) - n < maxEntries
                 /\ Charged(SubSeq(kept, n + 1, Len(kept))) + entry.bytes <= totalBytes}
  IN  IF \/ entry.bytes > totalBytes \/ entry.bytes > actorBytes \/ maxEntries < 1
         \/ Len(own) >= actorEntries \/ Charged(own) + entry.bytes > actorBytes
      THEN kept
      ELSE Append(SubSeq(kept, Min(gone) + 1, Len(kept)), entry)

-----------------------------------------------------------------------------
(* Windows *)

\* A position that would part the two units of a pair.
splitsPair(text, offset) ==
  offset > 0 /\ offset < Len(text) /\ text[offset] = "high" /\ text[offset + 1] = "low"

validateOffset(text, offset) == offset \in 0 .. Len(text) /\ ~ splitsPair(text, offset)

Encoded(text, offset, end) ==
  FoldLeft(LAMBDA total, unit : total + (IF unit = "char" THEN 1 ELSE 2), 0, SubSeq(text, offset + 1, end))

\* textWindow(): from a valid offset, what neither limit ends.
textWindow(text, offset, maxChars, maxBytes) ==
  LET end == Max({e \in offset .. Min({Len(text), offset + maxChars}) :
                    ~ splitsPair(text, e) /\ Encoded(text, offset, e) <= maxBytes})
  IN  [text |-> SubSeq(text, offset + 1, end), next |-> IF end < Len(text) THEN end ELSE NoNext]

-----------------------------------------------------------------------------
(* Matches *)

Occurrences(text, literal, cursor) ==
  {o \in cursor .. Len(text) : o + Len(literal) <= Len(text) /\ SubSeq(text, o + 1, o + Len(literal)) = literal}

\* All matches from a cursor on, the next after the end of the one before.
Following(text, literal) ==
  LET from[cursor \in 0 .. Len(text)] ==
        LET found == Occurrences(text, literal, cursor)
            o == Min(found)
        IN  IF found = {} THEN <<>>
            ELSE IF splitsPair(text, o) \/ splitsPair(text, o + Len(literal)) THEN from[o + 1]
            ELSE <<o>> \o from[o + Len(literal)]
  IN  from

\* findLiteral()
findLiteral(text, literal, offset, count) ==
  LET all == Following(text, literal)[offset]
      matches == SubSeq(all, 1, Min({count, Len(all)}))
      cursor == IF matches = <<>> THEN offset ELSE Last(matches) + Len(literal)
      truncated == Len(matches) = count /\ Occurrences(text, literal, cursor) # {}
  IN  [matches |-> matches, next |-> IF truncated THEN cursor ELSE NoNext]
=============================================================================
