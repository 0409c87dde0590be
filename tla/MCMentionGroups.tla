----------------------------- MODULE MCMentionGroups -----------------------------
(***************************************************************************)
(* Small instances of MentionReplacement: a message delivered once while   *)
(* the catalog changes, or delivered twice, under two event ids, and       *)
(* resumed once, while it does not.                                        *)
(***************************************************************************)
EXTENDS MentionReplacement, Sequences, FiniteSets

CONSTANTS d1, d2, r1, k1, team, crowd

Events == [d \in Delivery |-> IF d = d1 THEN "e1" ELSE "e2"]

\* Who takes part; the calls left out have nothing to do.
Start(cast, n) ==
  InitCalls([t \in Call |-> IF t \in cast THEN First ELSE [First EXCEPT !.pc = "ignored"]], n)

MCInit == Start({d1}, 0) \/ Start({d1, d2, r1}, MaxRev)

MCSpec == MCInit /\ [][Next]_vars /\ Fairness

-----------------------------------------------------------------------------
(* Texts *)

\* A group by its handle and its alias, an empty group, and a handle of nobody.
Text == INSTANCE MentionText
  WITH Handle <- {"@a", "@b", "@e", "@u"},
       byHandle <- [h \in {"@a", "@b", "@e"} |-> IF h = "@e" THEN "empty" ELSE "full"],
       members <- [g \in {"empty", "full"} |-> IF g = "full" THEN {"U1", "U2"} ELSE {}]

SeqsOf(S, n) == UNION {[1 .. k -> S] : k \in 0 .. n}
Texts == SeqsOf(Text!Token, 3) \union SeqsOf({"@a", Text!Tick, Text!Open, Text!Close, Text!Word}, 5)

Count(tokens, S, i) == Cardinality({j \in 1 .. i - 1 : tokens[j] \in S})
Taken(tokens) == Text!findMentionHandleOccurrences(tokens)
Joined(tokens) == \E i \in 1 .. Len(tokens) - 1 : {tokens[i], tokens[i + 1]} \subseteq {"@a", "@b", "@e", "@u"}

\* What parser.test.ts shows by example: no handle is taken in code, in an entity, after
\* an "@" or within a word. Ticks that stand alone open and close by turns, and an entity
\* reaches from its bracket to the next closing one.
ASSUME
  \A tokens \in Texts : \A i \in Taken(tokens) :
    /\ (\A j \in 1 .. Len(tokens) - 1 : tokens[j] # Text!Tick \/ tokens[j + 1] # Text!Tick)
         => Count(tokens, {Text!Tick}, i) % 2 = 0
    /\ \A j \in 1 .. i - 1 : tokens[j] = Text!Open => \E k \in j .. i : tokens[k] = Text!Close
    /\ i > 1 => tokens[i - 1] \notin {Text!Word, Text!At, "@a"}

\* The text written to Slack is settled: looked at again, by an event of the edit or a
\* retry, there is nothing more to replace in it. Handles written without a space between
\* them are the exception: of two only the first is taken, and then the second.
ASSUME
  \A tokens \in Texts :
    LET plan == Text!createMentionReplacementPlan(tokens) IN
    /\ ~ Joined(tokens) => ~ Text!createMentionReplacementPlan(plan.text).changed
    /\ plan.changed <=> plan.text # tokens
    /\ plan.memberUserIds # {} <=> plan.changed
=============================================================================
