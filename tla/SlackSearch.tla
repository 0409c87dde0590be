------------------------------ MODULE SlackSearch -------------------------------
(***************************************************************************)
(* The public search of Slack (tools/slack/search.ts). A search answers    *)
(* one page and, if there is more, a cursor of our own for the next: it    *)
(* stands for Slack's cursor and for what the pages so far have delivered, *)
(* so that a message is not given to the model twice and a page is called  *)
(* complete only if nothing was left out on the way. The searches of one   *)
(* process share the table of cursors and run across awaits.               *)
(***************************************************************************)
EXTENDS Naturals, Sequences, FiniteSets, FiniteSetsExt, SequencesExt

CONSTANTS
  Search,         \* searches that may be under way at once
  Query,          \* a request with its query: what a cursor is bound to
  Pages,          \* the pages Slack may answer: [messages, next, more]
  PrefixOf(_, _), \* one text is the beginning of the other
  MaxPages, MaxShown, MaxCursors,
  MaxChains,      \* bound: searches without a cursor
  MaxSearches,    \* bound: searches that end with a page
  NoCursor, Unknown

ASSUME SearchAssumption ==
  /\ {MaxPages, MaxShown, MaxCursors} \subseteq Nat \ {0} /\ NoCursor \notin Nat
  /\ \A page \in Pages :
       /\ page.messages \in Seq(ToSet(page.messages))
       /\ \A m \in ToSet(page.messages) : m.role \in {"primary", "context"} /\ m.text # Unknown

VARIABLES
  cursors,        \* our cursor |-> what it stands for
  inFlight,       \* the cursors a search holds
  search,         \* the searches: what they read before they wait
  pageCount,      \* pages answered: the newest cursor
  given           \* the chains of pages: what Slack showed, and what was given to the model

searchVars == <<cursors, inFlight, search, pageCount, given>>

Role == {"primary", "context"}
NoSearch == [pc |-> "idle"]

\* What a first page starts from; a chain is named after its first page.
Fresh(q) == [binding |-> q, cursor |-> NoCursor, page |-> 0, lossy |-> FALSE, fingerprints |-> <<>>,
             deliveredRoles |-> <<>>, used |-> {}, expired |-> FALSE, chain |-> 0]

SearchInit ==
  /\ cursors = <<>> /\ inFlight = {} /\ pageCount = 0 /\ given = <<>>
  /\ search = [s \in Search |-> NoSearch]

Chains == Cardinality(DOMAIN given)
          + Cardinality({s \in Search : search[s] # NoSearch /\ search[s].cursor = NoCursor})

Without(f, gone) == [x \in DOMAIN f \ gone |-> f[x]]

\* A mutant: the cursor is not held while its search is under way.
BeginUnheld(s, q, c) ==
  /\ search[s] = NoSearch /\ pageCount < MaxSearches
  /\ (c = NoCursor /\ Chains < MaxChains) \/ (c \in DOMAIN cursors /\ cursors[c].binding = q /\ cursors[c].page < MaxPages)
  /\ search' = [search EXCEPT ![s] = [pc |-> "asked", cursor |-> c,
                  previous |-> IF c = NoCursor THEN Fresh(q) ELSE cursors[c]]]
  /\ UNCHANGED <<cursors, inFlight, pageCount, given>>

\* search(): expired cursors go; a cursor of another request, at the last page, or held
\* by a search under way is refused. The rest of the search uses what is read here.
BeginSearch(s, q, c) ==
  /\ search[s] = NoSearch /\ pageCount < MaxSearches
  /\ LET kept == Without(cursors, {x \in DOMAIN cursors : cursors[x].expired}) IN
     /\ cursors' = kept
     /\ \/ /\ c = NoCursor /\ Chains < MaxChains
           /\ search' = [search EXCEPT ![s] = [pc |-> "asked", cursor |-> NoCursor, previous |-> Fresh(q)]]
           /\ UNCHANGED inFlight
        \/ /\ c \in DOMAIN kept \ inFlight /\ kept[c].binding = q /\ kept[c].page < MaxPages
           /\ search' = [search EXCEPT ![s] = [pc |-> "asked", cursor |-> c, previous |-> kept[c]]]
           /\ inFlight' = inFlight \union {c}
  /\ UNCHANGED <<pageCount, given>>

Unlock(s) == inFlight' = inFlight \ {search[s].cursor}

-----------------------------------------------------------------------------
(* One page of Slack against what the chain has seen *)

Shown(page, k, role) == {m \in ToSet(page.messages) : m.key = k /\ m.role = role}
Keys(page) == {m.key : m \in ToSet(page.messages)}
TextsOf(page, k, role) == {m.text : m \in Shown(page, k, role)}

\* The text the chain knows a message by in this role, and the one it has with the page.
Known(prev, k, role) == IF k \in DOMAIN prev.fingerprints THEN prev.fingerprints[k][role] ELSE Unknown
TextOf(prev, page, k, role) ==
  IF Shown(page, k, role) = {} THEN Known(prev, k, role)
  ELSE CHOOSE text \in TextsOf(page, k, role) : TRUE

\* One role, one text: over the page and against the chain.
Consistent(prev, page) ==
  \A k \in Keys(page), role \in Role :
    \A text, other \in TextsOf(page, k, role) \union {Known(prev, k, role)} :
      text = other \/ Unknown \in {text, other}

\* The message has different texts as a match and as context, and the page is not just
\* a repetition of what was seen in the same role.
Diverging(prev, page, k) ==
  LET text(role) == TextOf(prev, page, k, role)
      here == {role \in Role : Shown(page, k, role) # {}}
  IN  /\ Unknown \notin {text("primary"), text("context")} /\ text("primary") # text("context")
      /\ ~ \E role \in Role : here = {role} /\ Known(prev, k, role) # Unknown

\* Both roles on this page, of authors that may be the same: the match is kept.
Reconcilable(page, k) ==
  LET authors(role) == {m.author : m \in Shown(page, k, role)} \ {Unknown} IN
  /\ \A role \in Role : Shown(page, k, role) # {}
  /\ \/ \E role \in Role : authors(role) = {}
     \/ Cardinality(authors("primary")) = 1 /\ authors("primary") = authors("context")

ShortPrimary(prev, page) ==
  {k \in Keys(page) : Diverging(prev, page, k)
     /\ PrefixOf(TextOf(prev, page, k, "primary"), TextOf(prev, page, k, "context"))}

Valid(prev, page) ==
  /\ Consistent(prev, page)
  /\ \A k \in Keys(page) : Diverging(prev, page, k) => Reconcilable(page, k)
  /\ page.next = NoCursor \/ page.next \notin prev.used

AlreadyGiven(prev, m) ==
  m.key \in DOMAIN prev.deliveredRoles
    /\ (prev.deliveredRoles[m.key] = "primary" \/ m.role = "context")

\* Matches come before contexts, and each in the order of the page.
Before(page, i, j) ==
  LET match(n) == page.messages[n].role = "primary" IN
  IF match(i) = match(j) THEN i < j ELSE match(i)

\* The places on the page of what is to be given: of each message the first that was not
\* given before, and of those as many as a page may have.
Wanted(prev, page) ==
  {i \in DOMAIN page.messages :
     /\ ~ AlreadyGiven(prev, page.messages[i])
     /\ \A j \in DOMAIN page.messages : Before(page, j, i) =>
          page.messages[j].key # page.messages[i].key \/ AlreadyGiven(prev, page.messages[j])}
Projected(prev, page) ==
  {i \in Wanted(prev, page) : Cardinality({j \in Wanted(prev, page) : Before(page, j, i)}) < MaxShown}

\* A message found no place.
Crowded(prev, page) == Projected(prev, page) # Wanted(prev, page)

\* What is left of it within the envelope: contexts are dropped from the end.
Fitting(prev, page) ==
  {kept \in SUBSET Projected(prev, page) :
     \A j \in Projected(prev, page) \ kept :
       page.messages[j].role = "context" /\ \A i \in kept : Before(page, i, j)}

\* What the chain knows after the page: only of messages it has delivered.
Learnt(prev, page, roles) ==
  [k \in DOMAIN roles |-> [role \in Role |-> TextOf(prev, page, k, role)]]

-----------------------------------------------------------------------------

\* In which role each message of the chain was given last.
RolesAfter(prev, items) ==
  [k \in DOMAIN prev.deliveredRoles \union {m.key : m \in items} |->
     IF \E m \in items : m.key = k THEN (CHOOSE m \in items : m.key = k).role
     ELSE prev.deliveredRoles[k]]

\* Something was left out of this page or an earlier one: a message, the end of a text,
\* another text of it.
Lossy(prev, page, kept, cut) ==
  \/ prev.lossy \/ cut # {} \/ kept # Projected(prev, page) \/ Crowded(prev, page)
  \/ \E k \in Keys(page) : Diverging(prev, page, k)

\* What the cursor for the next page stands for.
Continued(prev, page, kept, cut, chain) ==
  LET roles == RolesAfter(prev, {page.messages[i] : i \in kept}) IN
  [binding |-> prev.binding, cursor |-> page.next, page |-> prev.page + 1,
   lossy |-> Lossy(prev, page, kept, cut), fingerprints |-> Learnt(prev, page, roles),
   deliveredRoles |-> roles, used |-> prev.used \union {page.next}, expired |-> FALSE,
   chain |-> chain]

\* The page of Slack and the one made of it.
Result(prev, page, kept, cut) ==
  [seen |-> ToSet(page.messages),
   items |-> {[key |-> page.messages[i].key, role |-> page.messages[i].role,
               text |-> page.messages[i].text,
               cut |-> \/ i \in cut
                       \/ /\ page.messages[i].role = "primary"
                          /\ page.messages[i].key \in ShortPrimary(prev, page)] : i \in kept},
   complete |-> page.next = NoCursor /\ ~ page.more /\ ~ Lossy(prev, page, kept, cut)]

\* The page is checked, cut to its limits and delivered: contexts beyond the envelope are
\* dropped, texts beyond the budget are cut.
AnswerPage(s) ==
  /\ search[s] # NoSearch
  /\ \E page \in Pages : \E kept \in Fitting(search[s].previous, page) : \E cut \in SUBSET kept :
       LET prev == search[s].previous
           id == pageCount + 1
           chain == IF prev.chain = 0 THEN id ELSE prev.chain
           room == IF Cardinality(DOMAIN cursors) >= MaxCursors
                   THEN Without(cursors, {Min(DOMAIN cursors)}) ELSE cursors
           saved == IF page.next # NoCursor /\ prev.page + 1 < MaxPages
                    THEN [x \in DOMAIN room \union {id} |->
                            IF x = id THEN Continued(prev, page, kept, cut, chain) ELSE room[x]]
                    ELSE cursors
           pages == IF prev.chain = 0 THEN <<>> ELSE given[chain]
       IN  /\ Valid(prev, page)
           /\ cursors' = Without(saved, {search[s].cursor})
           /\ pageCount' = id
           /\ given' = [x \in DOMAIN given \union {chain} |->
                         IF x = chain THEN Append(pages, Result(prev, page, kept, cut)) ELSE given[x]]
           /\ search' = [search EXCEPT ![s] = NoSearch]
           /\ Unlock(s)

\* Any refusal or failure on the way: the cursor stays as it was, for a retry.
SearchFails(s) ==
  /\ search[s] # NoSearch
  /\ search' = [search EXCEPT ![s] = NoSearch]
  /\ Unlock(s)
  /\ UNCHANGED <<cursors, pageCount, given>>

\* Ten minutes pass.
CursorExpires(c) ==
  /\ c \in DOMAIN cursors /\ ~ cursors[c].expired
  /\ cursors' = [cursors EXCEPT ![c].expired = TRUE]
  /\ UNCHANGED <<inFlight, search, pageCount, given>>

SearchNext ==
  \/ \E s \in Search, q \in Query, c \in DOMAIN cursors \union {NoCursor} : BeginSearch(s, q, c)
  \/ \E s \in Search : AnswerPage(s)
  \/ \E s \in Search : SearchFails(s)
  \/ \E c \in DOMAIN cursors : CursorExpires(c)

SearchSpec == SearchInit /\ [][SearchNext]_searchVars

-----------------------------------------------------------------------------

\* Over the pages of one chain a message is given at most once as a match and at most
\* once as context, and never as context after it was given as a match.
GivenOnce(pages) ==
  \A i, j \in DOMAIN pages : i < j =>
    \A m \in pages[i].items, n \in pages[j].items :
      m.key = n.key => m.role = "context" /\ n.role = "primary"

\* A chain whose last page is called complete left nothing out: all that Slack showed on
\* any of its pages was given whole, a match as a match.
Whole(pages) ==
  \A i \in DOMAIN pages : \A m \in pages[i].seen :
    \E j \in DOMAIN pages : \E n \in pages[j].items :
      n.key = m.key /\ n.text = m.text /\ ~ n.cut /\ (m.role = "primary" => n.role = "primary")
CompleteIsWhole(pages) == Last(pages).complete => Whole(pages)

\* Continuing a search, with retries, expiry and two calls for the same page at once, the
\* pages of a chain add up (search.ts:148, 286, 325).
PagesAddUp == \A x \in DOMAIN given : GivenOnce(given[x]) /\ CompleteIsWhole(given[x])
=============================================================================
