# Shookie: specifications, model checking and proofs

Shookie is a Slack assistant. One Node process holds the Slack Socket Mode connection,
runs conversations with a language model and tools, relays public channel messages to
the Radar service, rewrites mention groups and posts meeting reminders; PostgreSQL keeps
what must survive it. These specifications describe the parts of it whose correctness
depends on interleavings, failures and restarts. Paths below are relative to `src/`.

## 1. Inventory

| Component | Source | State | Operations | Hard parts |
|---|---|---|---|---|
| Message relay capture | `shookie/src/slack/message-relay/capture.ts`, `event.ts`, `identity.ts` | set of committed event keys (20000, FIFO), calls in flight, closed flag | capture before the ACK, close | ACK after commit only, redelivery, shutdown |
| Message relay outbox and drainer | `database/src/slack-message-relay.ts`, `.../message-relay/drain.ts` | outbox table; per process: poll loop, batch, halted, stopping | enqueue, claim, outcome writes, requeue, prune; tick, deliver, release, start, stop | leases, stale workers, late writes, Retry-After, attempts, halt, shutdown |
| Conversation runtime | `shookie/src/slack/conversation-runtime.ts`, `database/src/conversations.ts` | pending map, lanes, slots, waiters; `conversation_events`, `conversation_turns` | run, acquire, release; claim, recent, complete, fail | duplicates, lane and slot hand-over, lost COMMIT answers, crash |
| History cache | `shookie/src/services/memory/` | bounded LRU of histories | get, set, clear, budgetMessages | agreement with the database |
| Cancellation | `shookie/src/cancellation/` | control state, deadline, tracked work, button registry, cooldown | commit, cancel, stop, checkpoint, drain, bind, onAbort, finish | stop against commit, tools that outlive the stream, one notice |
| Event handlers | `shookie/src/slack/handlers.ts` | one call per delivery | order of commit, delivery, reply, clean-up | what the user is told when something fails half-way |
| Answer delivery | `live-answer.ts`, `final-delivery.ts`, `canonical-answer.ts` | preview phase, one flight, one pending snapshot | event, pump, seal, finalize, cleanup; final stream | late preview update, unknown outcomes, no double answer |
| Slack thread context | `slack-thread-source.ts`, `thread-summarizer.ts` | none | paginate, summarise | a thread read in part, or cut without a notice |
| User OAuth | `slack/user-oauth/`, `database/src/slack-user-oauth.ts`, `slack-oauth-state.ts` | token rows, single-use states, refreshes in flight | save, get with refresh, revoke, invalidate, consume | rotation against revocation and new grants, crash between remote and local step |
| Mention groups | `slack/mention-groups/` | deduper (TTL, 20000 keys), catalog cache | handle event, resume after authorization, recover | duplicates, expiry, token replaced under way |
| Meeting reminders | `meeting-reminders.ts`, `database/src/meeting-reminders.ts` | delivery rows with a 5-minute claim | poll: claim, post, mark, release, ack | post succeeded but mark failed; unfenced claim |
| Reaction relay, event attendance | `reaction-relay.ts`, `event-attendance.ts` | none of their own; the emoji's count is in Slack | join channels, relay the first reaction; forward attendance, two tries | the count is read after the event |
| Tools | `shookie/src/tools/` | snapshots with reserved bytes, parser slots, content store, GitHub token | clone, search, read, parse, continue | quotas over awaits, eviction of what is in use |
| Start and shutdown | `shookie/src/index.ts` | - | start order, SIGTERM | writes after the pool is closed |
| Migrations | `database/src/migrate.ts` | `schema_migrations`, advisory lock | run the files of an image | a run cut short, a changed file |
| Logging, metrics, deployment | `telemetry/`, `docker-compose.yml` | bounded queue | - | little |

How they interact: Slack delivers an event; *capture* stores a relay row and only then
is the event acknowledged; the *handlers* pass mentions and direct messages to the
*conversation runtime*, which calls back into the handler for generation, commit and
delivery under a *cancellation* control; the *drainer* works through the outbox on its
own timer; *mention groups* use *OAuth* tokens to edit a user's message. The components
meet in the database and in the cancellation control, hardly anywhere else, so each is
specified by itself and composed where they share state.

`PROJECT.json` lists every component with its status, and the hazards of the code line
by line with the properties that cover them.

## 2. Modules

### RelayOutbox

The outbox table and any number of drainer processes.

| Model | Code |
|---|---|
| `table[e]` | the row of event `e`: status, attempts, claim token, and one `timer` for the column its status makes relevant (`next_attempt_at`, `lease_until`, `updated_at`), as distance from now; `why` keeps of `last_error` what later steps or operators read |
| `Settle` | the three outcome statements, all `WHERE id AND claim_token AND status = 'delivering'` |
| `Claim`, `ClaimInto` | the claim statement; one fresh token per batch |
| `job[p][e]` | a claimed row in a process: `queued` in `deliverAll`, `posting`, `writing` its outcome |
| `orphans` | outcome writes whose sender gave up: `withBoundedTransaction` destroys the connection at its deadline, and a COMMIT already sent may still be applied |
| `mode`, `halted`, `tick` | `stopping`, `hardStopped`, `halted`, and where `tick()` is |
| `accepted` | what Radar has committed (external); any answer but 2xx, and no answer, leave that open |
| `embargo`, `sent` | ghosts: what is left of the last Retry-After; counted requests since the attempts were last reset |

Each SQL statement is a step, and so is what happens between two awaits. A lease that
runs out while its worker still holds the row counts as a fault, because the code sizes
the lease (120 s) to outlast a batch: `ceil(20/3)` rounds of at most 5 s request and 10 s
write take 105 s. Reading the response headers, statistics and logging have no effect on
the state and are left out; the order in which due rows are claimed is left open, and so
is how often maintenance is due. `prune` is taken for all rows at once (its batch is 500).

### RelayDelivery

The abstract promise: an event is unknown, held, delivered or given up; delivered only
if Radar has committed it; forgotten only from one of the two ends. `KeepsPromise` is the
refinement: claims, leases, deferrals and parking are all "held".

### Conversation

`ConversationRuntime.run` with its control, registry and notices, and the two tables.

| Model | Code |
|---|---|
| `phase[d]` | how far a delivery has got; a step of the run goes from await to await |
| `threads`, `active`, `waiters` | the promise chain of a thread, the semaphore and its queue |
| `ledger`, `turns` | `conversation_events.status` and `conversation_turns` |
| `cache`, `history` | `InMemoryConversationStore`, and the history a run has read |
| `cancelled`, `expired`, `committed` | `ConversationControl`; "committing" is the phase `persisting` |
| `tools` | runs with tracked work left in `ExecutionScope` |
| `registered`, `bound` | `CancellationRegistry` entries, and those bound to a posted button |
| `notified`, `replied` | the flag `onAbort` sets before it sends the stop notice; the error reply of the handler's catch |
| `unheard` | ghost: deliveries whose notice or reply was refused, lost or withheld by the cooldown; the program does not know |
| `basis`, `unacked` | ghosts: the turns an answer was generated from; requests completed by a COMMIT whose answer was lost |

Every await may fail. A failed claim may have inserted the row; a failed commit may have
been applied (then at the moment the failure is seen, a simplification: the code waits
for the real outcome of the query, so later application needs a broken connection).
`Crash` loses all process memory and keeps the tables. Left out: the input byte limit
(another immediate rejection), requests without a team (they have no button), requester
checks of a button press, and what the control message shows at the end (see Answer). A tool is called
only while the stream runs. Histories are counted in turns; the byte budget is
DialogueContext's.

### Dialogue

The abstract promise: a request is taken up at most once, and its answer extends the very
dialogue it was generated from (for a channel thread: from Slack alone). `KeepsDialogue`
is the refinement; it fails if runs of a thread overlap, if a stale cache is used, or if
a finished request changes again.

### UserOAuth

The credential of one user in several processes, as in a deployment that replaces one
container by the next. `stored` and `due` are the row of `slack_user_oauth_tokens`;
`access` and `refresh` are what Slack makes of each credential it issued; `call[t]` is a
message handler or a request to the callback URL, `flight[p]` the refresh all callers of
process `p` share (`refreshes`). A compare-and-set on ciphertexts is one on credentials:
each is encrypted once. `causes` is a ghost that names why a stored credential may have
been lost, `abandoned` one for credentials the program took out of the row without
revoking their refresh token: a newer grant was saved over them, or
`invalidateAccessToken` erased them because their access token had expired in use. Slack
(external) issues, validates, rotates and withdraws credentials; a request may fail, or be done
without an answer. `revoke()` is not modelled, nothing calls it.

### MentionReplacement, MentionCatalog, MentionText

One message with a group's handle. `MentionCatalog` is Radar's catalog and the cache of
it: one request at a time, revalidated by ETag, nothing served from an expired or refused
answer; commands and people change the groups. `MentionReplacement` is the message
(`text`), the deduper (`seen`), and the calls: deliveries of the event under one event id
or two, and callbacks that resume after authorization. Each await is a step; the message
may be edited or deleted meanwhile. The text is abstract there: as written, edited, with
which members, deleted. `MentionText` is how the parser rewrites a text, on tokens.

### Answer

What the user sees of one request: the preview (`phase`, one `flight`, `live`), the
control message, the stream or post of the final answer, the notices. `limbo` is a
request the client has given up at its time limit, which Slack may still apply; `late`
remembers that it did.

### RelayCapture, MeetingReminders, ReactionRelay, SlackSearch, RepositorySnapshots

What the process does beside conversations, each by itself.

* `RelayCapture`: deliveries of Slack from envelope to acknowledgement, the set of
  committed keys, and the process's life from its identity check through an orderly
  shutdown, a crash and a restart. It ends with the INSERT that RelayOutbox starts from.
* `MeetingReminders`: the polls of processes over `meeting_reminder_deliveries`; a claim
  older than five minutes can be taken over, and marking and releasing are not fenced.
  `causes` counts, per reminder, what may make it appear again.
* `ReactionRelay`: users add and withdraw an emoji while handlers ask Slack for its count.
* `SlackSearch`: searches read a page of Slack, drop what the chain has shown, and leave
  a cursor for the next; `given` is what each chain was shown and has passed on.
* `RepositorySnapshots`: clones through authorisation, shared token, gate, preflight over
  the disk, git, and readers of what was kept; expiry and removal by a later clone.

### DialogueContext, AnswerBlocks, EventIntake, RepositoryPages, WebContent, Migrations

Algorithms without interleavings, as operators over bounded data; the MC modules assert,
with ASSUME, what they compute for every input of an instance:

* `DialogueContext`: the byte budget over a cached and a stored history gives the model
  the same turns; a Slack thread is read whole or refused, and within the budget each
  reply is shown or summarised once (MCAnswer).
* `AnswerBlocks`: every line of an answer is in its blocks once and in order, or a notice
  says that lines are missing. A table without a row below its header is dropped, and a
  section exceeds Slack's limit only by a single long line or by text that Slack's form
  lengthens after the split (MCAnswer).
* `EventIntake`: which events become requests, under which ids; redeliveries agree, two
  messages never do (MCAnswer); the retry of event reactions (MCBackground).
* `RepositoryPages`: following `next` through a listing, a file or a search gives
  everything once; a line larger than a page ends a file's pages, and says so
  (MCBackground).
* `WebContent`: the store keeps its quotas; windows and matches cover a text and part no
  surrogate pair (MCBackground).
* `Migrations`: over deployments, rollbacks and runs cut short, statements and records
  agree (MCBackground).
* `MentionText`: no handle is taken in code, entities or words; a rewritten text is not
  rewritten again, but for handles that touch: of "@a@b" only the first is taken, and the
  second when the text is looked at again (MCMentionGroups). `RelayCapture`'s envelopes
  are checked the same way (MCBackground).

### MC modules

Small instances. In MCBackground the parts share nothing but the process, so a behaviour
follows one of them (`focus`): the product of their states would show nothing more.
Definitions called "Mutant of ..." or "a mutant" in the component modules are wrong
versions of a definition that a property must reject; nothing else uses them.

### Proof modules

Each extends the modules it is about; section 5 has the arguments.

| Module | About |
|---|---|
| RelayOutboxProofs | types, fencing, finality of the outbox; that it implements RelayDelivery |
| RelayAttemptsProofs | attempts, leaked claims and Retry-After of the outbox |
| ConversationProofs | types, lanes and slots, and what becomes of a delivery's user |
| DialogueProofs | the history cache; that Conversation implements Dialogue |
| UserOAuthProofs | links, rotation and loss of a user's Slack credential |
| MentionProofs | MentionReplacement and MentionCatalog |
| AnswerProofs | the answer, its previews and control message |
| BackgroundProofs | RelayCapture, MeetingReminders, ReactionRelay, RepositorySnapshots, SlackSearch |

## 3. Runs

| Run | Instance | Question |
|---|---|---|
| RelayTwoDrainers | 1 event, 2 processes, 2 faults, 1 detour, symmetry | fencing, at most one claimant, counting, finality, refinement of RelayDelivery |
| RelayBatch | 2 events, 1 process, no faults, 2 detours, concurrency 1 | without faults: no claim left behind, Retry-After honoured, shutdown ends |
| RelayRecovery | 1 event, 1 process, 2 faults, 2 detours, fair | a captured row is settled in the end |
| RelayRetryAfter | 1 event, 1 process, 1 fault | violation: Retry-After cut short (section 6) |
| RelayConfigHalt | 1 event, 1 process, 1 fault | violation: no halt after a configuration error |
| ConversationThread | 1 thread, a request delivered twice and another, 1 slot, 1 crash | all safety properties, refinement of Dialogue |
| ConversationSlots | 2 threads (one of a channel), 3 requests, 1 slot, admission limit 2, fair | every delivery ends |
| ConversationLateCommit | as ConversationThread, no crash | violation: a stopped turn becomes history |
| UserOAuth | 2 processes with a handler each, or 1 with a handler and 2 callbacks of one link; 3 credentials, 1 fault, fair | no user is stranded by rotation, no grant lost without a cause, no credential usable outside the store but in the two ways of `abandoned`, a link grants once, calls end |
| MentionGroups | 1 delivery while the catalog changes, or 2 under different ids and a resumption; 1 command, 1 fault, fair | the catalog was current, one replacement, a newer grant survives, failures are told, calls end |
| Answer | 1 request, 3 preview calls, 3 faults, fair | one answer, never under a preview or denied once saved; the clean-up ends |
| Background | 2 events and a foreign one, 2 deliveries; 2 reminders, 2 processes; 3 users, 2 handlers; 2 searches over 4 pages; 3 clones, 2 readers; fair | acknowledged means stored, shutdown; reminders once but for a cause; relays for a cause; pages add up; snapshots kept while read; all ends |

Bounds. *Faults* are crashes, stalls past a lease and failed database calls, *detours*
graceful stops and 429 answers; both are counted in the state and only limit how many
happen, never when. Two faults are enough for the dangerous relay histories (a stall and
a late write; a crash and a lost claim; two stale claims of different age). A row's steps
do not depend on other rows but through the batch, the concurrency limit and the halt, so
one row with two processes and two rows with one process cover the interactions; two of
three slots of a batch are then queued behind a busy worker. Times are in backoff units:
a lease of 1, a longest Retry-After of 2 and headers below, at and above it meet every
comparison the code makes. `MaxAttempts` is 2: first, last and surplus attempts are
distinct. Tokens are as many as can be in use at once. In ConversationThread one slot,
two admitted runs and `RecentTurns` 1 make queueing, rejection, trimming and sharing
happen with three deliveries; ConversationSlots adds waiting for a slot across threads.
`MayMiss` names the deliveries whose notice or reply may not come through: all of them in
ConversationThread and ConversationLateCommit, none in ConversationSlots, where nothing
rests on it: no guard reads `unheard`.
Deadlock is checked in the relay runs; it is off in the conversation runs because a
finite set of deliveries comes to an end there, and for the same reason in the four runs
above.

The newer runs bound what is counted, not when it happens: credentials Slack issues,
grants, revisions of the catalog, calls of a preview, deliveries, reactions, searches. One
fault is enough in UserOAuth and MentionGroups because each property names what a fault
may cost, and the dangerous histories there come of interleavings: a second process, a
second callback, a second event. Answer affords three, so that a preview can be lost
before the final answer and the fallback after it. In Background the set of committed
keys holds one, the capacity of the disk two reservations and one clone more, and a
snapshot may expire at any time. There is one chain of search pages: that another chain
evicts its cursor is in the proof of `PagesAddUp` only. The largest of these, MentionGroups, has some 600,000
states.

The relay's `TypeOK` also bounds the counters; `Conversation!TypeOK` is proved and no run
checks it, because the other properties of its runs fail where a type does. The relay's symmetry is sound for RelayTwoDrainers:
processes are interchangeable and it checks safety only.

## 4. Fairness

* A stopped drainer is started again: `restart: always` in `docker-compose.yml`.
* Timers fire and the poll loop reschedules itself (`drain.ts:214`): weak fairness of
  waking up, maintenance and claiming, and of time.
* Requests end: the abort timer bounds each at 5 s. Which answer comes is not fair; in
  particular nothing says that Radar ever answers 2xx.
* A database call that no fault hits commits; faults are finitely many in an instance,
  which is the assumption that the database works in the end.
* A run's awaits settle: HTTP and database calls by their timeouts; tools by abort and
  their own limits (`docs/conversation-cancellation.md` names the exceptions, a DNS call
  or an injected SDK promise that never settles: then the slot is held, by design).
* Requests to Slack, Radar, GitHub and the database in UserOAuth, MentionReplacement,
  Answer, MeetingReminders and RepositorySnapshots end, well or not, by their timeouts:
  weak fairness of a call's own steps. Which way they end is not fair.
* A signal, a login, a grant, an edit, a command, a reaction or a clone need never come.
* In MCBackground fairness is asked of the steps of the part a behaviour follows; it is
  each module's own fairness, conjoined with `focus`.
* Nothing is assumed of redelivery, of cancelling, of deadlines or of cache expiry.

`EventuallySettled` allows one other end: that a configuration error has halted every
drainer; a restart is then an operator's decision.

## 5. Proofs

All theorems hold for every value of the constants that satisfies the module's named
assumption, so for any sets of events, deliveries, processes, credentials and messages
(finite where a count needs it) and any number of faults. The assumptions say what the
code or its database guarantees: limits are natural numbers, positive where the
configuration demands it (`Lease`, `BatchSize`, `RecentTurns`); absent values ("no
token", "no cursor", `null`) are not values; a call is of one kind; a message of a search
page has a role and a text. Every safety property the runs check has a theorem, and both
refinements. TLC checked each property first, and the larger inductive invariants on an
instance before they were proved.

Every proof has the same shape. The property is not inductive; it is strengthened by the
parts named below; each part is kept by each action (one step or lemma per action), and
where many actions do the same to a part, a lemma first says what any step may do to it
(`RowStep`, `FlightMove`, `AccessMove`, `HandlerMove`, `Balance`), and the part is proved
from that alone.

**RelayOutboxProofs**

* `TypeCorrect` (`TypeOK`): one lemma per action; the actions' numeric facts (backoffs,
  clamped Retry-After values, timers) are separate steps.
* `FencingHolds` (`OneClaimant`): not inductive, because a claim in memory or a late write
  without a token could be matched by a row that has none. `ClaimInv` adds that every
  claim in memory and every orphaned write carries a token. A step then gives up tokens,
  jobs or writes (`ClaimsShrink`), turns jobs into late writes (`ClaimsOrphaned`), or
  claims rows with a token that nothing else knows (`ClaimsClaimed`).
* `DeliveredMeansCommitted` (`DeliveredWasAccepted`): an outcome "delivered" is only ever
  in a job or an orphaned write if Radar has accepted the event; only such outcomes
  reach the table.
* `OutboxKeepsPromise` (`KeepsPromise`): initial states map to initial states; each
  action maps to one step of RelayDelivery or to a stutter, under the two invariants
  above.
* `EndsAreFinal` (`TerminalIsFinal`): every statement on the table either leaves an ended
  row alone or is its retention, for any token and outcome, so the invariants on claims
  are not needed: type correctness is enough.

**RelayAttemptsProofs**: every step does one of four things to a row (`RowStep`): it
leaves the claim as it is, claims it, writes its claim's outcome, or begins its life anew.

* `ClaimsLeakByFault` (`ClaimsLeakOnlyByFault`): a claimed row is tended by a process that
  can still record its outcome, or there has been a fault. It needs that a process between
  two batches has no jobs (`Idle`), and that a lease outlasts its batch but for a fault.
* `AttemptsAreCounted` (`AttemptsCount`): `Budget` bounds the counter of a row that can be
  claimed again; `Tries` and `Records` relate the counter to the requests made and the
  faults, for the row and for every outcome that a worker or a late write may still record.
* `RetryAfterIsHonoured` (`RetryAfterHonouredWithoutFaults`): `Calm`, which is about
  states without a fault so far: every job is of its row's present claim, whose lease
  lasts, and what is left of a Retry-After is covered by the row's timer, by its being
  parked, or by the outcome about to be written.

**ConversationProofs**

* `TypeCorrect`, `LanesAreHeld` (`LanesHeld`): `LaneInv` says that a lane holds exactly the
  pending runs of its session, each once, headed by the one that holds or awaits a slot;
  that whoever stands in line is waiting; that `active` counts the holders. Lemmas on
  queues (joining, leaving, the head of what is left) carry the release step, which hands
  over a lane and a slot at once.
* `RunsOnce` (`AtMostOnce`), `OneVerdictHolds`, `FailureHasAWord`, `StoppedLeavesNone`:
  `Standing` says for each place of a run what may have become of its delivery; `Claimed`
  that what has run is in the ledger; `Outcomes` that a completed request was committed or
  its COMMIT went unanswered. `WordOnFailure` is about words sent: that a failed or stopped
  run sends one is proved, that it arrives is not so (section 6).

**DialogueProofs**: `CacheInv` says that the cache of a thread is empty or what the
database would return, and that a run at work holds the history the database (or, for a
channel thread, Slack) would give it now: nobody else can change it, since the run is
alone in its lane. `CacheIsCoherent` and the refinement `RuntimeKeepsDialogue`
(`KeepsDialogue`) follow; the lemmas are about the last `RecentTurns` turns of a growing
dialogue.

**AnswerProofs**: `AInv` joins where the run is with what is shown (one way of showing the
answer at most, none before its turn), with the preview (no request of it under way once
it is sealed), with the verdict (what is saved is never called a failure), and with
`delivered`. `AnsweredOnce`, `SavedIsNeverDenied` and `GoneIsShown` follow, and the action
property `FinalIsKept` (`FinalStays`).

**UserOAuthProofs**

* `LinksGrantOnce` (`OneGrantPerLink`): by counting, callbacks past their state against
  states used up.
* `SuccessorStaysInReach`, `NothingIsOrphaned`, `LossHasACause` (`LostOnlyForCause`):
  until the first fault a new credential is, before it is stored, in one pair of hands, a
  refresh's or a callback's (`Hands`); what is about to be stored is good (`Tokens`); who
  goes on from a spent or refused token has seen it so (`Spent`, `Refused`); the stored
  refresh token is good or the refresh that spent it holds the successor (`Reach`); and a
  live one is stored, abandoned in one of the two ways above, or held (`Orphans`).

**MentionProofs**

* `CatalogIsCurrent` (`CatalogWasCurrent`): Radar never returns to a revision, so an
  answer is none of what was gone when its request was sent, and a request is under way
  only while nothing at hand is fresh.
* `NobodyIsLeft` (`NeverSilent`), `GrantsSurvive` (`GrantSurvives`): a call goes by the
  credential that was the last when it asked, and only the last can be stored.
* `ReplacedOnceOnly` (`ReplacedOnce`): until the deduper forgets the message it has either
  not been taken up, and nothing has happened to it, or no later delivery sees it.

**BackgroundProofs**

* `AckedWasCommitted` (`AckedIsDurable`): the set of committed keys holds nothing the
  outbox does not, and nothing is passed on before it is received. `QuietWhenClosed`, the
  safety half of `ShutdownQuiet`: from `close()` on no commit begins, and those under way
  are among the awaited.
* `RemindedForCause` (`RemindedOnce`): the posts of a reminder, the claim that may still be
  made and the polls that may still post are at most one more than the causes.
* `LinkedForCause` (`RelayedForCause`): per channel, links made and to come, handlers that
  ask and events owed, against excuses and the people who react (`Fits`).
* `SnapshotsAreKept` (`SnapshotsKept`): only the first in line at the gate measures and
  evicts, what it found expired nobody has begun to read, and the reserve is one
  reservation for each clone with a staging directory.
* `SearchesAddUp` (`PagesAddUp`): a chain goes on from one place at most, its cursor or the
  search that holds it (`Apart`), although cursors expire, are evicted while they are in
  flight and are asked for twice; and that place knows the chain's `Story`: the latest role
  of every message given and, while nothing was left out, the one text it has. The lemma
  `NextStory` is about one page and any earlier ones.

Only model-checked: liveness (`EventuallySettled`, `StopEnds`, `EveryDeliveryEnds`,
`CallsEnd` of both modules, `EndsClearly`, `BackgroundSettles`, the second half of
`ShutdownQuiet`), because the prover has no support for ENABLED; and what the pure
operators of DialogueContext, AnswerBlocks, EventIntake, RepositoryPages, WebContent,
Migrations and MentionText compute, which is asserted for the inputs of an instance: they
are recursive functions and folds, and the library's induction theorems take an operator,
which the provers cannot instantiate. Where a least element of a set of numbers is enough
(`LeastExists`, from the well-foundedness of `<`), the same argument can be made without
them; `WantedPlace` of the search is proved so.

## 6. Disagreements between documents and code

1. *Retry-After* (`RelayRetryAfter`). `docs/slack-message-relay.md:59` promises the whole
   Retry-After as a durable delay, never an earlier retry. If the write that defers the
   row fails, the row is sent again when its lease runs out. Without faults the promise
   holds (`RetryAfterHonouredWithoutFaults`).
2. *Halt on configuration errors* (`RelayConfigHalt`). `docs/slack-message-relay.md:61`
   promises that the drain stops. The flag is set after the awaited park write, so a
   failed write leaves the drainer running and the row due after its lease.
3. *Stopped turns and history* (`ConversationLateCommit`).
   `docs/conversation-cancellation.md:50` promises that a cancelled or timed-out turn is
   not part of a later history. When the answer to COMMIT is lost the turn is durable,
   the control is back in "running", and the user is told of a stop. If every COMMIT is
   answered the promise holds (`StoppedLeavesNoTurn`).

Noted without a run, because code and text can be read to agree:

* `live-answer.ts:94` says that waiting for the request under way prevents a late
  overwrite. It does for requests that settle. One that was given up at its time limit
  may still be applied by Slack afterwards; `FinalStays` excludes exactly that (`late`).
* `docs/team-meeting-local-test.md:85` has reminders posted once. `RemindedOnce` shows
  for what causes a reminder appears again: a post or a mark without an answer, a failed
  mark, a claim taken over from a stalled or crashed process.
* A clone that ends while another measures the disk is in neither its sum nor its
  reservation (`repository-snapshots.ts:101`); the docs speak of an observation.
* A stopped or failed run may end without its user having seen a word, no crash needed.
  `onAbort` marks the user as notified before it sends the notice, the cooldown may
  withhold it without a request, and its failure is swallowed
  (`cancellation/slack-controls.ts:75`); the handler then sends no error text, and where it
  does, swallows the failure of that (`slack/handlers.ts:149`). After a notice `finish()`
  leaves the control message as it is. `docs/response-delivery.md:32` accepts this: a known limit goes before
  an immediate notice. `WordOnFailure` names it (`unheard`).
* `invalidateAccessToken` erases both tokens of a credential and revokes the access token
  only (`user-oauth/token-service.ts:249`). Where that had merely expired between its
  validation and its use, the refresh token stays live at Slack, in nobody's store, without
  any fault. The same holds for a credential that a later grant is saved over. `NoOrphans`
  names the two (`abandoned`) and excludes any other.
* A mention in a message that was edited between its event and the update is replaced in
  the event's text, so the edit is lost (`mention-groups/service.ts:219`). A mention group
  call whose link cannot be made ends without a word to the author, as does one whose
  notice Slack refuses: both are logged.
* An addition and its removal of an attendance reaction are sent without regard to each
  other; a retried addition can reach Radar after the removal, which carries its time.

## 7. Plan

Built: all components of section 1 that are modelled, and theorems for every safety
property of the runs and both refinements. What is left:

1. Lemmas on the pure operators by least counterexample: that the pages of
   `RepositoryPages` cover a listing, and that `AnswerBlocks` keeps every line, need their
   recursions stated so that the argument applies.
2. The safety parts of liveness properties as invariants of their own, such as "a stopping
   drainer has no job that nobody ends", so that what TLC shows of ends on small
   instances rests on less.
3. The three hazards of `PROJECT.json` without a property, and what the notes of others say
   no property covers (a crash within a rotation, an authorization asked for in vain, an
   edit overwritten, two additions of a reaction at once).

## 8. Not modelled

* Downloads, header checks and parsing of attachments and images: I/O in one function
  each, with a count of two parsers taken and returned in it.
* Requests of the web, GitHub and PostHog tools, authorization of Slack reads, and the
  projections of their answers: sequential, and tests reach them.
* Prompts, tools' registration and model policy: their effect on what is modelled is the
  choice between an answer and a failure.
* `canonical-answer.ts`, which joins steps the model library ends; `streaming.ts`, which
  only tests use; `TokenService.revoke()`, which nothing uses.
* The words of messages, logs, metrics and diagnostics; encryption; configuration
  parsing; deployment scripts.
