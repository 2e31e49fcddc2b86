# A TLA+ model of corbits-memory

corbits-memory is a document memory for people and agents: captures are stored
as versions of documents in Postgres, cut into chunks, embedded by a model and
found again by hybrid (full text and vector) search. The modules here model the
parts of it that have state and can go wrong between two steps: the write path
and its feed, the retention verbs, the replay pipeline, the background embedding,
the registry of embed models, the chunker, the distiller, access by tags and
grants, the degrade metrics, search in its two halves, and the list. TLC checks
them on small instances; TLAPS proves what matters most of each of them for every instance.

Paths below are relative to the repository; `services/`, `core/`, `distiller/`
and single files are under its `src/`.

## The system

| Part | State | Operations | Meets the others by |
| --- | --- | --- | --- |
| Capture write path (`services/capture.ts`) | `document`, `version`, `raw_capture`, `chunk`, entities and edges; two advisory locks | capture, derive from a stored raw capture | the feed, retention, transform and search read and write its rows |
| Capture feed (`services/feed.ts`) | none; the consumer keeps a cursor | one page after a cursor | a consumer polls while captures commit |
| Retention (`services/retention.ts`, `retention-ownership.ts`) | statuses, retention class, redacted text | deprecate, forget, purge, sweep, set class | same rows as the captures, partly outside transactions |
| Transform (`services/transform.ts`) | `transform_run`, the generation tag of a version, the active embed model | run (replay), promote, demote | replays through the write path; moves the rows captures write |
| Embed scheduler (`services/capture.ts`, `core/embed-worker.ts`) | per-process drain state of each tenant, a chain of promises; the embedding tables | enqueue, pass, retry, sweep of pending chunks | each add enqueues; purges delete what a pass is embedding |
| Embed model registry (`core/embed-model-registry.ts`) | `embed_model`, one table per model | ensure, activate, promote, restore, clear | captures, sweeps and switches activate, replays only ensure |
| Hybrid search (`services/search.ts`, `core/hybrid-search.ts`, `mmr.ts`, `corroboration.ts`, `authority.ts`) | none | one search: two channels, fusion, counts, rerank, diversify, evidence | several statements without a transaction over tables that change |
| Federated search (`memory.ts`, `core/merge-local-live.ts`) | none | store, then live sources with timers, then merge | calls the store and sources the host mounts |
| Access (`grant-tags.ts`, `services/share-grants.ts`, `memory.ts`) | access tags of a document, grants of the host | share on add, filter | an add commits, then stamps a tag, then writes grants |
| Distiller (`distiller/`) | the cursor a host stores | tick | reads the feed, adds claims to the memory it reads |
| Degrade metrics (`core/degrade-metrics.ts`) | per process: a ring, counts and alarms per tenant, a bound on tenants | record, configure, snapshot | every search records its flags |
| Timeline and list (`services/timeline.ts`, `routes/list.ts`) | none | one list: a window, then the grant store row by row | reads what captures write, asks the host's store |
| Chunker and capture planning (`core/chunk/`, `core/adapt-and-plan.ts`) | none | split, group, merge a remnant, plan a document | each capture calls it before its transaction |
| Rerank client (`core/rerank-client.ts`) | none | validate a configuration, cut documents to a budget | search calls it |
| Text search language, routes, workflow mount, tools, migrations, configuration | mostly none | see "What is abstracted or left out" | |

What is hard in it, and what each part has to get right:

- **Concurrency in Postgres.** Everything is READ COMMITTED. A capture reads the
  active version and inserts the next one: one active version per document and
  generation, numbers without collision, whatever runs beside it. Forget, purge,
  promote and demote are made of statements that see different snapshots.
- **Order.** `feed_seq` is drawn at insert and visible at commit; a cursor must
  never pass a number that will still appear.
- **Failure.** An aborted transaction, a process that dies between statements or
  with a drain in flight, a reranker or embedder or live source that fails, hangs
  or answers late. Nothing may be lost silently; what is lost must be said.
- **Staleness.** Evidence from counts read before, vectors of chunks purged since,
  tags of a page read before the claim is added.
- **Limits.** A ring that wraps and is resized, a bound on tenants, pages, windows,
  sweeps and reranker lists that are cut, chunks and pairs that must fit a cap.

`PROJECT.json` lists these one by one under `hazards`, with the line at which each
bites and the properties that cover it.

## The modules

| Module | Models | Built on |
| --- | --- | --- |
| `Capture` | capture and replay transactions, the feed page | |
| `FeedLog` | what the feed promises a consumer (abstract) | implemented by `Capture` |
| `DocumentHistory` | what captures promise of a document (abstract) | implemented by `Capture` |
| `CaptureProofs` | theorems about `Capture` | `Capture`, `FeedLog`, `DocumentHistory` |
| `Retention` | the five retention verbs against captures | extends `Capture` |
| `Transform` | runs, promote and demote against captures, and a search across them | extends `Capture` |
| `CorpusProofs` | theorems about `Retention` and `Transform` | both, and `CaptureProofs` |
| `EmbedScheduler` | drains, passes, retries, sweep, crash | uses `Subsequence` |
| `EmbedRegistry` | registering, activating and clearing embed models by several processes | `Transform` takes a promote's activation as one step of this |
| `Chunker` | the cuts, groups and chunks of a document's texts | |
| `EmbedProofs` | theorems about the way of a text to its vectors: `Chunker`, `EmbedScheduler` and `EmbedRegistry` | all three, and `Subsequence` |
| `Distiller` | the tick and its feed | its feed is the log `Capture` implements |
| `DistillerProofs` | theorems about `Distiller` | |
| `DocumentAccess` | share on add, tags, grants, the ownership gate | |
| `AccessProofs` | theorems about `DocumentAccess` | |
| `DegradeMetrics` | the metrics | uses `Subsequence` |
| `Subsequence` | filtered and sorted lists, with the theorems about them | used by `EmbedScheduler`, `DegradeMetrics` and `HybridSearch` |
| `HybridSearch` | one search against a changing corpus | uses `Subsequence` |
| `RerankBudget` | what a reranked pair may hold | instantiated by `MCTimeline` |
| `Timeline` | one list against a changing corpus, tags and grants | extends `HybridSearch` |
| `SearchProofs` | theorems about `HybridSearch`, `Timeline` and `RerankBudget` | all three |
| `FederatedSearch` | one search over the store and live sources | |
| `DegradeProofs` | theorems about what is said of a failing part: `DegradeMetrics` and `FederatedSearch` | both |

Each `MC<Module>` gives a module's constants their values for TLC. Definitions
commented "Mutant:" are not part of a specification: each is a definition beside
it as a plausible bug would have it, and the property named for it in
`PROJECT.json` is refuted when it takes the definition's place.

### Capture

A call is a value of `Captures`; `pc[c]` is the statement it is at. The steps are
the statements that take a lock or read what others write: `InsertOrReuseRawCapture`
or `DeriveFromRawCapture` (a replay), the capture lock, the reads of document and
active version (`ReadHead`), the UPDATE that supersedes, the feed lock, the INSERT
with its `feed_seq`, and `Commit`. `Abort` ends a transaction at any of them, and
stands for a statement that fails and for a process that dies: Postgres rolls back
either way, but the `feed_seq` that was drawn stays drawn. What a transaction has
written is kept in `req`, `head` and `seq` and reaches `rows`, `docs` and `raw` only
at commit. `Poll` is one page of a consumer that stores the cursor it is given.

A row waits where Postgres waits: a raw capture of the same source hash inserted by
an open transaction, a row another has superseded (`RowLocked`), a lock that is held.

### Retention

`DeprecateVersion`, `SweepEphemeral` and `SetRetentionClass` are one UPDATE. Forget
is three statements outside a transaction (tombstone, chunks, raw captures), the
first split at its snapshot since an UPDATE that waits for a row does not see rows
committed since it began. Purge is a check and a read on their own, then the
deleting transaction. A forget may die between its statements.

### Transform

`RunTransform` takes the raw captures it finds; each is replayed by the transaction
of `Capture` into the run's generation (`ReplayRow`), may fail (`RowFailed`), and the
run may die at any row. Promote and demote (`Switches`) check their run in statements of
their own (`PromoteCheck`, `PromoteReadPrior`, `DemoteCheck`), and any number of them may
have done so when one opens its transaction (`SwitchOpen`): nothing keeps them apart but the
rows of `embed_model` and of `version` they both write.

Its two UPDATEs take the rows of their snapshots one by one, in any order (`TakeRow`). A row
that another has locked is waited for, with those it has already taken kept; a row that has
meanwhile left the generation stays where it is (`GenFor`); a row whose entry of the unique
index another transaction has in hand stays at hand until that ends (`AtHand`, `EnterRow`),
and an entry that is taken fails the switch (`SwitchRefused`). What is moved stands in
`switch[s].out` and `into` and reaches `rows` at `SwitchCommit`, with the bookkeeping of the
run and the active model. `SupersedeUnheld` and `NumberMoving` make captures wait for rows
and entries that a switch has in hand. `Awaits` is who waits for whom; of those that wait for
each other in a circle Postgres fails one (`CaptureVictim`, `SwitchVictim`).

### EmbedScheduler

A step is what runs between two awaits. `queue[t]` is the state `enqueue` keeps for a
tenant, `chain` the promise chain on which drains follow one another, `pass[t]` the
pass a drain is in: fresh chunks with at most `MaxAttempts` attempts, then a sweep of
`PendingLimit` pending chunks. An attempt registers the model (`RegisterModel`), sends the
texts in requests of `BatchSize` (`SendBatch`) and stops at the first that fails, then writes
the vectors one by one (`StoreVector`); the sweep registers again (`RegisterForSweep`), looks
for what is pending (`FindPending`), sends and writes. Each of these awaits may fail. `fails`
counts for a chunk the attempts that failed with it among the fresh ones, sent or not. `Crash`
takes `queue`, `chain` and `pass`, and leaves the tables.

### EmbedRegistry

A process makes one call after another: `ensure` (a replay), `activate` (a live capture
or a sweep), or the part of a promote or demote that switches the model (`promote`,
`restore`, `clear`), which runs in that transaction. `ensureEmbedModel` is its upsert,
the look for the table, CREATE TABLE and CREATE INDEX, each a step, since IF NOT EXISTS
looks before it creates: of two that find the table missing one is refused. A refused
hnsw index falls back to ivfflat outside a transaction only. The statement that activates
one row and demotes the others takes its snapshot first (`StartSwitch`) and then each row
as its lock comes free (`UpdateRow`), testing it again. What is not committed stands in
`mine` and in `built` of the call; `CallFails` ends a call anywhere, and Postgres one of
those that wait for each other in a circle (`DeadlockVictim`).

### Chunker

`Split` makes the leaves of a text by the separators in their order, and by hard cuts
where none is left; `Join` and `Close` are the turns of the loop in `mergeLeaves`, with
the leaves in hand given by where they begin (`lo`) and end (`pos`); `Finish` closes the
last group, merges a remnant, and plans. Characters are told apart by the separators only.

### Distiller

`log` is the feed in order. A tick reads a page with the tags it shows (`tick.tags`),
judges its entries in order, adds claims, and stores the page's cursor only at its
end; a fault at any await ends it with the old cursor. `OtherAdds`, `Retag`, `Retire`
and `SetGrants` change the feed and what the distiller may read in between.

### DocumentAccess

An add that shares is a commit (with the tags of the document), a stamp of the
document's own tag and one grant per peer, each a step that may fail where the host's
store does not provide it. Captures and replays of the document, by anyone, write its
tags anew. `Sees` is the filter search and list apply; `OwnersOf` is the gate of
forget, a set because the query's order leaves ties.

### DegradeMetrics

`Record` is `recordDegrade` with its eviction, `Configure` the host's call, with
configurations that are to be refused among its inputs. `recent` is what the ring
stands for: the last searches since the window was last emptied.

### HybridSearch, Timeline and FederatedSearch

`HybridSearch` takes the two channels, the counts of either list, the reranker, the
chunk vectors and the filter as separate steps, while versions are captured, retired
and embedded and supports are added. Ranks within a channel and the reranker's order
are any. `Timeline` is the other read of the same corpus: a caller either searches, by
`HybridSearch`, or lists. `ListRead` takes the window of newest active versions with
their tags in one statement; `TakeRow` and `Authorize` put its rows to the grant store
one tag at a time, while documents are captured again and retagged (`Recapture`), retired
and grants change; `ListReturn` cuts. `steady` and `lately` record what was so all along,
and at some time, for the properties. `RerankBudget` is the arithmetic of a pair sent to
the reranker, which `HybridSearch` leaves out. `FederatedSearch` takes the store first and then every asked source at once:
it answers, fails, or its timer fires, and the backend may still end afterwards.

## What the runs check

Every property has a mutant that refutes it. `CHECK_DEADLOCK FALSE` is said where the
calls of an instance may all have ended.

| Run | Instance | What it shows |
| --- | --- | --- |
| `capture` | 3 captures or replays, 2 documents, 2 contents, 1 staged generation, pages of 2 | one active version per document and generation (in `CaptureInv`), `NoVersionClash`, `CursorSafe`; the write path implements `FeedLog` (`LogSpec`) and `DocumentHistory` (`HistorySpec`); every visible version reaches the consumer (`EveryVersionDelivered`) |
| `retention` | 3 captures of 1 document, 1 forget, 1 purge, any number of deprecations, sweeps and class changes | a forget leaves no text of what it tombstoned (`ForgottenIsRedacted`); no version outlives its document or raw capture and the active version is the highest one (in `RetentionInv`) |
| `transform` | 2 stored documents, 2 more captures or replayed rows, 1 run, 2 switches that may overlap | only complete generations become live (in `TransformInv`); an archive is lost only to a switch whose run changed after it was read (`OnlyStaleSwitchesStrand`); a replay writes its own staged generation only (`ReplayLeavesLiveAlone`); every switch and capture in a transaction ends, circles of rows, index entries and locks included (`TransactionsEnd`) |
| `embed` | 3 adds of 2 tenants, 2 attempts, requests of 1 text, sweeps of 1, 2 outages, 1 crash, 1 purge or forget | one drain at a time (in `EmbedInv`); an add whose promise resolves has its vector, is purged, or was in as many failed attempts as a pass makes (`SettledOnlyWhenDone`); no vector without its chunk (`NoOrphanVector`); every add that joined is settled or lost with the process (`WaitersSettle`) |
| `registry` | 2 processes, 2 models, 1 of them wide, 3 calls, from what any earlier calls may have left | what is active can be searched (in `RegistryInv`); a tenant with an active model keeps one, and the model in use changes by a switch only (`ActiveKept`); an activation nobody overlapped leaves its model alone active (`LoneActivationHeals`); every call ends (`CallsEnd`) |
| `chunk` | every text of up to 7 characters, longer ones over fewer separators, documents of two texts; caps 4, 3 and 3 | no text is lost between chunks (in `ChunkerInv`); chunks and overlaps keep their bounds (`ChunksBounded`); a word is cut only if it is longer than the cap (`WordsKept`); every text comes to its end (no deadlock) |
| `distiller` | 2 documents, 1 of them refused at the add, pages of 2, 3 claims, 1 failure, 1 change | nothing the cursor passed was dropped, and no claim of a claim (in `DistillerInv`); a version is claimed once and once more for each tick that failed, unless a later entry is refused (`ClaimedOncePerFault`); the feed is drained unless an add is refused for ever (`FeedDrained`) |
| `access` | 2 principals, 2 documents, 2 adds, 1 replay, hosts with and without stamps and writable grants | an answer `grantsMaterialized` is true, and only the creator forgets a document while no replay derived it again (in `AccessInv`); nobody sees a document that was not given to him (`SeenWasGiven`) |
| `metrics` | 3 tenants of whom 2 are tracked, 1 flag, 6 configurations of which 2 are refused | the ring holds the last searches (in `MetricsInv`), counts are those of the ring (`CountsMatchBuffer`), all-failing searches raise the alarm under every accepted configuration (`TotalFailureAlarms`), an alarm is evicted only when all tenants have one (`AlarmsOutliveEviction`) |
| `search` | 3 documents, 4 versions, 2 changes in the course of the call; a search for 2 hits, or a list of 1 from a window of 2 | of a search: one hit per document, none that was inactive all along (in `ReadInv`), every lost stage said (`SaysSo`), "strong" only with a ground (`StrongHasGround`); of a list: newest first and each on a ground (in `ReadInv`), and every document that one reason showed throughout is in it (`SteadyIsListed`). Its `ASSUME PairsFit` tries `RerankBudget` at the sizes where its cases part |
| `federated` | 2 live sources, 3 keys, 2 hits asked for, every filter | the store's copy wins and "strong" is of the store's hits alone (in `FederatedInv`); flags are exactly what was not waited for (`SaysWhatFailed`); a source's failure takes no other hits (`FailureIsContained`); the search ends (`SearchEnds`) |

A property that ends in `Inv` is its module's type invariant together with the
properties the table says are in it.

One run finds the program at odds with its documentation (`findings`): in
`retention_readd` a document whose only version was deprecated, swept or forgotten
cannot be added again, since the new version takes number 1, which the retired one has
(`services/capture.ts:497`; README.md:80).

### Further divergences

Each of these properties states what a document or a comment says; TLC refutes it
within two minutes. They are kept to be run by hand, each with the constants of the
configuration named, where it takes the place of the configuration's own properties.

| Property | Configuration | Said in | What the model shows |
| --- | --- | --- | --- |
| `ForgottenLeavesFeed` | `MCRetentionReadd.cfg` | docs/RETENTION.md:46 | a capture that read the version as active supersedes it by id after it was tombstoned, and the feed shows it again |
| `ForgetLeavesNoText` | `MCRetentionText.cfg` | docs/RETENTION.md:49 | a forget that died after its first statement is not finished by the next one |
| `ForgetLeavesNoRaw` | `MCRetentionOrphan.cfg` | docs/RETENTION.md:49 | the raw capture of a noop belongs to no version and keeps its text |
| `PurgeTakesRaw` | `MCRetentionReadd.cfg` | docs/RETENTION.md:52 | a purge leaves a raw capture of the document |
| `PurgeSparesDurable` | `MCRetentionReadd.cfg` | docs/RETENTION.md:53 | a version made durable between check and delete is purged |
| `DemoteBringsBack` | `MCTransformDemote.cfg` | migrations/0005:3 | a capture across a promote supersedes the archived version, and the demote brings back a document without an active version |
| `GenerationIsItsRun` | `MCTransformOrder.cfg` | `services/transform.ts:634` | a demote of the run that is not live moves another run's versions onto its tag |
| `SearchSeesOneSide` | `MCTransformSearch.cfg` | `services/transform.ts:603` | a search resolves one side's model and reads the other side's rows |
| `CursorSafe` across promote | `MCTransformDemote.cfg` | migrations/0006:1 | promoted versions become visible behind a stored cursor |
| `ActivationAccepted` | `MCTransformRegistry.cfg` | `core/embed-model-registry.ts:123` | without the unique index and status its SQL names, the registration is refused |
| `NeverLeftPending` | `MCEmbedPending.cfg` | `services/capture.ts:957` | a chunk whose pass gave up waits for some later add of its tenant |
| `SweepProgresses` | `MCEmbedPoison.cfg` | `services/capture.ts:790` | a refused text at the front fails every sweep |
| `ClaimsNeverWiden`, run-scoped | `MCDistillerWiden.cfg` | `distiller/claim.ts:6` | the mount adds the tenant's tag to a claim of a narrower source |
| `ClaimsNeverWiden`, any mount | `MCDistiller.cfg` | `distiller/claim.ts:6` | a source is narrowed after its page was read, and the add writes the claim with the tags it had then |
| `SearchSaysSo` | `MCFederatedSearch.cfg` | README.md:9 | the store falls back to full text and flags it, and the merged search drops that flag where evidence is not asked for |
| `CreatorSees` | `MCDocumentAccessPeers.cfg` | docs/AUTHZ-DOCUMENT-ACCESS.md:30 | a peer's capture takes the creator's own tag away |
| `ShareWritesTags` | `MCDocumentAccessPeers.cfg` | docs/AUTHZ-DOCUMENT-ACCESS.md:70 | an add answered noop writes no tags |
| `SharedStaysSeen` | `MCDocumentAccessPeers.cfg` | docs/AUTHZ-DOCUMENT-ACCESS.md:85 | the next capture drops the document's own tag |
| `ReplayTouchesNothing` | `MCDocumentAccessPeers.cfg` | `core/generation.ts:3` | a replay overwrites the tags of the document row |
| `OwnerStable` | `MCDocumentAccessPeers.cfg` | `services/retention-ownership.ts:21` | a replayed version 1 ties with the first one |
| `NothingStranded`, two promotes at once | `MCTransformDouble.cfg` | migrations/0005:2 | two promotes of one run pass the check before either commits; the second archives the promoted corpus and overwrites the tag of the first archive |
| `NoEntryBlocksFeed` | `MCDistillerDoomed.cfg` | `distiller/claim.ts:85` | a claim the add refuses fails every later tick at the same entry |
| `StaysSole` | `MCEmbedRegistry.cfg` | `core/embed-model-registry.ts:314` | activations that overlap demote each what they saw active, and leave both models active |
| `PromotedStays` | `MCEmbedRegistry.cfg` | `core/embed-model-registry.ts:213` | the next capture of an engine configured with another model takes the promoted one's place |
| `CapsHold` | `MCChunker.cfg` | `core/chunk/types.ts:1` | a chunk that begins with an overlap, or took a remnant in, is longer than the cap |
| `SpanIsText` | `MCChunker.cfg` | `core/chunk/token-recursive.ts:39`, `core/adapt-and-plan.ts:33` | a merged remnant repeats its overlap, so the chunk's text is not what its span shows |
| `NoneSwallowed` | `MCChunker.cfg` | `core/chunk/token-recursive.ts:81` | where the overlap is as long as a group, the next chunk repeats it whole |
| `TrackedWithinMax` | `MCDegradeMetrics.cfg` | `core/degrade-metrics.ts:57` | a lowered bound is kept only from the next new tenant on |

## Bounds, and why they are enough

- Two transactions are enough for every lost update and lock order in the code, and
  three for a reader between a waiter and a holder; `capture` and `retention` have three.
  Two documents show that the capture lock is per document and the feed lock is not.
- Two contents tell noop from supersede. One time is enough: two source hashes for one
  content change only which raw capture is reused.
- `transform` starts from what captures one after the other leave (`StoredInit`): a version
  of each of two documents, and a run that has not begun or was over before there was
  anything to replay. Two documents and two captures are the least for the circle in which a
  switch waits for the row of one capture, that one for the feed lock of the other, and that
  one for the switch. `InOrder` keeps, of the calls that are alike, one order in which they
  begin; captures bring a content that is not stored, and the search and the feed's consumer,
  which touch nothing the properties speak of, come before them or not at all. Two switches
  are a promote and a promote or demote that overlaps or follows it; the archive of a third
  would be lost in the same way.
- `embed`: three adds of two tenants let one add join a drain, one come too late for it,
  and one wait for its turn; two outages exhaust the two attempts of a pass.
- `metrics`: rates are quarters, so that the smallest window a valid configuration admits
  is four and wraps within a few searches. Its state space is finite without a bound.
- `registry`: two processes show every overlap of two switches; a third call is the one
  that finds what they left. What more earlier calls could leave is in the initial states:
  any models active, in any order. Two models are one that is demoted beside one that is
  activated; one is wide because its index has no fallback.
- `chunk`: a cap of four holds a pair of newlines, a word and a break; eleven characters
  make three groups and a remnant. Caps satisfy `MinChars <= MaxChars`, as the default
  caps do; a replay's configuration may set any, which the model then says nothing of.
- `search`: two hits asked for and three documents make every cut drop something; two
  changes are what two reads can disagree on. The list's window is twice its limit (the
  code's is four times), so that it can be full while a document is outside of it.
- Rerank sizes are those around the model limits and the least budget of 200 characters.
- The bounds named `Max...` limit counters the code does not bound: claims, failures,
  changes, outages, crashes, removals, replays.

## Fairness

Liveness is checked under weak fairness of the steps the code takes by itself, never
of a caller's. Postgres runs a statement whose locks are free (`Advance`, and the same
with a switch's rows, `AdvanceUnheld`; `SwitchStep`; `Step` of the registry) and finds those
that wait for each other in a circle (`CaptureVictim`, `SwitchVictim`; the registry's
`DeadlockVictim`); the consumer polls again (`Poll`)
and the host ticks again (`TickStep`), as docs/FEED.md asks of them; the event loop
runs a continuation that is ready (`Enqueue`, `PassStep`), and the embed and rerank
calls have timeouts of their own; `setTimeout` fires (`TimerFires`). Nothing is assumed
of live sources, of the embedder's success, or of anybody adding more.

## What is proved

TLAPS checks these for every value of the constants that meets the modules' `ASSUME`s;
TLC evaluates those in every run.

**CaptureProofs.** `OneActive` alone is not inductive: that the insert of a new version
leaves one active depends on what the capture read still being so. The invariant `IInv` is
`TypeOK` and

- `HoldsLocks`: a transaction past a lock's statement holds that lock;
- `OnlyCommittedPresent`: a version that is in the table was written by a call that has
  committed, and belongs to a document;
- `HeadIsCurrent`: what a transaction under the capture lock read as the active version
  is still the only active one, and the number it will write is above every one of the
  document and generation;
- `ActiveIsTop`: wherever there are versions there is an active one, and it is the highest;
- `FeedOrder`: the sequence number of a live version about to commit is above every visible
  one and above the cursor, and all are below the next;
- `OneActive`, `NoVersionClash`, `CursorSafe`.

Each action has a lemma that says it keeps `IInv`; `NextIInv` combines them. From it:
`TypeCorrect`, `OneActiveAlways` (of `CaptureInv`), `NoVersionClashEver`, `CursorAlwaysSafe`, and
`FeedImplementsLog`, the refinement: a commit of a live version is `Publish`, a page that
returns something is `Consume`, all else stutters.

The refinement of `DocumentHistory` needs two more. `Numbered`: the versions of a document
and generation have the numbers from 1 to as many as they are, each once; so an entry of the
history is the content of one version (`NumberedRecorded`). `Appends`: what a transaction read as
its head is the last of these, its own number is the next, and its content another, unless it
ends as a noop. A commit is then one `Append1` (`CommitAppends`), and nothing else writes the
table: `CaptureImplementsHistory`.

**CorpusProofs.** The retention verbs and the switches write the rows that captures write,
so `IInv` does not survive them: a retired version is not the head that a waiting capture
read, and an archive has its document's rows under another tag. `RInv` of `Retention` keeps
what does.

- `Tables`: `OneActive`, `ActiveIsHighest` and `NothingOutlivesItsDocument`, with what they
  lean on: every line of versions that has any has number 1 (`LineHasFirst`), since a capture
  that finds no active version writes number 1 and is refused where there is one.
- `Transaction`: what a transaction past the read of its head can still count on
  (`HeadKnown`). The version it read may be retired or purged by now, but no other has
  become active and none has its number; the INSERT fails where the document is gone.
- `Forgetting` and `Purging`: a forget marks versions of the document it found, and what it
  redacted is not written back; a purge deletes raw captures of its own document only.

Theorems: `TablesAgree` (of `RetentionInv`), `ForgottenStaysRedacted`, `OneActiveWithRetention`.

`TInv` of `Transform` is the type invariant and `Books`: the record of a run agrees with the
transactions begun for it (`RunBook`), a switch under way holds what it checked
(`SwitchBook`), and a replayed row supersedes a version of its own generation only
(`Writes`, `Written`). Theorems: `PromotedRunsAreComplete` (of `TransformInv`),
`ReplaysStayInTheirs` (of the action property `ReplayLeavesLiveAlone`).

`ArchivesLostToStaleSwitchesOnly` (of the action property `OnlyStaleSwitchesStrand`) needs
`ArchiveInv` besides: every archive that a run records, a demote has read, or a version is in
was made by a promote that is over (`Tags`), so the tag of a promote under way is nobody's yet;
and a demote in its second UPDATE has every version of its archive before it or behind it
(`WholeArchive`), so none is left in the archive when the demote clears it from the run. It
assumes nothing of the order of the calls. That a stale call does lose an archive is
`NothingStranded`, which TLC refutes (`MCTransformDouble.cfg`).

**EmbedProofs.** `EInv` is the properties with the type invariant, that a pass that waits to
try again has an attempt left (`AttemptsLeft`), that only the drain at the head of the chain
runs (`TurnHeld`), and that an add which is enqueued and not done with is in its tenant's queue
or among the fresh chunks of its pass, with every earlier attempt of that pass counted for it
and its text still to be sent or stored (`Tracked`), which is what makes resolving every waiter
at the end of a drain right, whichever await failed. Theorems: `OneRunAlways` (of `EmbedInv`),
`SettledOnlyWhenDoneAlways`, `NoOrphanVectorEver`.

`RInv` is `RegistryInv`, that every model a promote has recorded or found active has an
indexed table, and `Sound` of each call: where it stands it has a model, what it has built is
the work of a promote past its CREATE TABLE, and a call that is about to switch, or has
written "active" and not committed, has an index in its hands. It is inductive because only a
table without an index is ever touched (`Grows`), so a step of one process takes nothing from
another (`KeepsSound`, `Lift`). `WInv` adds what a call has written at each step, `AInv` that
nobody switches beside a call that is `alone` and that every other active row is still on its
list or written down as not active. Theorems: `ActiveSearchableAlways`; `ActiveKeptAlways` and
`LoneActivationHealsAlways`, which are action properties proved from these invariants.

Of the chunker, `LeavesAre` says what the separators and the hard cut leave of a text: leaves
no longer than the cap, with a cut within a word only where the word is longer than the cap.
The invariant `KInv` then has three parts. `Line`: the closed groups, with the leaves in hand
as the last one, begin at the start of the text; each begins within the overlap of the one
before and was needed, as that one and what this one adds would pass the cap. `InHand`: a text
being chunked has taken no leaf yet, or is in `Line`. `PlanOK`: every chunk planned is sound
for its text (`WholeChunk`) and for the one before (`InTurn`). That the groups were needed is
what makes a merged remnant long enough (`ChunksAre`). Theorems: `NothingIsDropped` (of
`ChunkerInv`), `ChunksStayBounded` (of `ChunksBounded`), `WordsStayWhole` (of `WordsKept`).

**DegradeProofs.** Of the metrics, `WindowsOK`: the accepted configuration is valid, every tracked
tenant's window has the configured size, its cursor is in it, and each count is that of the
ring; `PushedOK` is the lemma about one slot leaving and one entering. `HistoryOK` adds that
the k-th slot back from the cursor, modulo the size, holds the k-th search back
(`WindowHolds`), and `AlarmsOK` that a full window of failures has raised its alarm, under the
configuration the tenant's last search was judged by. That rests on arithmetic: a valid
configuration's watermark is below 1 and it asks for no more samples than the window holds.
Theorems: `CountsAlwaysMatch`, `WindowsAreRecent` (of `MetricsInv`), `EscalationIsReachable`
(of `TotalFailureAlarms`), and `AlarmsAreKept` (of the action property
`AlarmsOutliveEviction`).

Of the search over several sources, `FInv`: exactly the sources that are asked are called
(`AskedOnly`), a result means that no call is pending (`Frozen`), and the result is made of
what the calls then were (`MadeOf`). Backends that end late therefore change nothing.
Theorems: `FederatedInvAlways`, `AlwaysSaysWhatFailed`, `FailureAlwaysContained`.

**DistillerProofs.** `NothingLost` speaks of the stored cursor; a tick stores the cursor of
a page it read some time ago. The invariant `DInv` says in between that every entry up to
the page's cursor is on the page's list, was dealt with, or was not for the distiller
(`PageCovered`), that what an add is about to write is of another (`AddingAnothers`), and
that claims are told from what they are made of (`ClaimsAreOwn`, `ClaimsFromOthers`).
`ClaimedOncePerFault` needs `CInv` besides: what a page leaves to its tick lies after the stored
cursor (`LeftOnPage`), and a version the tick has not come to was claimed no more often than
ticks have failed (`ClaimsCounted`), as only a failed tick puts it ahead again; a version before
one that is always refused is exempt. Theorems: `NothingLostEver` (of `DistillerInv`),
`ClaimedOncePerFaultEver`.

**AccessProofs.** A share is spread over a commit, a stamp and a grant for each peer, with
captures, replays and forgets of the document between any two. `AInv` says of whatever can
give sight of a document where it came from: the tags of documents and raw captures
(`TagsGiven`: a document's own tag stands on no other document, and on no raw capture, from
which a replay would copy it), the grants (`GrantsGiven`), and the creator of the active version
(`ByWriter`). Of a share under way, `Sharing` says that each peer is granted or still on its
list, and that the tag is there unless the tags were written anew since its stamp; `Owed`, that
nobody is left once it is answered as materialized. `FirstIsOrigin`: before any replay, version
1 of a document is its creator's, which is why only he forgets it. Theorems: `SharesAreKept`
(of `AccessInv`), `SightIsGiven` (of `SeenWasGiven`).

**SearchProofs.** A search ends with what it read in statements of which no two saw the same
corpus, so its invariant `SInv` says of everything in hand when it was so: every list holds
versions active at some time of the search and every hit is of another document (`Fresh`);
what was lost has its flag from that step on (`Flagged`); the counts that were read are not
above those there are, and `strong` is said with a ground for it (`Grounded`). That fusion
ranks each version once, and no list outgrows its cut, comes from `Subsequence`. Theorems:
`ReadsAreSound` (of `ReadInv`), `LossIsSaid` (of `SaysSo`), `StrongIsGrounded` (of
`StrongHasGround`).

`LInv` is of the list: the events are rows of the page in its order and above the row in hand
(`Windowed`), the tags still to be asked are of that row (`Placed`), and a reason that showed
a document all along shows it now (`SteadyShows`) and is a reason to show its row, which is
among the events once it has been dealt with (`SteadyRows`). Theorem: `SteadyAlwaysListed` (of
`SteadyIsListed`).

Of the rerank budget: `PairFits`: a query and a document that are sent are within the model's
limit, at the three characters the code takes a token for. `DefaultsAccepted`: no
configuration without an explicit budget is refused. `WordsAreSent`: a document with words is
never cut to blanks.

**Subsequence.** What `Array.filter`, `Array.sort` and a WHERE or ORDER BY leave of a list is
written with ranks, as `SelectSeq` and `SortSeq` are beyond the provers: the one is recursive
and the other chooses a permutation nobody has shown to be there. `ElementsAtPositions` and
`InOrderLists` say that the list has one element for each position or member. Both, and the
common denominator `Parts` of the fused scores in `SearchProofs`, which is a recursive
function, go by the least counterexample, which `LeastNatural` gives for any set of naturals.

The assumptions the proofs rest on are those of the modules they extend. Most give types;
three say more. `SearchAssumption` has at most one of the versions active at first per
document, and a version succeeded by one of its own document: that is `OneActive`, proved of
`Capture` and of `Retention`. `TimelineAssumption` tells tags from versions, so that a reason
is one or the other. `MetricsAssumption` has the default configuration a valid one, which
the constants in `core/degrade-metrics.ts` are.

Only model-checked: everything under fairness, which TLAPS cannot prove.

## What is abstracted or left out

- A version has one chunk in `EmbedScheduler` and `HybridSearch` and none elsewhere;
  entities and edges appear only as the counts of supports.
- `DegradeMetrics` leaves out the rounding of floating point in `minSamplesFor` and the
  lifetime totals; `EmbedScheduler` an embedder that answers with vectors of wrong width
  (the code rejects them one by one).
- In `DocumentAccess` a document is its external ref and is never purged; in `Distiller`
  the model's judgement is any outcome.
- In `HybridSearch` scores are ordered, not computed: fusion is exact, the prior has two
  levels, the reranker and the similarity of vectors are any.
- In `EmbedRegistry` the table of a model is its index; the probe of its dimensions is one
  of the ways a call fails. In `Chunker` lengths are characters, four of which the code
  counts as a token.
- In `Timeline` the query's facets are left out, and the two ends of its cursor with them.
- Not modelled: the text search language (one catalog read that each process remembers),
  request shapes of the clients, HTTP routes and bodies, the workflow mount's tokens, tools
  and sidecar bundle, migrations, configuration. `PROJECT.json` gives the reason for each.

## Plan

Done, in this order: write path and feed with their proofs; retention; transform; embed
scheduler with its proofs; distiller; access; metrics with its proof; hybrid search;
federated search; model registry; chunker; the list beside search; the rerank budget; the
proofs of distiller, federated search and registry; of retention and transform; of the
scheduler's types and the metrics' windows and alarms; of search and list; of access and
the chunker; that captures implement the history of a document.

Next:

1. The two search modules composed, so that what a search says of its evidence is carried
   to the caller.
2. The hazards of `PROJECT.json` that no property covers yet: a forget that fails after its
   first statement, and raw captures no version refers to.
