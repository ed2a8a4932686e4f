# TLA+ models of axis-ai

Axis-ai collects news and company documents, decides which of them matter,
groups them into clusters of one event, has language models analyse each
cluster, and stores the result as cards that users read, search and mix.  This
directory models the parts of it that keep shared state: the backfill crawler,
the store of collected articles, the preprocessing that builds clusters, the
source lists of the cards, the analysis flow that writes a card and the delivery
around it, the index of long texts, and the cache of trends.  TLC checks each model on small instances, and
TLAPS proves the main invariants for all values of the constants.

Paths below are relative to the repository's package directory `src/` unless
they name another one.

## The system

```
 run_backfill_crawler.py        api/router.py (scheduled and requested tracks)
        |  windows, cursors            |  one crawl run per source
        v                              v
  crawler/backfill_runner.py --> crawler/batch_processor.py --> db/article_store_parts
        |                              |       (raw_articles, crawl_run_articles)
        +------------------------------+
                       v
        preprocessing/preprocessing.py   relevance, clusters, classification
                       |
                       v
        pipeline/analysis_delivery.py --> analysis_flow_graph.py --> db/article_store.py
                                                                   (card_news, links)
                       v
             rag/ (Qdrant), briefings, mixer, chat
```

The parts talk through PostgreSQL rows, not through queues or locks.  Several
processes (API workers, cron jobs, backfills, operators' scripts) run the same
code on the same tables.  Almost every function opens a transaction of its own
and commits before it returns, few read what they are about to overwrite with
`FOR UPDATE`, and many catch and log exceptions.  So the hard questions are what
two runs do to each other between their commits, and what stays behind when one
of a series of commits does not happen.

| Part | State | Operations | Hard behaviour | What makes it correct |
| --- | --- | --- | --- | --- |
| Backfill (`crawler/backfill_runner.py`, `db/crawl_state_store.py`) | `crawl_cursors`, `crawl_runs` | load or create a cursor, open a window, crawl, preprocess, settle the run, move the cursor | death between two commits, two processes on one source, failed windows, windows cut at `until_date` | the cursor never passes a day not collected; a backfill ends |
| Article store (`crawler/batch_processor.py`, `db/article_store_parts/cluster_operations.py`, `db/article_store.py`) | `raw_articles`, `crawl_run_articles`, `crawl_runs`, `DedupStore` | filter, save a batch in one transaction, index, settle the run | rollback in the middle of a batch, unique-key waits and deadlocks, a crash before the run is settled | one inserter per URL, no article silently dropped, counts that agree |
| Preprocessing (`preprocessing/`) | `processing_status`, `relevance_label`, `cluster_id`, `is_representative` | load, link check, judge, route, cluster, join an existing cluster, persist, classify | unclaimed rows, row-wise commits of a plan made from old reads, aborts | one representative per cluster, no mixed clusters, everything decided |
| Card store (`db/article_store.py`) | `card_news`, `card_news_articles` | save, link sync, cluster sync, merge, delete | read-modify-write of source lists by three writers | the newest card cites what the cluster holds |
| Analysis flow (`pipeline/analysis_flow_graph.py`) | graph state of a bundle | nodes from profile context to card writer | swallowed node failures, a list reducer for errors, retries that never fire | each failure reported once, no card from an invalid summary |
| Collection pipeline and delivery (`api/router.py`, `pipeline/analysis_delivery.py`) | results of a track in memory | crawl, preprocess and deliver each source | restart between preprocessing and delivery, one failed card of many | every new cluster gets its card |
| Vector indexes (`rag/`) | Qdrant points, `qdrant_vector_id` | delete and upsert chunks, read by key | delete without the upsert that follows, two calls for one row | each stored text can be found, whole |
| Trend cache (`db/article_store.py`, `agents/it_trend_agent.py`) | a dictionary per process | look up, query, store, clear | a slow query that stores what it read before the cache was cleared | trends no older than the time to live |
| Briefing reports (`agents/briefing_generation_agent.py`) | `briefing_reports` | look up by id, generate, upsert | one id for filtered and default reports, for running and ended periods | a reused report is the one asked for |
| Mixer stream (`api/router.py`) | a queue per request | progress, result, ping, end | client gone while the thread runs | the stream ends with a result or an error |
| Agents, composers, parsers, briefing text, search, configuration | none that is shared | prompts, text and ranking | opaque model answers | outside the reach of a model checker |

`PROJECT.json` lists all components with their status, and the hazards at the
lines where they bite.

## Modules

| Module | Models |
| --- | --- |
| `Backfill` | `backfill_runner.py`, `crawl_state_store.py` |
| `BackfillCoverage` | abstract: what moving a cursor promises |
| `ArticleLedger` | abstract: what storing a batch of articles promises |
| `RawArticleStore` | tail of `run_sources`, `save_articles` |
| `NewsClusters` | `PreprocessingService.run` and what it calls |
| `CardSources` | `save_card_news`, `merge_card_news_sources_for_cluster`, both syncs |
| `AnalysisFlow` | the nodes of `analysis_flow_graph.py`, with `save_integrated_issue` and `save_card_news` as single steps |
| `Delivery` | `_run_collection_track` and `AnalysisDeliveryService`; extends `AnalysisFlow`, one graph for each target in a thread |
| `ContentIndex` | `index_content_chunks` and its callers |
| `TrendCache` | `fetch_latest_trend_context`, `invalidate_trend_context_cache` |
| `...Proofs` | the theorems about each of them |
| `MC...` | the instances TLC runs |

The order is that of the data: articles are stored, clustered, analysed, delivered
and indexed.  `Delivery` takes crawling and preprocessing as two atomic steps each;
what happens inside these is in `RawArticleStore` and `NewsClusters`.  In the same
way it takes saving a card as one step, whose inside is in `CardSources`.

### Backfill

A runner is a process of `run_backfill_crawler.py`; `pc` says where it stands in
`run_source`, and `job` holds its local variables.  One action is the code
between two database commits: `LoadCursor` (with its early returns for a
disabled or finished source), `CreateCursor` (the row, or a conflict with another
runner), `OpenWindow` (`create_crawl_run`), `Crawl`, `Postprocess`, `MarkSuccess`,
`Advance` (`update_cursor`), and the error paths `WindowRaises` and `MarkFailed`.
`Crash` may take a runner at any point; another call starts later.  Dates are day
numbers.  `origin`, and the `missed` and `stage` fields of a run, are history.

Properties: `CursorCovered` (every day from the stored cursor up to where the
backfill began has a complete run), `CursorInRange`, `RunningRunsAccounted` (no
more orphaned `running` rows than crashes), `RunToEndSuffices` (the number of
windows computed for `--run-to-end` is enough), `BackfillCompletes`, and `ImplementsCoverage`: the whole is a
`BackfillCoverage`, in which the frontier moves only over days that are done.

* `backfill_single`: one runner, a strict source with one-day windows and a
  lenient one with two-day windows whose `until_date` does not fall on a window
  boundary, one failure, one crash.  Everything above but the two of the next run.
* `backfill_pair`: two runners on one strict source from different initial dates.
  `CursorCovered` and `ImplementsCoverage` still hold, although the cursor may
  move forward again.

Bounds: at most `MaxRuns` rows of `crawl_runs`, one failure, one crash.  Two
windows from a cursor to its end suffice to see a window cut short and a window
after a failure; two runners suffice for a conflict, since they meet only at one
row.  Fairness: `WF` of a runner's steps (a running process runs on) and `SF` of
starting a call that may open a window (the job is started again and again, also
after it ended early).  Failures and crashes are not fair, and are bounded:
`BackfillCompletes` says what happens when they stop.

### RawArticleStore

A writer is a `BatchProcessor` that walks the sources of a track.  `call` holds
the locals of `save_articles` and its open transaction (`new` rows, `locked` rows,
`links`), `rows` what is committed.  Actions: `StartSource`, `FilterArticle`
(the bounded `DedupStore`), `StartSave`, `SkipInvalid`, `SaveArticle`,
`FailArticle` (rollback of the whole transaction, the loop goes on),
`LegacyFallback` (a schema without `crawl_run_id`), `DeadlockVictim`, `Commit`,
`CommitFails`, `IndexRows`, `MarkSuccess`, `Crash`.  PostgreSQL is the
environment: a second insert of an uncommitted URL waits, and its deadlock
detector picks a victim in a cycle of waits.

* `rawstore_safe`: two writers, two sources, batches that share URLs in opposite
  orders (so that they deadlock), a duplicate after eviction, an invalid article,
  one failure and one crash, with and without the column.  `OneInserter`,
  `NothingVanishes`, `CountAccounted` (a recorded count exceeds the stored rows by
  no more than what rollbacks took back), `WritersReturn`, and `ImplementsLedger`: the
whole is an `ArticleLedger`, in which a run registers its batch at most once and in
one step, with a report that claims `inserted` for new rows alone, leaves no new row
out and links nothing that is not stored, and in which only stored rows are indexed.
A transaction stutters there until it commits; a rollback registers nothing.

Bounds: three URLs, two per batch, dedup size two: the least with a cycle of
waits, an eviction and an article before and after a failing one.  Fairness: `WF`
of each writer's steps, which include being chosen as deadlock victim
(PostgreSQL resolves a cycle after `deadlock_timeout`).

### NewsClusters

A worker is a thread in `PreprocessingService.run`.  Its `task` says which articles
each phase has still to treat, and which rows `_persist` has still to write.  Loading
claims nothing.  Three relations of articles, the verdict of the relevance rules
and parser quality are constants: the code computes them from text and
embeddings, and the properties hold for any of them.  `Similar` are the pairs that
`_should_merge_articles` merges within a batch, `SameEvent` those with compatible event
keys, `Matching` those of a new representative and the one of a stored cluster it
would join.  Only the last has a direction, as in the code.  A group is a connected
component of similar articles (union-find), split again by event (`Groups`); any of
its members may be chosen as representative, and any matching candidate may be the
closest.  `Label` is what a row says of the verdict: the column knows only relevant and
irrelevant, and news held for `REVIEW` is irrelevant in it.

Which clusters a batch is compared with is modelled as the query does it.
`Candidates` are the representatives that are `PROCESSED`, not in the batch, and
`InScope`: with a publication date, published no more than `GapBefore` before the
earliest and less than `GapAfter` after the latest article of the batch (five and six
days), and about a company of the batch, if any article of that has one.
`CandidateLists` are the latest of them up to `CandidateLimit` (200); among equally late
ones any may be cut off.  The window and the companies are those of the whole batch, so
that what an article can join depends on what it was loaded with.
`fastPath` is the deployment's `DEDUP_SINGLETON_FAST_PATH`; `KeptGroups` keeps groups of
one, as `DEDUP_KEEP_AMBIGUOUS_SINGLETONS` does by default (`preprocessing/dedup.py:167`):
a deployment that turns it off drops them, and they stay RAW.  Failures between
two commits are `Abort`.

* `clusters_solo`: one run at a time over five news articles and two documents, one
  abort, both settings of the fast path.  The articles are a chain of similar ones
  of which the last two are of another event than the first three; one may turn out
  dead, the last is held for review, and the first may join a cluster of the
  second, and not the other way round.  One candidate is read.  The third article has no
  date of publication and is never a candidate.  The first comes five and a half
  days after the second and shares no company with it: it joins its cluster only in a
  batch with the third, by whose date and company the query finds it.  The
  first may crowd out the second before a batch of the third alone, and the fourth, which
  is older, may not.
  `DecidedByVerdict` (verdict, status, label and cluster agree),
  `ClustersAnchored` (every member finds its representative under its cluster id,
  if nothing aborted), `RepsGraded`, `JoinsExisting` (without the fast path a run opens
  a cluster beside an existing one that its representative matches only if that one is
  out of scope for the batch or crowded out by later ones;
  clusters that match come out of one batch as well), `OneRepPerCluster`,
  `NoMixedEvent` (a chain of common events and matches leads from each article to its
  representative; similarity alone builds no bridge), `AnchorKept`, `AllDecided`.
* `clusters_race` is a finding: two overlapping runs over three articles.

Bounds: a chain of three similar articles of one event is the least in which a group
differs from a clique and a representative can change; a similar one of another event
lets clusters mix if they could, and splits a component.  A limit of one candidate is the
least that cuts off a match.  That a run may load any part of the RAW rows stands
for articles that arrive later.  Two runs suffice for the race: rows are
overwritten by the last writer.  `OneRepPerCluster` and `NoMixedEvent` hold with
overlap, too, which the proofs show for any number of runs.  After an abort, or
with overlap, `ClustersAnchored` does fail; with overlap `DecidedByVerdict` does.
Fairness: `WF` of each worker's steps, loading included, because scheduled jobs
load RAW rows again and again.

### CardSources

The cards of one cluster, of possibly different companies.  `member` is what
preprocessing has stored in the cluster.  `Attach` starts a merge, which goes on with
`ReadNewest`, `WriteMerged` and `Link`; `Save` goes on with `Link`, `ReadCards`,
`ReadArticles` and `Sync`.  `Leave` is an overlapping run of preprocessing that moves an
article to another cluster (`cluster_operations.py:422`, the first finding) or takes a
dead link out, at any moment, also after a merge; `gone` remembers what left.  `Restore`
is such a run writing back members it had read, which merges nothing.  `Fail` covers an
exception in any transaction of a worker in `Failing`, swallowed or not, and a death.
`DeleteCards` is the backfill script's.  `Mentions` stands for
the company filter.  The analysis may use any articles that are or were in the cluster
for a card, and a card may be saved again.

Nothing repairs a card when an article leaves or when two writers overwrite each other,
and no property claims it.  What the code does promise is that a save repairs the cards: its sync
reads all active cards and all members.  `settled` is the history of that: it falls
when writers overlap, one fails or an article comes back unannounced, and rises
again when a save begins its sync and no one else is at work.  `synced` is what the
last sync of a settled time has read.

* `cards_overlap`: two writers, both of which may fail at any moment, two cards of different
  companies, two articles, departures, returns and deletions at any moment:
  `NewestComplete` (in a settled time the newest card cites every member about its company),
  `OlderKept` (an older card cites what the last sync gave it), `ArticlesReachCard`.
* `cards_links` is a finding: one writer, one card, two articles, no failure.

Bounds: two cards are needed for a newest one, two writers for an overlap, and two
articles for one that is in both cards and one that is in one.  The table of links is
left out of the first run (`LinkTable`; older schemas do without it) because no other writer
reads it.  Fairness: `WF` of
the steps that continue a call; saves, attachments, departures and deletions are not fair.

### AnalysisFlow and Delivery

`flow` is the state of the graph of each target (a news cluster or a single
document): the node it has reached, the grade of its issue and of its insight, the
report of the validation, what is stored, and the length of its error list.  One
action is one node.  What a model answers is a choice of grades: an issue is
valid, unusable, or usable although its summary was marked invalid.  `Raise` is
what `_logged_step` does with an exception: the old state goes on to the next
node, with the error list the node was given and one error more, which the
reducer of the field adds to what is there.  (`Succeed` adds the list to itself as
well: nodes return the whole state.)  The retry policies of the graph wait for
exceptions that never reach them, so there is no action for a retry, and nothing
leads to the node `human_review`.  `rows` is `card_news` by card id; a card whose
issue is empty has no cluster id, and all of these share a row.

`Delivery` puts the graphs into a track.  `Article` are those that delivery makes
targets of: structured signals of the market data that it filters out
(`pipeline/analysis_delivery.py:251`) end with preprocessing.  `Self` stands for three
tests of the company that agree on a target of one company: of the cluster (line 98), of
the card (149), and of the row to be saved (`db/article_store_parts/helpers.py:377`).
  `track` holds the locals of
`_run_collection_track` and of the delivery in progress; `future` is the thread
pool.  Actions: `Crawl`, `Preprocess`, `Classify` for each source, then for each
result `Submit`, `StartCard` (which may find no articles and answer an empty result),
`Analyse` (a step of the graph), `FinishCard` (the
second attempt to save, and the reasons to return no card), `Collect`,
`CollectRaised` (one exception drops the whole list, and the pool is waited for),
`AllTaken`, `Index`.  `Stop` is an exception of a source, or the death of the process.
`asked`, `settled`, `failed` and `misses` are history.

* `delivery`: two sources, the second with another article of a cluster of the
  first, a cluster of the company itself, a document; two threads, loads of two
  rows; two node errors or failed saves, one stop.  `PassIsEarned` (missing validity
  flags count as valid, so that the evidence chain alone rejects a graph with a
  failed node), `ErrorsTellFailures`, `RowsOwned`, `NothingForgotten` (what became
  PROCESSED has been delivered or is held, if no track stopped), `ListedStored`,
  `StoredListed`, `RowsNeverOlder`, `TrackEnds`.
* `delivery_unindexed` is a finding: no failure is needed.

Bounds: three targets are the three cases of `FinishCard`, two threads let two
graphs interleave and a third wait, two results let the order of deliveries matter.
Two failures are an exception beside a failed save, or both saves of one card.
One track: what a later one adds is what `NothingForgotten` says, that it does not
load again what an earlier one took; the proofs are for any number of them, one
after the other.  Tracks that overlap are separate processes of the model only in
their parts (`NewsClusters`, `CardSources`); with overlap `RowsNeverOlder` is not
promised.  Fairness: `WF` of the track's steps and of each target's, because a
running process runs on; starting a track, failures and stops are not fair.  Model
calls time out (the client's default where the code sets none), so a node ends.

### ContentIndex

`text` has the version of each text (a row and a kind of content), `points` the
chunks in Qdrant, `call` the calls of `index_content_chunks` that run.  `SaveRow`
and `IndexSaved` are the callers that have just saved a row and pass its texts from
memory; `IndexRows` is the script and the article store, which read the rows.
`Delete` deletes one key, and goes on when it fails; `Upsert` takes a batch of any
chunks that are left (their order is that of the rows, and a batch may hold the end
of one text and the beginning of another); `Break` is a failed embedding or
upsert, or a death.  A chunk carries its version: the code names points by a hash of
the text, so that old and new chunks do not overwrite each other.

* `content_index`: two indexers, a card with two kinds, of which one may be blank,
  and an article; two saves, one call of the script with or without deletions, one
  failure, texts of two chunks, batches of three.  `SomeTextWhole` (a key that no
  call works on and none broke off at shows at least one whole text, even if calls
  met) and `LatestAlone` (if they did not meet and deleted, the latest text and
  nothing else).
* `content_mirror` is a finding: one indexer, one card, two saves.

Bounds: batches of three over texts of two chunks put the boundary of a batch into a
text; two versions are the least in which one can be left behind.  Safety only:
the code promises nothing for calls that break off, and no one calls again.

### TrendCache

Each process has a cache with one entry (all readers ask for the same number of
days).  A reader takes the time and looks the entry up under the lock (`Lookup`),
reads the table without it (`Query`), and stores the result under the time it began
(`Store`), or raises.  `Refresh` is the commit of `ITTrendAgent`, in any
process, and `Invalidate` the clear that follows, in that process only; `due` counts the
agents between the two, of which a process may have several.  `Tick` is the
clock; `trends` has the times at which versions were committed.

* `trend_cache`: two threads of one process, the agent there or elsewhere, a time
  to live of two ticks, four ticks, two refreshes, restarts at any moment.
  `FreshEnough`: a call that began at `t` answers at least what was committed up to
  `t - TTL`.  Clearing the cache does not give more: a reader may store what it read
  before, and the caches of other processes are not cleared at all, so that
  "즉시 반영" ("reflected at once", `db/article_store.py:1475`) holds only for calls of
  the same process that neither began nor stored in between.

Bounds: an entry is stored at one tick, looked up at the limit and beyond it, with
a refresh before and after; four ticks are enough for that with a time to live
of two.

## What is proved

Every theorem is for all constants that satisfy the module's `ASSUME`: any number
of processes, articles, sources, failures and crashes.  Where a theorem assumes
more, its bullet below says so.

* `BackfillProofs`: `TypeCorrect`, `CoverageSafe`, `RangeSafe`, `Refinement`,
  `ToEndSafe`, `RunningSafe`.
  `CursorCovered` is not inductive: `update_cursor` stores what a runner holds in
  memory.  `IInv` adds that each runner's local cursor is covered as well, what has
  been done to its run at each point of the window, and that no two runners hold the
  same run.  `Refinement` maps `done` to the days of complete runs; a step of
  `MarkSuccess` is a `DoWindow`, `Advance` a `Move`, and the others stutter.
  `BudgetInv` says that the windows a call has left reach `until_date` from its
  cursor, `OrphanInv` that a `running` row no runner holds has a crash of its own.
  `CallsEndSafe` and `MovesBackSafe`: a call has less to do after each of its steps, and
  a window that succeeds moves it back by a day at least and never past its end.
* `RawArticleStoreProofs`: `TypeCorrect`, `OneInserterSafe`, `NothingVanishesSafe`,
  `IndexSafe`, `CountSafe`.  `IInv` adds what an open transaction holds (new URLs are
  not stored, each with its link), that the transactions of two writers never hold the
  same new URL, and how far each call has accounted for its batch.  `CountSafe` assumes
  that no source returns more articles than `DedupStore` remembers (10 000 in the code).
  Then a batch has no URL twice, so that what is stored, held or taken back are
  different articles already dealt with (`Tally`), which the counter has counted
  between them.  Without the assumption a URL may be taken back and counted twice.
* `ArticleLedgerProofs`: `Implementation`, `WorkShrinksSafe` and, for finitely many
  writers and at least one possible result of a crawl, `NoWaitForeverSafe`.  A transaction registers
  its batch in the step that commits it; `ReportInv` adds to `IInv` that its links are an
  honest report at every moment it is open, although others commit meanwhile.  That
  writers never all wait is an argument about finite graphs: follow the waits, and
  either a writer can go on or a URL is passed twice, which makes a cycle with a victim.
* `NewsClustersProofs`: `TypeCorrect`, `OneRepSafe`, `NoMixedSafe`, `GradedSafe`, for
  any number of overlapping runs and any three relations; and for one worker,
  since overlap breaks them, `DecidedSafe`, `AnchoredSafe`, `AnchorsSafe` and `JoinsSafe`,
  the last for any dates, windows, companies and limit.
  `GroupsPartition` says that each article of a batch is in exactly one group; its
  lemmas are those about connected components the other proofs need.  `HeldSafe`
  (a run lets go of an article only when that is decided, or when it aborts),
  `DecidedForGoodSafe`, `RunShrinksSafe` and `NeverStuckSafe` hold for any number of runs.
  The stored state alone is not enough, since a plan is written long after the reads it was made from.
  `IInv` says that a representative's cluster id is its own article id, and the
  same of every row still to be written, and that every planned row joins articles
  that a chain of common events and matches links.  `SInv`, for one worker, says that the plan still
  agrees with the rows it was made from: what is planned is not yet decided, every
  member has its anchor in the store or in the plan, and what is to become an anchor
  could join none (`Apart`).  The last is stable because the rows of a plan take no anchor away
  and make none outside the batch, so that what crowded a cluster out still does.
  `NeverStuckSafe` needs that the query has a result at all: of the lists that are not too
  long and leave out no later candidate, one leaves out the fewest (`ListExists`).
* `CardSourcesProofs`: `TypeCorrect`, `CompleteSafe`, `OlderSafe`, `MissingSafe` and
  `WritersEndSafe`, for any number of writers that may fail.  `OnTheWay` says
  how far the newest card has got in a settled time, at each step of the merge or save
  at work: a merge lacks only what it carries, a save may cite too little until its
  sync, which has read every active card and every member.  From it follows
  `MissingSafe`: in a settled time what the newest card lacks is in the hands of the
  writer at work.  `WritersEndSafe`: a merge or a save ends.
* `DeliveryProofs`: `TypeCorrect`, `PassSafe`, `ErrorsSafe`, `RowsSafe`, `ForgottenSafe`,
  `ListedSafe`, `StoredSafe` and `RowsAdvance`, for any targets, threads, sources,
  failures and tracks.  `IInv` says of each graph what it has tried at each node
  (`FlowOK`), that no row is newer than the delivery in progress and the results that
  wait are newer and in order (`Versions`, `Batches`), and what a future in each
  state has stored (`Futures`).  The proof for a node of the graph is one lemma
  about its effect, whatever the node.  `WorkShrinksSafe` and `NeverStuckSafe`: every step
  but the start of a track leaves the track or one card less to do, and neither
  exceptions nor a full pool leave the track waiting for a future nobody works on.
* `ContentIndexProofs`: `TypeCorrect`, `SomeTextSafe`, `LatestSafe`, for any indexers,
  rows, kinds, chunks and batches.  `IInv` adds that two calls that work on a key know
  that they met, that a call alone at a key has the key's latest version, and that
  a text which is not whole in the collection is carried by a call that will not
  delete it again.  `CallsEndSafe`, and for finitely many keys `NeverStuckSafe`: a call
  that has begun goes on and ends, whatever others delete and upsert.
* `TrendCacheProofs`: `TypeCorrect`, `FreshSafe`, for any processes and threads: every
  entry and every call about to store knows the versions committed before its stamp.

Model-checked only: the liveness properties (`BackfillCompletes`, `WritersReturn`,
`AllDecided`, `ArticlesReachCard`, `TrackEnds`), because the prover treats neither
fairness nor `ENABLED`, and the findings, which are counterexamples.  What these
properties rest on besides fairness is proved, in two halves.  Every step that starts
nothing new makes a measure of the work left smaller, a number or a lexicographic order
(`CallsEndSafe`, `WorkShrinksSafe`, `RunShrinksSafe`, `WritersEndSafe`), so that nothing runs
in circles; and while work is left some step is possible (`NoWaitForeverSafe`,
`NeverStuckSafe`).  `CanStep`, `CanTrack` and `CanCard` repeat the guards of the
actions in place of `ENABLED`.  The measures and guards belong to the proofs and are
defined beside them.  There is no second half for `Backfill` and `CardSources`, in which
the actions that go on from a place in the code cover every case there, and only the
bounds of the model stop a window from being opened.

A listed theorem without a property states a definition of its proof module, as these
measures are, or a fact of its own (`GroupsPartition`, `IndexSafe`).

## Findings

1. `clusters_race`: two runs that loaded the same RAW rows leave an article in a
   cluster whose representative went elsewhere.  Nothing finds this cluster again.
2. `cards_links`: `save_card_news` writes `card_news_articles` before the cluster sync
   changes the source ids they repeat.
3. `delivery_unindexed`: `index_card` skips cards without `representative_id`, and the
   composer sets none, so that delivery indexes no card in `axis_main`.
4. `content_mirror`: a card saved again with a blank section keeps the chunks of the
   old one, since only keys with new chunks are deleted.

Seen while reading, and not the subject of a run:

* `--full-pipeline-after-window` promises cards, evidence and Qdrant after each window
  (`run_backfill_crawler.py:74`); the runner only preprocesses, whatever the mode.
* An article's exception rolls back the articles saved before it in the batch, and
  `inserted` keeps counting them, against the docstring (`db/article_store.py:191`);
  `CountAccounted` bounds the difference.  On a schema without `crawl_run_id` the
  fallback rolls back before each insert, so that only the last article of a batch is
  stored.  Both are actions of `RawArticleStore`.
* With one relevant article in a run `deduplicate` returns before the existing clusters
  are looked at (`preprocessing/dedup.py:193`): a second cluster beside the one it
  matches.  `JoinsExisting` is stated without that fast path.
* The repository's README (lines 342 to 346) has a failed validation lead to human
  review and LLM nodes retried; the edges of the graph and `_logged_step` do neither.
* `_within_cluster_time_window` (`preprocessing/dedup.py:1054`) takes the days of a time
  difference, which rounds down: for two articles between five and six days apart the
  answer depends on which comes first.  `Matching` therefore has a direction.
* The candidate query asks for the companies of the batch, while two articles of a batch
  may merge across companies: a match of another company joins only when loaded
  together.  It also skips representatives without `published_at`, and reads clusters up
  to six days later than the batch, but only five days earlier.
* A card all of whose articles left the cluster keeps citing them: the sync skips cards
  without articles of their company (`db/article_store.py:747`).  And an article that an
  overlapping run writes back into a cluster is not merged into its card.
* Articles of one batch whose published days differ are not always compared (the
  prefilter), so that one batch may open clusters that match each other; no later run
  joins them.  `JoinsExisting` leaves out clusters of one batch.
* Briefings: a report stored while its period runs is reused for ever once the period
  has ended ("근거 데이터가 더 늘지 않으므로", `agents/briefing_render/utils0.py:173`),
  although cards came after it; and `save` stores a filtered report under the id
  of the default one (`agents/briefing_generation_agent.py:621`), against the comment
  at line 501.

## What is not modelled

Text: prompts, model answers, parsing, relevance rules, embeddings, similarity
scores, ranking, the layout of cards and briefings.  Where control depends on them
the model takes a constant or a choice.  HTTP and the sites crawled are a
nondeterministic result.  `DailyLimitGuard` is created by the batch processor and
never asked, so there is no behaviour to model.

Not modelled as components: crawlers and parsers (functions from pages to
articles; their results are choices or constants above), agents, composers and
services (text around model calls), search (reading only), briefings (two guards
and an upsert, whose faults are listed above), the mixer stream (a queue and a
thread that live as long as a request; a client that disconnects leaves the
thread running for nobody), and the analysis ledger, whose table migration V30
drops.  Of these, only the mixer stream could add interleavings, and it has two
processes and no stored state.

Left out within the modelled parts: document analysis tables, card texts, evidence
chains, card ids other than the shared one, the fallbacks of the card store for older
schemas, evaluation metrics, several collection tracks at once in `Delivery`, the
preprocessing of a track none of whose sources opened a crawl run, the parts of
an integrated issue, and the index of the assistant's knowledge, which a script
rebuilds.

## Running

```
tlc -workers 2 -config MCBackfill_single.cfg MCBackfill
tlapm BackfillProofs.tla
```

Each run and its expected outcome is listed in `PROJECT.json`.  A definition
preceded by a comment that starts with "Mutant:" is a faulty variant of the one
after it; with it in place the property it is listed for is violated.
