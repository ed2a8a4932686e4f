--------------------------- MODULE RawArticleStore ---------------------------
(***************************************************************************)
(* How collected articles reach raw_articles: the tail of                  *)
(* BatchProcessor.run_sources (create the crawl run, DedupStore, save,     *)
(* settle the run) and save_articles, which writes a batch in ONE          *)
(* transaction, article by article, and answers an article's exception     *)
(* with a rollback of that transaction.                                    *)
(*                                                                         *)
(* A writer is one BatchProcessor that walks the sources of a track.       *)
(* Writers share PostgreSQL: an uncommitted row makes a second writer of   *)
(* the same URL wait, and a cycle of waits aborts one of the waiting       *)
(* statements.  One action stands for the work on one article.             *)
(***************************************************************************)
EXTENDS Integers, Sequences, FiniteSets

CONSTANTS
  Writer,      \* processes or requests that own a BatchProcessor
  Url,         \* article URLs (unique key of raw_articles)
  Invalid,     \* URLs of articles _is_valid rejects
  Updated,     \* URLs whose article also updates the stored row (documents)
  Found,       \* what crawling one source may return: sequences of URLs
  Sources,     \* number of sources of a track
  DedupSize,   \* MAX_CACHE_SIZE
  Schema,      \* whether raw_articles may lack the crawl_run_id column
  NoRow,       \* the URL is not stored
  MaxFailures, \* bound: exceptions of a behaviour
  MaxCrashes   \* bound: dead writers of a behaviour

ASSUME StoreAssumption ==
  /\ Invalid \subseteq Url /\ Updated \subseteq Url
  /\ Found \subseteq Seq(Url)
  /\ Sources \in Nat \ {0} /\ DedupSize \in Nat \ {0}
  /\ Schema \subseteq BOOLEAN /\ NoRow \notin Writer \X (1 .. Sources)
  /\ MaxFailures \in Nat /\ MaxCrashes \in Nat

VARIABLES
  legacy,   \* the database has no raw_articles.crawl_run_id (never changes)
  rows,     \* raw_articles: the run that inserted each URL, or NoRow
  links,    \* crawl_run_articles: <<url, action>> pairs of each run
  runs,     \* crawl_runs: status and recorded counts of each run
  vdb,      \* URLs with an entry in the content index
  seen,     \* DedupStore._seen of each writer, oldest first
  pc,       \* where each writer stands
  call,     \* the save_articles call each writer is in
  lost,     \* history: per run, URLs taken back by a rollback or a failure
  failures, \* exceptions so far
  crashes   \* dead writers so far

vars == <<legacy, rows, links, runs, vdb, seen, pc, call, lost, failures, crashes>>

-----------------------------------------------------------------------------
(* Types and helpers *)

\* A writer opens one crawl run for each of its sources.
Run == Writer \X (1 .. Sources)

RunRow == [status : {"none", "running", "success", "failed"},
           inserted : Nat, skipped : Int]

\* A list of articles.
Batch == Seq(Url)

\* Locals of a call, with its open transaction: the rows it inserted, the
\* stored rows it updated, and its links.
Call == [source : 0 .. Sources, found : Batch, batch : Batch, pos : Nat \ {0}, fallback : BOOLEAN,
         inserted : Nat, ids : SUBSET Url, new : SUBSET Url, locked : SUBSET Url,
         links : SUBSET (Url \X {"inserted", "duplicate"})]

NoCall == [source |-> 0, found |-> <<>>, batch |-> <<>>, pos |-> 1,
           fallback |-> FALSE, inserted |-> 0, ids |-> {}, new |-> {}, locked |-> {}, links |-> {}]

\* The call for source number n, which returned the articles found.
NewCall(n, found) == [NoCall EXCEPT !.source = n, !.found = found]

RunOf(w) == <<w, call[w].source>>
StoredBy(r) == {u \in Url : rows[u] = r}

\* The article a writer works on (it has one while pos is inside the batch).
Current(w) == call[w].batch[call[w].pos]
Saving(w) == pc[w] = "save" /\ call[w].pos <= Len(call[w].batch)

\* Mutant: links are written outside the transaction of their rows.
RolledBackRowsOnly(c) == [c EXCEPT !.new = {}, !.locked = {}]

\* The transaction of c rolled back: nothing of it is left.
RolledBack(c) == [c EXCEPT !.new = {}, !.locked = {}, !.links = {}]

\* Mutant: the store never evicts.
MarkSeenUnbounded(marks, u) == Append(marks, u)

\* mark_seen: a new mark pushes out the oldest one beyond DedupSize.
MarkSeen(marks, u) ==
  LET m == Append(marks, u) IN IF Len(m) > DedupSize THEN Tail(m) ELSE m

IsSeen(marks, u) == \E i \in 1 .. Len(marks) : marks[i] = u

-----------------------------------------------------------------------------
(* PostgreSQL: who waits for whom *)

\* INSERT waits for an uncommitted row of the same URL, UPDATE for an
\* uncommitted write to the same row.
WaitsFor(w, o) ==
  /\ o # w /\ Saving(w) /\ Current(w) \notin Invalid /\ legacy = call[w].fallback
  /\ \/ Current(w) \in call[o].new
     \/ Current(w) \in Updated /\ Current(w) \in call[o].locked

Blocked(w) == \E o \in Writer : WaitsFor(w, o)

\* w is on a cycle of waits.
InCycle(w) ==
  \E S \in SUBSET Writer :
    /\ w \in S
    /\ \A x \in S : (\E y \in S : WaitsFor(x, y)) /\ (\E y \in S : WaitsFor(y, x))

-----------------------------------------------------------------------------
(* Actions *)

Init ==
  /\ legacy \in Schema
  /\ rows = [u \in Url |-> NoRow]
  /\ links = [r \in Run |-> {}]
  /\ runs = [r \in Run |-> [status |-> "none", inserted |-> 0, skipped |-> 0]]
  /\ vdb = {}
  /\ seen = [w \in Writer |-> <<>>]
  /\ pc = [w \in Writer |-> "idle"]
  /\ call = [w \in Writer |-> NoCall]
  /\ lost = [r \in Run |-> {}]
  /\ failures = 0 /\ crashes = 0

\* run_sources up to the filter: the crawl of the next source, and its crawl
\* run, which is committed by itself.
StartSource(w) ==
  /\ pc[w] = "idle" /\ call[w].source < Sources
  /\ \E found \in Found :
       call' = [call EXCEPT ![w] = NewCall(call[w].source + 1, found)]
  /\ runs' = [runs EXCEPT ![<<w, call[w].source + 1>>].status = "running"]
  /\ pc' = [pc EXCEPT ![w] = "filter"]
  /\ UNCHANGED <<legacy, rows, links, vdb, seen, lost, failures, crashes>>

\* filter_new, article by article: an unseen URL is kept and marked at once,
\* before anything is saved.
FilterArticle(w) ==
  LET u == Head(call[w].found)
  IN  /\ pc[w] = "filter" /\ call[w].found # <<>>
      /\ \/ /\ IsSeen(seen[w], u)
            /\ call' = [call EXCEPT ![w].found = Tail(@)]
            /\ UNCHANGED seen
         \/ /\ ~IsSeen(seen[w], u)
            /\ seen' = [seen EXCEPT ![w] = MarkSeen(@, u)]
            /\ call' = [call EXCEPT ![w].found = Tail(@), ![w].batch = Append(@, u)]
      /\ UNCHANGED <<legacy, rows, links, runs, vdb, pc, lost, failures, crashes>>

\* save_articles returns 0 at once for an empty batch.
StartSave(w) ==
  /\ pc[w] = "filter" /\ call[w].found = <<>>
  /\ pc' = [pc EXCEPT ![w] = IF call[w].batch = <<>> THEN "mark" ELSE "save"]
  /\ UNCHANGED <<legacy, rows, links, runs, vdb, seen, call, lost, failures, crashes>>

\* An article that fails the quality gate is passed over.
SkipInvalid(w) ==
  /\ Saving(w) /\ Current(w) \in Invalid
  /\ call' = [call EXCEPT ![w].pos = @ + 1]
  /\ UNCHANGED <<legacy, rows, links, runs, vdb, seen, pc, lost, failures, crashes>>

\* On a legacy schema the INSERT raises for the missing column: the transaction
\* is rolled back, and the INSERT without crawl_run_id opens a new one.
LegacyFallback(w) ==
  /\ legacy /\ Saving(w) /\ Current(w) \notin Invalid /\ ~call[w].fallback
  /\ call' = [call EXCEPT ![w] = [RolledBack(@) EXCEPT !.fallback = TRUE]]
  /\ lost' = [lost EXCEPT ![RunOf(w)] = @ \cup {l[1] : l \in call[w].links}]
  /\ UNCHANGED <<legacy, rows, links, runs, vdb, seen, pc, failures, crashes>>

\* Mutant: a URL that is already stored gets no link to the run.
SavedSkipDuplicate(c, u, isNew) ==
  IF isNew THEN [c EXCEPT !.pos = @ + 1, !.fallback = FALSE, !.inserted = @ + 1,
                          !.new = @ \cup {u}, !.links = @ \cup {<<u, "inserted">>}]
  ELSE [c EXCEPT !.pos = @ + 1, !.fallback = FALSE]

\* Mutant: every executed INSERT counts, the ones that did nothing included.
SavedCountAll(c, u, isNew) ==
  LET action == IF isNew THEN "inserted" ELSE "duplicate" IN
  [c EXCEPT !.pos = @ + 1, !.fallback = FALSE, !.inserted = @ + 1,
            !.new = IF isNew THEN @ \cup {u} ELSE @,
            !.links = @ \cup {<<u, action>>}]

\* The call after article u was stored, as a new row or as a known one.
Saved(c, u, isNew) ==
  LET action == IF isNew THEN "inserted" ELSE "duplicate" IN
  [c EXCEPT !.pos = @ + 1, !.fallback = FALSE,
            !.inserted = IF isNew THEN @ + 1 ELSE @,
            !.ids = @ \cup {u},
            !.new = IF isNew THEN @ \cup {u} ELSE @,
            !.locked = IF u \in Updated THEN @ \cup {u} ELSE @,
            !.links = {l \in @ : l[1] # u} \cup {<<u, action>>}]

\* The INSERT makes a row of a URL that has none.
IsNew(w) == rows[Current(w)] = NoRow /\ Current(w) \notin call[w].new

\* Mutant: every article is committed by itself.
SaveArticleCommitted(w) ==
  LET after == Saved(call[w], Current(w), IsNew(w)) IN
  /\ Saving(w) /\ Current(w) \notin Invalid /\ ~Blocked(w) /\ legacy = call[w].fallback
  /\ rows' = [u \in Url |-> IF u \in after.new THEN RunOf(w) ELSE rows[u]]
  /\ links' = [links EXCEPT ![RunOf(w)] = @ \cup after.links]
  /\ call' = [call EXCEPT ![w] = RolledBack(after)]
  /\ UNCHANGED <<legacy, runs, vdb, seen, pc, lost, failures, crashes>>

\* INSERT ... ON CONFLICT DO NOTHING, the updates, and the link to the run.
SaveArticle(w) ==
  /\ Saving(w) /\ Current(w) \notin Invalid /\ ~Blocked(w) /\ legacy = call[w].fallback
  /\ call' = [call EXCEPT ![w] = Saved(call[w], Current(w), IsNew(w))]
  /\ UNCHANGED <<legacy, rows, links, runs, vdb, seen, pc, lost, failures, crashes>>

\* The handler of an article's exception: the whole transaction goes; the
\* counter, which may already count the article, and the id list stay.
Dropped(c, counted) ==
  [RolledBack(c) EXCEPT !.pos = @ + 1, !.fallback = FALSE, !.inserted = @ + counted]

DropTransaction(w, counted) ==
  /\ call' = [call EXCEPT ![w] = Dropped(call[w], counted)]
  /\ lost' = [lost EXCEPT ![RunOf(w)] =
                @ \cup {Current(w)} \cup {l[1] : l \in call[w].links}]

\* Any statement of an article may raise (bad data, a broken connection), the
\* INSERT or one after the INSERT was counted.
FailArticle(w) ==
  /\ Saving(w) /\ Current(w) \notin Invalid /\ failures < MaxFailures
  /\ failures' = failures + 1
  /\ \/ DropTransaction(w, 0)
     \/ ~Blocked(w) /\ rows[Current(w)] = NoRow /\ DropTransaction(w, 1)
  /\ UNCHANGED <<legacy, rows, links, runs, vdb, seen, pc, crashes>>

\* Mutant: the victim goes back to a savepoint and retries its article, so the
\* rows it inserted before stay locked.
DeadlockVictimRetries(w) == InCycle(w) /\ UNCHANGED vars

\* PostgreSQL ends a cycle of waits by raising in one of the waiting writers.
DeadlockVictim(w) ==
  /\ InCycle(w)
  /\ DropTransaction(w, 0)
  /\ UNCHANGED <<legacy, rows, links, runs, vdb, seen, pc, failures, crashes>>

\* What a commit of w's transaction makes durable.
Durable(w) ==
  /\ rows' = [u \in Url |-> IF u \in call[w].new THEN RunOf(w) ELSE rows[u]]
  /\ links' = [links EXCEPT ![RunOf(w)] = @ \cup call[w].links]

AtEnd(w) == pc[w] = "save" /\ call[w].pos > Len(call[w].batch)

\* The one commit of the batch.
Commit(w) ==
  /\ AtEnd(w)
  /\ Durable(w)
  /\ call' = [call EXCEPT ![w] = RolledBack(@)]
  /\ pc' = [pc EXCEPT ![w] = "index"]
  /\ UNCHANGED <<legacy, runs, vdb, seen, lost, failures, crashes>>

\* The commit raises: the caller marks the run failed and gives up the track.
\* Whether the server had committed is not known.
CommitFails(w) ==
  /\ AtEnd(w) /\ failures < MaxFailures
  /\ failures' = failures + 1
  /\ \/ Durable(w)
     \/ UNCHANGED <<rows, links>>
  /\ call' = [call EXCEPT ![w] = RolledBack(@)]
  /\ runs' = [runs EXCEPT ![RunOf(w)].status = "failed"]
  /\ pc' = [pc EXCEPT ![w] = "raised"]
  /\ UNCHANGED <<legacy, vdb, seen, lost, crashes>>

\* Best effort indexing by id: the rows are read again, an id without a row
\* is passed over, and an exception is swallowed.
IndexRows(w) ==
  /\ pc[w] = "index"
  /\ \/ vdb' = vdb \cup {u \in call[w].ids : rows[u] # NoRow}
     \/ UNCHANGED vdb
  /\ pc' = [pc EXCEPT ![w] = "mark"]
  /\ UNCHANGED <<legacy, rows, links, runs, seen, call, lost, failures, crashes>>

\* mark_crawl_run_success with the count save_articles returned.
MarkSuccess(w) ==
  /\ pc[w] = "mark"
  /\ runs' = [runs EXCEPT ![RunOf(w)] =
                [status |-> "success", inserted |-> call[w].inserted,
                 skipped |-> Len(call[w].batch) - call[w].inserted]]
  /\ pc' = [pc EXCEPT ![w] = "idle"]
  /\ UNCHANGED <<legacy, rows, links, vdb, seen, call, lost, failures, crashes>>

\* The process of a writer dies: PostgreSQL drops its transaction.
Crash(w) ==
  /\ pc[w] \in {"filter", "save", "index", "mark"} /\ crashes < MaxCrashes
  /\ crashes' = crashes + 1
  /\ pc' = [pc EXCEPT ![w] = "dead"]
  /\ call' = [call EXCEPT ![w] = RolledBack(@)]
  /\ UNCHANGED <<legacy, rows, links, runs, vdb, seen, lost, failures>>

Step(w) ==
  \/ StartSource(w) \/ FilterArticle(w) \/ StartSave(w) \/ SkipInvalid(w)
  \/ LegacyFallback(w) \/ SaveArticle(w) \/ DeadlockVictim(w) \/ Commit(w) \/ IndexRows(w) \/ MarkSuccess(w)

Next == \E w \in Writer : Step(w) \/ FailArticle(w) \/ CommitFails(w) \/ Crash(w)

Spec == Init /\ [][Next]_vars

\* A writer that can take a step takes one: it is a running thread, and
\* PostgreSQL's deadlock detector runs after deadlock_timeout.
FairSpec == Spec /\ \A w \in Writer : WF_vars(Step(w))

-----------------------------------------------------------------------------
(* Properties *)

\* Every variable keeps its type, and one URL has one uncommitted inserter.
TypeOK ==
  /\ legacy \in Schema
  /\ rows \in [Url -> Run \cup {NoRow}]
  /\ links \in [Run -> SUBSET (Url \X {"inserted", "duplicate"})]
  /\ runs \in [Run -> RunRow]
  /\ vdb \subseteq Url
  /\ seen \in [Writer -> Seq(Url)] /\ \A w \in Writer : Len(seen[w]) <= DedupSize
  /\ pc \in [Writer -> {"idle", "filter", "save", "index", "mark", "raised", "dead"}]
  /\ call \in [Writer -> Call]
  /\ lost \in [Run -> SUBSET Url]
  /\ failures \in 0 .. MaxFailures /\ crashes \in 0 .. MaxCrashes

\* A run that recorded a URL as inserted is the one whose row is stored, so at
\* most one run did, whatever the order of waits, commits and rollbacks; and a
\* stored row is never without its link: row and link share a transaction.
OneInserter ==
  \A u \in Url, r \in Run :
    /\ <<u, "inserted">> \in links[r] => rows[u] = r
    /\ rows[u] = r => \E l \in links[r] : l[1] = u

\* A run recorded as success accounts for every article handed to it: a valid
\* one is linked to the run or was taken back by an exception.
NothingVanishes ==
  \A w \in Writer :
    (call[w].source > 0 /\ runs[RunOf(w)].status = "success") =>
      \A i \in DOMAIN call[w].batch :
        LET u == call[w].batch[i]
        IN  u \in Invalid \/ u \in lost[RunOf(w)] \/ \E l \in links[RunOf(w)] : l[1] = u

\* The recorded number of inserted articles exceeds the stored ones by no more
\* than what rollbacks took back: without an exception the count is exact.
CountAccounted ==
  \A r \in Run : runs[r].status = "success" =>
    /\ Cardinality(StoredBy(r)) <= runs[r].inserted
    /\ runs[r].inserted <= Cardinality(StoredBy(r)) + Cardinality(lost[r])

\* The content index never points to an article that was rolled back, although
\* the id list it is built from does.
IndexHasRow == \A u \in vdb : rows[u] # NoRow

\* Every writer gets through its sources, or was stopped by an exception or a
\* crash: writers that wait for each other's rows do not wait for ever.
WritersReturn ==
  <>(\A w \in Writer :
       \/ pc[w] \in {"raised", "dead"}
       \/ (pc[w] = "idle" /\ call[w].source = Sources))

\* The state of the runs as the ledger sees it.
Ledger == INSTANCE ArticleLedger WITH state <- [r \in Run |-> runs[r].status]

\* Transactions that overlap, wait for each other, are rolled back in the
\* middle of a batch or die are seen from outside as batches stored whole, one
\* after the other: what a run reports to have inserted, or found there, is so.
ImplementsLedger == Ledger!Spec

=============================================================================
