------------------------------ MODULE Delivery ------------------------------
(***************************************************************************)
(* A collection track (_run_collection_track in src/api/router.py) and the *)
(* delivery of its results (src/pipeline/analysis_delivery.py).  A track   *)
(* crawls and preprocesses one source after the other, keeps the results   *)
(* in memory, and delivers them when the last source is done: a pool of    *)
(* threads analyses each cluster and document with AnalysisFlow, and the   *)
(* main thread gathers the cards and has them indexed.                     *)
(*                                                                         *)
(* Articles that preprocessing has marked PROCESSED are never loaded       *)
(* again.  What a track has in memory when it raises or dies is lost.      *)
(***************************************************************************)
EXTENDS AnalysisFlow, Sequences

CONSTANTS
  Article,    \* articles that preprocessing keeps and delivery makes targets of
  Feed,       \* the articles each source of the track offers
  TargetOf,   \* the cluster of a news article, or the document itself
  Cluster,    \* the targets that are news clusters
  MaxWorkers, \* threads of a delivery (DEFAULT_GPT_WORKERS)
  Limit,      \* SCHEDULED_PREPROCESS_LIMIT
  MaxStops,   \* bound: tracks that raise or die
  MaxTracks   \* bound: tracks of a behaviour

ASSUME DeliveryAssumption ==
  /\ IsFiniteSet(Article)
  /\ Feed \in Seq(SUBSET Article)
  /\ TargetOf \in [Article -> Target]
  /\ Cluster \subseteq Target
  /\ MaxWorkers \in Nat \ {0} /\ Limit \in Nat \ {0}
  /\ MaxStops \in Nat /\ MaxTracks \in Nat

VARIABLES
  status,  \* raw_articles.processing_status
  track,   \* local variables of _run_collection_track and of a delivery
  future,  \* the thread pool: one future for each target of the delivery
  listed,  \* targets of the cards the main thread has gathered
  indexed, \* axis_main: cards with a point
  asked,   \* history: cards the last delivery called index_card for
  settled, \* history: targets whose delivery ended
  stops,   \* tracks that raised or died
  tracks   \* tracks started

trackVars == <<status, track, stops, tracks>>
poolVars == <<future, listed, indexed, asked, settled>>
vars == <<flowVars, trackVars, poolVars>>

-----------------------------------------------------------------------------
(* Types and helpers *)

\* The targets of a preprocessing result, and how many there were before it.
Result == [of : SUBSET Target, version : Nat]

\* found: the articles linked to the crawl run; made: results so far; batch and
\* version: the result being delivered.
Track == [at : {"idle", "crawl", "preprocess", "classify", "deliver", "collect",
                "drain", "index"},
          source : Nat \ {0}, found : SUBSET Article, results : Seq(Result),
          made : Nat, batch : SUBSET Target, version : Nat]

Future == {"none", "queued", "running", "empty", "card", "raised", "taken"}

Running == {t \in Target : future[t] = "running"}

Targets(S) == {TargetOf[a] : a \in S}

Raw == {a \in Article : status[a] = "raw"}

\* What load_raw_ids selects of S: at most Limit rows.
Loads(S) == {L \in SUBSET S : IF Cardinality(S) <= Limit THEN L = S
                              ELSE Cardinality(L) = Limit}

\* Memory of the process when it ends, or the exception has left the track.
Forget ==
  /\ track' = [track EXCEPT !.at = "idle", !.source = 1, !.found = {},
                            !.results = <<>>, !.batch = {}]
  /\ future' = [t \in Target |-> "none"]
  /\ flow' = [t \in Target |-> Idle]
  /\ listed' = {}

-----------------------------------------------------------------------------
(* The track *)

Init ==
  /\ FlowInit
  /\ status = [a \in Article |-> "absent"]
  /\ track = [at |-> "idle", source |-> 1, found |-> {}, results |-> <<>>,
              made |-> 0, batch |-> {}, version |-> 0]
  /\ future = [t \in Target |-> "none"]
  /\ listed = {} /\ indexed = {} /\ asked = {} /\ settled = {}
  /\ stops = 0 /\ tracks = 0

StartTrack ==
  /\ track.at = "idle"
  /\ tracks < MaxTracks
  /\ tracks' = tracks + 1
  /\ track' = [track EXCEPT !.at = "crawl"]
  /\ UNCHANGED <<flowVars, poolVars, status, stops>>

\* run_sources stores and links what the source shows; articles already stored
\* are linked to the new crawl run as well.
Crawl ==
  /\ track.at = "crawl" /\ track.source <= Len(Feed)
  /\ \E S \in SUBSET Feed[track.source] :
       /\ status' = [a \in Article |-> IF a \in S /\ status[a] = "absent"
                                       THEN "raw" ELSE status[a]]
       /\ track' = [track EXCEPT !.at = "preprocess", !.found = S]
  /\ UNCHANGED <<flowVars, poolVars, stops, tracks>>

\* PreprocessingService.run loads RAW rows of the crawl run and stores them as
\* PROCESSED, the news articles in clusters.
Preprocess ==
  /\ track.at = "preprocess"
  /\ \E L \in Loads(track.found \cap Raw) :
       /\ status' = [a \in Article |-> IF a \in L THEN "processed" ELSE status[a]]
       /\ track' = [track EXCEPT !.at = "classify", !.batch = Targets(L)]
  /\ UNCHANGED <<flowVars, poolVars, stops, tracks>>

\* Mutant: the result replaces those before it.
KeptLast(results, new) == <<new>>

\* results.append.
Kept(results, new) == Append(results, new)

\* It classifies the clusters and returns; the track goes to the next source.
Classify ==
  /\ track.at = "classify"
  /\ track' = [track EXCEPT !.at = "crawl", !.source = @ + 1, !.found = {},
                            !.batch = {}, !.made = @ + 1,
                            !.results = Kept(@, [of |-> track.batch,
                                                 version |-> track.made + 1])]
  /\ UNCHANGED <<flowVars, poolVars, status, stops, tracks>>

AllCrawled ==
  /\ track.at = "crawl" /\ track.source > Len(Feed)
  /\ track' = [track EXCEPT !.at = "deliver"]
  /\ UNCHANGED <<flowVars, poolVars, status, stops, tracks>>

\* A source or its preprocessing raises, or the process dies; the track has
\* threads of its own, which die with it.
Stop ==
  /\ track.at # "idle"
  /\ stops < MaxStops
  /\ stops' = stops + 1
  /\ Forget
  /\ UNCHANGED <<issues, rows, failures, indexed, asked, settled, status, tracks>>

EndTrack ==
  /\ track.at = "deliver" /\ track.results = <<>>
  /\ track' = [track EXCEPT !.at = "idle", !.source = 1]
  /\ UNCHANGED <<flowVars, poolVars, status, stops, tracks>>

-----------------------------------------------------------------------------
(* A delivery *)

\* Mutant: the last result is delivered first.
NextLast(results) == [first |-> results[Len(results)],
                      rest |-> SubSeq(results, 1, Len(results) - 1)]

NextResult(results) == [first |-> Head(results), rest |-> Tail(results)]

\* _generate_cards submits a future for each target.
Submit ==
  /\ track.at = "deliver" /\ track.results # <<>>
  /\ LET n == NextResult(track.results) IN
       /\ track' = [track EXCEPT !.at = "collect", !.results = n.rest,
                                 !.batch = n.first.of, !.version = n.first.version]
       /\ future' = [t \in Target |-> IF t \in n.first.of THEN "queued" ELSE "none"]
  /\ asked' = {}
  /\ UNCHANGED <<flowVars, status, stops, tracks, listed, indexed, settled>>

\* A free thread takes a target.  It skips a cluster of the company itself and
\* a bundle without articles or representative (_empty_pipeline_result), enters
\* the flow graph, or fails to load the articles.
StartCard(t) ==
  /\ future[t] = "queued" /\ Cardinality(Running) < MaxWorkers
  /\ \/ future' = [future EXCEPT ![t] = "empty"] /\ UNCHANGED <<flow, failures>>
     \/ /\ t \notin Cluster \cap Self
        /\ future' = [future EXCEPT ![t] = "running"]
        /\ flow' = [flow EXCEPT ![t] = Entered]
        /\ UNCHANGED failures
     \/ /\ t \notin Cluster \cap Self
        /\ failures < MaxFailures
        /\ failures' = failures + 1
        /\ future' = [future EXCEPT ![t] = "raised"]
        /\ UNCHANGED flow
  /\ UNCHANGED <<trackVars, issues, rows, listed, indexed, asked, settled>>

Analyse(t) ==
  /\ future[t] = "running"
  /\ FlowStep(t, track.version)
  /\ UNCHANGED <<trackVars, poolVars>>

\* Mutant: a card whose first save failed is not saved again.
NeverAgain(t) == FALSE

\* The card is saved again: that of a cluster if the graph has no id for it,
\* that of a document in any case.
SavesAgain(t) ==
  flow[t].card /\ (t \notin Cluster \/ ~flow[t].rowId)

\* Mutant: a card is listed only if its issue is valid.
ReturnsValid(t) == flow[t].card /\ t \notin Self /\ flow[t].issue = "valid"

\* The future's card: none of a cluster without a usable issue in its package,
\* none of a document of the company itself.
Returns(t) ==
  /\ flow[t].card /\ t \notin Self
  /\ t \in Cluster => flow[t].issue \in Usable

\* What is left of the state of a graph: its card.
CardOf(f) == [Idle EXCEPT !.at = "end", !.issue = f.issue, !.card = f.card,
                          !.rowId = f.rowId, !.misses = f.misses]

FinishCard(t) ==
  /\ future[t] = "running" /\ flow[t].at = "end"
  /\ future' = [future EXCEPT ![t] = IF Returns(t) THEN "card" ELSE "empty"]
  /\ \/ /\ ~SavesAgain(t)
        /\ flow' = [flow EXCEPT ![t] = CardOf(flow[t])]
        /\ UNCHANGED <<rows, failures>>
     \/ /\ SavesAgain(t)
        /\ \E saved \in Saved(t) :
             /\ SaveCard(t, track.version, saved)
             /\ flow' = [flow EXCEPT ![t] =
                  [CardOf(flow[t]) EXCEPT !.rowId = @ \/ saved,
                                          !.misses = IF saved THEN @ ELSE @ + 1]]
  /\ UNCHANGED <<trackVars, issues, listed, indexed, asked, settled>>

\* as_completed yields a finished future.
Collect(t) ==
  /\ track.at = "collect" /\ future[t] \in {"empty", "card"}
  /\ listed' = IF future[t] = "card" THEN listed \cup {t} ELSE listed
  /\ future' = [future EXCEPT ![t] = "taken"]
  /\ UNCHANGED <<flowVars, trackVars, indexed, asked, settled>>

\* future.result() raises what the thread raised: the list is lost, and the
\* pool waits for the threads that still run.
CollectRaised(t) ==
  /\ track.at = "collect" /\ future[t] = "raised"
  /\ track' = [track EXCEPT !.at = "drain"]
  /\ listed' = {}
  /\ future' = [future EXCEPT ![t] = "taken"]
  /\ UNCHANGED <<flowVars, status, stops, tracks, indexed, asked, settled>>

\* Mutant: the pool waits until every future is taken.
DrainedTaken == \A t \in track.batch : future[t] = "taken"

Drained == \A t \in track.batch : future[t] \notin {"queued", "running"}

\* The delivery ends, with or without cards.
Settle ==
  /\ settled' = settled \cup track.batch
  /\ track' = [track EXCEPT !.at = "deliver", !.batch = {}]
  /\ future' = [t \in Target |-> "none"]
  /\ flow' = [t \in Target |-> Idle]
  /\ listed' = {}

EndRaised ==
  /\ track.at = "drain" /\ Drained
  /\ Settle
  /\ UNCHANGED <<issues, rows, failures, indexed, asked, status, stops, tracks>>

AllTaken ==
  /\ track.at = "collect" /\ \A t \in track.batch : future[t] = "taken"
  /\ track' = [track EXCEPT !.at = "index"]
  /\ UNCHANGED <<flowVars, poolVars, status, stops, tracks>>

\* Whether the card names its representative_id: the composer sets none.
NamesRepresentative(t) == FALSE

\* _index_cards calls index_card for the cards whose summary passes, which an
\* empty issue does not; index_card returns nothing without a representative.
Index ==
  /\ track.at = "index"
  /\ \E pass \in SUBSET {t \in listed : flow[t].issue # "none"} :
       /\ asked' = pass
       /\ indexed' = indexed \cup {t \in pass : NamesRepresentative(t)}
  /\ Settle
  /\ UNCHANGED <<issues, rows, failures, status, stops, tracks>>

-----------------------------------------------------------------------------
(* The specification *)

TrackStep ==
  \/ Crawl \/ Preprocess \/ Classify \/ AllCrawled \/ EndTrack
  \/ Submit \/ EndRaised \/ AllTaken \/ Index

CardStep(t) ==
  StartCard(t) \/ Analyse(t) \/ FinishCard(t) \/ Collect(t) \/ CollectRaised(t)

Next ==
  \/ StartTrack
  \/ TrackStep
  \/ \E t \in Target : CardStep(t)
  \/ Stop

\* A running process runs on; jobs need not start, and nothing need fail.
Spec == Init /\ [][Next]_vars /\ WF_vars(TrackStep) /\ \A t \in Target : WF_vars(CardStep(t))

-----------------------------------------------------------------------------
(* Properties *)

TypeOK ==
  /\ FlowTypeOK
  /\ status \in [Article -> {"absent", "raw", "processed"}]
  /\ track \in Track
  /\ future \in [Target -> Future]
  /\ listed \subseteq Target /\ indexed \subseteq Target /\ asked \subseteq Target
  /\ settled \subseteq Target
  /\ stops \in 0 .. MaxStops /\ tracks \in 0 .. MaxTracks

\* Targets the track still holds.
Pending == track.batch \cup UNION {track.results[i].of : i \in DOMAIN track.results}

\* What preprocessing has taken out of the RAW rows, which no later track loads
\* again, has been through a delivery or is still in the memory of the track,
\* unless a track raised or died.
NothingForgotten ==
  stops = 0 => \A a \in Article :
    status[a] = "processed" => TargetOf[a] \in settled \cup Pending

\* A card that delivery lists is stored, unless both attempts to save it failed.
ListedStored ==
  \A t \in listed : flow[t].rowId \/ flow[t].misses >= 2

\* When all futures of a delivery are taken, the cards it stored in rows of
\* their own are those it lists: what is unlisted was not stored, or has no
\* issue and sits in the shared row.
StoredListed ==
  track.at = "index" =>
    \A t \in track.batch : rows[t].version = track.version => t \in listed

\* A card that a later delivery has stored is never replaced by an older one:
\* deliveries do not overlap, and results are delivered in their order.
RowsNeverOlder == [][\A r \in RowId : rows'[r].version >= rows[r].version]_rows

\* A track ends: no future is waited for that never finishes.
TrackEnds == track.at # "idle" ~> track.at = "idle"

\* "card_news -> vector index": each card that delivery hands to the index is
\* in the index when the delivery has ended.
DeliveredIndexed == asked \subseteq indexed

=============================================================================
