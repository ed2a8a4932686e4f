----------------------------- MODULE NewsClusters -----------------------------
(***************************************************************************)
(* Preprocessing of stored articles: PreprocessingService.run loads RAW    *)
(* articles, skips dead links, judges relevance, routes documents, groups  *)
(* the relevant news into clusters (ArticleDeduplicator), attaches a group *)
(* to an existing cluster it matches, and classifies each representative.  *)
(*                                                                         *)
(* Loading claims nothing, every row is committed on its own, and the      *)
(* clusters are computed from rows read before the first of those writes,  *)
(* so runs of different workers interleave and an exception leaves half of *)
(* a cluster behind.  A cluster has no row of its own: its id is the id of *)
(* the representative article.                                             *)
(***************************************************************************)
EXTENDS Integers, FiniteSets

CONSTANTS
  Worker,    \* threads and processes that run PreprocessingService
  News,      \* ids of news articles
  Document,  \* ids of articles that are not news
  NoCluster, \* cluster_id is NULL
  Similar,   \* pairs of news that _should_merge_articles merges in a batch
  SameEvent, \* pairs of news whose event keys are compatible
  Matching,  \* pairs of a representative and the one of a cluster it would join
  SharesCompany,  \* <<a, m>>: a company key of a is in the company column of m
  Keyless,        \* news without a company key
  Published,      \* published_at, or collected_at where that is missing
  Undated,        \* news without published_at
  GapBefore,      \* _MAX_CLUSTER_PUBLISHED_GAP_DAYS, in the units of Published
  GapAfter,       \* the same and a day
  CandidateLimit, \* _EXISTING_CLUSTER_CANDIDATE_LIMIT
  Verdict,   \* what the relevance rules say of each news article
  Passes,    \* documents that pass the parser quality check
  Mortal,    \* news whose link may turn out to be dead (404/410)
  FastPath,  \* values of DEDUP_SINGLETON_FAST_PATH in use
  MaxAborts  \* bound: exceptions and process deaths of a behaviour

ASSUME ClusterAssumption ==
  /\ IsFiniteSet(News) /\ News \cap Document = {} /\ NoCluster \notin News
  /\ Similar \subseteq News \X News /\ SameEvent \subseteq News \X News
  /\ Matching \subseteq News \X News
  /\ SharesCompany \subseteq (News \ Keyless) \X News
  /\ Published \in [News -> Int] /\ Undated \subseteq News
  /\ GapBefore \in Nat /\ GapAfter \in Nat /\ CandidateLimit \in Nat
  /\ Verdict \in [News -> {"relevant", "review", "irrelevant"}]
  /\ Passes \subseteq Document /\ Mortal \subseteq News
  /\ FastPath \subseteq BOOLEAN /\ MaxAborts \in Nat

VARIABLES
  fastPath, \* DEDUP_SINGLETON_FAST_PATH of this deployment (never changes)
  status,  \* raw_articles.processing_status
  label,   \* raw_articles.relevance_label
  cluster, \* raw_articles.cluster_id of each news article
  rep,     \* raw_articles.is_representative
  graded,  \* news with an importance_level
  task,    \* the run each worker is in
  aborts   \* aborted runs so far

vars == <<fastPath, status, label, cluster, rep, graded, task, aborts>>

-----------------------------------------------------------------------------
(* Types and helpers *)

Article == News \cup Document

\* One call of update_cluster.
Update == [article : News, cluster : News, rep : BOOLEAN]

\* A run: the loaded articles its phases have not dealt with yet, what
\* passed, what was clustered, and the rows _persist still has to write.
Task == [pc : {"idle", "route", "store"}, unchecked : SUBSET News, unjudged : SUBSET News,
         documents : SUBSET Document, relevant : SUBSET News, batch : SUBSET News,
         updates : SUBSET Update, ungraded : SUBSET News]

NoTask == [pc |-> "idle", unchecked |-> {}, unjudged |-> {}, documents |-> {},
           relevant |-> {}, batch |-> {}, updates |-> {}, ungraded |-> {}]

\* Mutant: the scope of a run is not limited to RAW rows.
LoadableAny == {a \in Article : status[a] \in {"RAW", "PROCESSED"}}

\* Rows a run may load.
Loadable == {a \in Article : status[a] = "RAW"}

\* G takes in everything of S that R relates to one of its members.
Closed(G, S, R) ==
  \A a \in G, b \in S : <<a, b>> \in R \/ <<b, a>> \in R => b \in G

\* The union-find of _cluster: the connected components of S.
Components(S, R) ==
  {G \in SUBSET S : /\ G # {} /\ Closed(G, S, R)
                    /\ \A H \in SUBSET G : H # {} /\ Closed(H, S, R) => H = G}

\* Mutant: a chain of similar articles is not split by event.
GroupsUnsplit(S) == Components(S, Similar)

\* The groups of a batch: components of similar articles, each split into
\* components of the same event.
Groups(S) == UNION {Components(C, SameEvent) : C \in Components(S, Similar)}

\* The candidate query for a batch S selects m: published within the days
\* around the batch, and of a company of the batch if that has any.
InScope(m, S) ==
  /\ m \notin Undated
  /\ \E a \in S : Published[m] >= Published[a] - GapBefore
  /\ \E a \in S : Published[m] < Published[a] + GapAfter
  /\ S \subseteq Keyless \/ \E a \in S : <<a, m>> \in SharesCompany

\* Representatives of existing clusters, outside the batch S.
Candidates(S) ==
  {r \in News \ S : rep[r] /\ cluster[r] # NoCluster /\ status[r] = "PROCESSED" /\ InScope(r, S)}

\* Mutant: the oldest candidates come first.
CandidateListsOldest(S) ==
  {C \in SUBSET Candidates(S) :
     /\ Cardinality(C) <= CandidateLimit
     /\ \A m \in Candidates(S) \ C :
          Cardinality(C) = CandidateLimit /\ \A x \in C : Published[x] <= Published[m]}

\* The candidates that are read: the latest ones up to the limit.
CandidateLists(S) ==
  {C \in SUBSET Candidates(S) :
     /\ Cardinality(C) <= CandidateLimit
     /\ \A m \in Candidates(S) \ C :
          Cardinality(C) = CandidateLimit /\ \A x \in C : Published[x] >= Published[m]}

\* Candidates of C that a group represented by r may be attached to.
Matches(r, C) == {m \in C : <<r, m>> \in Matching}

\* Mutant: a new representative takes over the cluster it is attached to.
LeaderNewest(r, m) == r

\* The representative of a group: of the cluster it matches, if any.
Leader(r, m) == IF m = NoCluster THEN r ELSE m

\* Mutant: the run-local index of the group is stored.
TargetLocal(r, m) == NoCluster

\* The id of the final cluster.
Target(r, m) == IF m = NoCluster THEN r ELSE cluster[m]

\* A group with the stored members of the cluster it is attached to.
Merged(G, m, S) ==
  IF m = NoCluster THEN G
  ELSE G \cup {m} \cup ({a \in News : cluster[a] = cluster[m]} \ S)

\* Mutant: the representative of the new group is flagged as well.
PlanTwoLeaders(S, groups, best, match) ==
  UNION {{[article |-> a, cluster |-> Target(best[G], match[G]),
           rep |-> \E H \in groups : a \in {Leader(best[H], match[H]), best[H]}] :
            a \in Merged(G, match[G], S)} : G \in groups}

\* The rows to write for groups of S with representatives best that are
\* attached to match.
Plan(S, groups, best, match) ==
  UNION {{[article |-> a, cluster |-> Target(best[G], match[G]),
           rep |-> \E H \in groups : a = Leader(best[H], match[H])] :
            a \in Merged(G, match[G], S)} : G \in groups}

-----------------------------------------------------------------------------
(* Actions *)

Init ==
  /\ fastPath \in FastPath
  /\ status = [a \in Article |-> "RAW"]
  /\ label = [a \in News |-> "unset"]
  /\ cluster = [a \in News |-> NoCluster]
  /\ rep = [a \in News |-> FALSE]
  /\ graded = {}
  /\ task = [w \in Worker |-> NoTask]
  /\ aborts = 0

\* load_raw_ids: crawl run, company, source, time window and limit leave any
\* part of the RAW rows.
Load(w) ==
  /\ task[w].pc = "idle"
  /\ \E S \in SUBSET Loadable \ {{}} :
       task' = [task EXCEPT ![w] = [NoTask EXCEPT !.pc = "route",
                                    !.unchecked = S \cap News, !.documents = S \cap Document]]
  /\ UNCHANGED <<fastPath, status, label, cluster, rep, graded, aborts>>

\* skip_dead_news_links: a live link goes on to the relevance rules.
KeepLink(w, a) ==
  /\ a \in task[w].unchecked
  /\ task' = [task EXCEPT ![w] = [task[w] EXCEPT !.unchecked = task[w].unchecked \ {a},
                                                 !.unjudged = task[w].unjudged \cup {a}]]
  /\ UNCHANGED <<fastPath, status, label, cluster, rep, graded, aborts>>

\* skip_dead_news_links: a dead one is taken out, of its cluster too.
SkipDeadLink(w, a) ==
  /\ a \in task[w].unchecked \cap Mortal
  /\ task' = [task EXCEPT ![w] = [task[w] EXCEPT !.unchecked = task[w].unchecked \ {a}]]
  /\ status' = [status EXCEPT ![a] = "SKIPPED"]
  /\ label' = [label EXCEPT ![a] = "irrelevant"]
  /\ cluster' = [cluster EXCEPT ![a] = NoCluster]
  /\ rep' = [rep EXCEPT ![a] = FALSE]
  /\ UNCHANGED <<fastPath, graded, aborts>>

\* Mutant: review is not told from rejection.
DecisionTwoWay(a) ==
  IF Verdict[a] = "relevant" THEN status[a] ELSE "SKIPPED"

\* The status after judging; relevance alone does not change it, and what the
\* rules leave open is held as REVIEW.
Decision(a) ==
  CASE Verdict[a] = "relevant" -> status[a]
    [] Verdict[a] = "review" -> "REVIEW"
    [] OTHER -> "SKIPPED"

\* The stored label knows no third value: held news is irrelevant too.
Label(a) == IF Verdict[a] = "relevant" THEN "relevant" ELSE "irrelevant"

\* RelevanceEvaluator.filter on one article.
Judge(w, a) ==
  /\ task[w].unchecked = {} /\ a \in task[w].unjudged
  /\ label' = [label EXCEPT ![a] = Label(a)]
  /\ status' = [status EXCEPT ![a] = Decision(a)]
  /\ task' = [task EXCEPT ![w] =
       [task[w] EXCEPT !.unjudged = task[w].unjudged \ {a},
                       !.relevant = task[w].relevant \cup {x \in {a} : Verdict[x] = "relevant"}]]
  /\ UNCHANGED <<fastPath, cluster, rep, graded, aborts>>

\* route_by_source on a document: kept, or skipped for its quality.
RouteDocument(w, a) ==
  /\ task[w].unchecked = {} /\ task[w].unjudged = {} /\ a \in task[w].documents
  /\ status' = [status EXCEPT ![a] = IF a \in Passes THEN "PROCESSED" ELSE "SKIPPED"]
  /\ task' = [task EXCEPT ![w] = [task[w] EXCEPT !.documents = task[w].documents \ {a}]]
  /\ UNCHANGED <<fastPath, label, cluster, rep, graded, aborts>>

Routed(w) ==
  /\ task[w].pc = "route"
  /\ task[w].unchecked = {} /\ task[w].unjudged = {} /\ task[w].documents = {}

\* Mutant: groups of one are dropped (DEDUP_KEEP_AMBIGUOUS_SINGLETONS = false).
KeptGroupsNoSingletons(S) == {G \in Groups(S) : Cardinality(G) > 1}

\* Every group is kept, which is the default of that setting.
KeptGroups(S) == Groups(S)

\* A lone article is not compared with any cluster.
Compared(S) == ~ (fastPath /\ Cardinality(S) = 1)

\* What a group represented by r may be attached to: any candidate it matches
\* may be the closest.
Joinable(r, C) == IF Matches(r, C) = {} THEN {NoCluster} ELSE Matches(r, C)

\* _select_representatives: any member may score best.
Representatives(groups, S) == {f \in [groups -> S] : \A G \in groups : f[G] \in G}

\* _best_existing_cluster_match for every group.
Attachments(groups, best, C) ==
  {f \in [groups -> C \cup {NoCluster}] : \A G \in groups : f[G] \in Joinable(best[G], C)}

\* deduplicate up to _persist.
Cluster(w) ==
  /\ Routed(w)
  /\ LET S == task[w].relevant
         groups == KeptGroups(S)
     IN \E C \in IF Compared(S) THEN CandidateLists(S) ELSE {{}} :
        \E best \in Representatives(groups, S) : \E match \in Attachments(groups, best, C) :
          task' = [task EXCEPT ![w] = [NoTask EXCEPT !.pc = "store", !.batch = S,
                     !.updates = Plan(S, groups, best, match),
                     !.ungraded = {Leader(best[G], match[G]) : G \in groups}]]
  /\ UNCHANGED <<fastPath, status, label, cluster, rep, graded, aborts>>

\* update_cluster on one article; their order is that of publication.
Persist(w, u) ==
  /\ u \in task[w].updates
  /\ cluster' = [cluster EXCEPT ![u.article] = u.cluster]
  /\ rep' = [rep EXCEPT ![u.article] = u.rep]
  /\ status' = [status EXCEPT ![u.article] = "PROCESSED"]
  /\ task' = [task EXCEPT ![w] = [task[w] EXCEPT !.updates = task[w].updates \ {u}]]
  /\ UNCHANGED <<fastPath, label, graded, aborts>>

\* Mutant: the threads of the pool are not joined.
ClassifiedEarly(w) == task[w].pc = "store" /\ task[w].updates = {}

\* All futures of classify_clusters are done.
Classified(w) == task[w].pc = "store" /\ task[w].updates = {} /\ task[w].ungraded = {}

\* ClusterClassifier.classify on one representative, in a thread of the pool.
Classify(w, r) ==
  /\ task[w].pc = "store" /\ task[w].updates = {} /\ r \in task[w].ungraded
  /\ graded' = graded \cup {r}
  /\ status' = [status EXCEPT ![r] = "PROCESSED"]
  /\ task' = [task EXCEPT ![w] = [task[w] EXCEPT !.ungraded = task[w].ungraded \ {r}]]
  /\ UNCHANGED <<fastPath, label, cluster, rep, aborts>>

Finish(w) ==
  /\ Classified(w)
  /\ task' = [task EXCEPT ![w] = NoTask]
  /\ UNCHANGED <<fastPath, status, label, cluster, rep, graded, aborts>>

\* An exception leaves run, or the process dies: what is committed stays.
Abort(w) ==
  /\ task[w].pc # "idle" /\ aborts < MaxAborts
  /\ aborts' = aborts + 1
  /\ task' = [task EXCEPT ![w] = NoTask]
  /\ UNCHANGED <<fastPath, status, label, cluster, rep, graded>>

Step(w) ==
  \/ Load(w)
  \/ \E a \in News : KeepLink(w, a) \/ SkipDeadLink(w, a) \/ Judge(w, a) \/ Classify(w, a)
  \/ \E a \in Document : RouteDocument(w, a)
  \/ Cluster(w)
  \/ \E u \in task[w].updates : Persist(w, u)
  \/ Finish(w)

Next == \E w \in Worker : Step(w) \/ Abort(w)

Spec == Init /\ [][Next]_vars

\* Scheduled jobs keep loading what is RAW, and a running thread runs.
FairSpec == Spec /\ \A w \in Worker : WF_vars(Step(w))

-----------------------------------------------------------------------------
(* Properties *)

\* Every variable keeps its type; stored cluster ids are article ids.
TypeOK ==
  /\ fastPath \in BOOLEAN
  /\ status \in [Article -> {"RAW", "SKIPPED", "REVIEW", "PROCESSED"}]
  /\ label \in [News -> {"unset", "relevant", "irrelevant"}]
  /\ cluster \in [News -> News \cup {NoCluster}]
  /\ rep \in [News -> BOOLEAN]
  /\ graded \subseteq News
  /\ task \in [Worker -> Task]
  /\ aborts \in 0 .. MaxAborts

\* a is the representative that gives its cluster its id.
Anchor(a) == rep[a] /\ cluster[a] = a /\ status[a] = "PROCESSED"

Idle == \A w \in Worker : task[w].pc = "idle"

\* No cluster ever has two representatives, whatever runs overlap or abort:
\* _persist demotes the representative of a group that joins a cluster.
OneRepPerCluster ==
  \A a, b \in News : rep[a] /\ rep[b] /\ cluster[a] = cluster[b] => a = b

\* Sets of news that neither a common event nor a match leads out of.
ClosedSets == {C \in SUBSET News : Closed(C, News, SameEvent \cup Matching)}

\* A chain of common events and matches leads from a to b.
Linked(a, b) == \A C \in ClosedSets : a \in C => b \in C

\* A cluster only holds articles that a chain of common events and matches
\* connects with its anchor, whatever runs overlap or abort: similarity alone
\* never builds a bridge between events.
NoMixedEvent == \A a \in News : cluster[a] # NoCluster => Linked(a, cluster[a])

\* What the rules said of an article and where it ended agree: only what they
\* found relevant is clustered; what is taken out was rejected or lost its link
\* and is in no cluster; and only what they left open is held for review, in
\* no cluster and, by its label, out of the reach of every later query.
DecidedByVerdict ==
  \A a \in News :
    /\ status[a] = "PROCESSED" =>
         Verdict[a] = "relevant" /\ label[a] = "relevant" /\ cluster[a] # NoCluster
    /\ status[a] = "SKIPPED" => Verdict[a] = "irrelevant" \/ a \in Mortal
    /\ status[a] = "REVIEW" => Verdict[a] = "review"
    /\ status[a] \in {"SKIPPED", "REVIEW"} =>
         label[a] = "irrelevant" /\ cluster[a] = NoCluster /\ ~ rep[a]

\* Once an existing cluster has an anchor, later runs keep it (a matched
\* cluster keeps its id and representative).
AnchorKept == [][\A a \in News : Anchor(a) => Anchor(a)']_vars

\* When no run aborted and nothing is left to process, every clustered
\* article finds its cluster's representative under the cluster id: the
\* representative row is the anchor of a cluster.
ClustersAnchored ==
  Idle /\ aborts = 0 /\ (\A a \in Article : status[a] # "RAW") =>
    \A a \in News : cluster[a] # NoCluster => Anchor(cluster[a])

\* When no run aborted, every representative has been classified between
\* runs, so a card can be made from it.
RepsGraded == Idle /\ aborts = 0 => \A a \in News : rep[a] => a \in graded

\* So many anchors outside the batch S are as late as m that the list of
\* candidates may be full without it.
Crowded(m, S) ==
  Cardinality({x \in News \ (S \cup {m}) :
                 Anchor(x) /\ InScope(x, S) /\ Published[x] >= Published[m]}) >= CandidateLimit

\* r matches no anchor outside the batch S but those that are out of scope for
\* S or crowded out.
Unjoinable(r, S) ==
  \A m \in News \ S : Anchor(m) /\ InScope(m, S) /\ <<r, m>> \in Matching => Crowded(m, S)

\* What a step makes an anchor comes from a batch that it could not join any
\* cluster with.
OpensApart ==
  \A r \in News : ~ Anchor(r) /\ Anchor(r)' =>
    \E w \in Worker : r \in task[w].batch /\ Unjoinable(r, task[w].batch)

\* Without the fast path no run opens a cluster beside an existing one that
\* its representative matches, unless the query for its batch does not select
\* that one or the limit cuts it off behind later ones.
JoinsExisting == [][~ fastPath => OpensApart]_vars

\* In the end every RAW article is decided on, through overlaps and aborts.
AllDecided == <>(\A a \in Article : status[a] # "RAW")

=============================================================================
