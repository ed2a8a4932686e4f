------------------------------ MODULE CardSources ------------------------------
(***************************************************************************)
(* The cards of one news cluster and the articles they cite.  Three writers *)
(* set card_news.source_raw_article_ids: save_card_news with the articles  *)
(* the analysis used, sync_card_sources_for_cluster (its last step) with   *)
(* all stored articles of the cluster, and the preprocessing of a later    *)
(* run, which merges new articles of the cluster into the newest card.     *)
(* card_news_articles repeats the same relation in rows of its own.        *)
(*                                                                         *)
(* A writer reads, computes and writes in several transactions or in one   *)
(* READ COMMITTED transaction without row locks on what it read, and       *)
(* swallows what fails after its first commit.  Overlapping preprocessing  *)
(* runs take articles out of the cluster and put them back without telling *)
(* its cards; nothing keeps a card from citing an article that has left.   *)
(***************************************************************************)
EXTENDS Integers, FiniteSets

CONSTANTS
  Worker,     \* threads and processes that preprocess or save cards
  Failing,    \* those that may fail or die at any step
  Article,    \* news articles that are ever in this cluster
  Card,       \* card ids
  NoCard,     \* the writer is not at a card
  CreatedAt,  \* card_news.created_at, from the dates of the sources
  Mentions,   \* <<card, article>>: the article is about the card's company
  LinkTable   \* card_news_articles exists; older schemas do without it

ASSUME CardAssumption ==
  /\ NoCard \notin Card
  /\ IsFiniteSet(Card)
  /\ CreatedAt \in [Card -> Int]
  /\ \A c, d \in Card : CreatedAt[c] = CreatedAt[d] => c = d
  /\ Mentions \subseteq Card \X Article
  /\ LinkTable \in BOOLEAN

VARIABLES
  member,  \* articles stored as relevant, PROCESSED members of the cluster
  gone,    \* articles that were members and left
  active,  \* cards that exist and have status ACTIVE, the others being DELETED
  ids,     \* card_news.source_raw_article_ids
  links,   \* card_news_articles.raw_article_id of each card
  op,      \* what each worker is at
  settled, \* history: since the start, or since some save began its cluster
           \* sync alone, no two writers were at work at once, nothing failed
           \* and no article came back unannounced
  synced   \* history: the articles the last sync of a settled time had read

vars == <<member, gone, active, ids, links, op, settled, synced>>

-----------------------------------------------------------------------------
(* Types and helpers *)

\* A merge goes attach, merge, link; a save goes link, cards, articles, sync.
\* new: articles to merge; value: source ids to write; cards and seen: rows
\* the sync has read.
Op == [pc : {"idle", "attach", "merge", "link", "cards", "articles", "sync"},
       saving : BOOLEAN, card : Card \cup {NoCard}, new : SUBSET Article,
       value : SUBSET Article, cards : SUBSET Card, seen : SUBSET Article]

NoOp == [pc |-> "idle", saving |-> FALSE, card |-> NoCard, new |-> {},
         value |-> {}, cards |-> {}, seen |-> {}]

\* The articles of S a card may cite.
Scoped(c, S) == {a \in S : <<c, a>> \in Mentions}

\* The card a merge goes to: at most one.
Newest == {c \in active : \A d \in active : CreatedAt[d] <= CreatedAt[c]}

\* Mutant: the new articles replace those the card has.
MergedReplaced(c, S) == Scoped(c, S)

\* Mutant: the row is written back as it was read.
MergedUnchanged(c, S) == ids[c]

\* Source ids of c after a merge of S.
Merged(c, S) == ids[c] \cup Scoped(c, S)

\* No other worker is at work.
Alone(w) == \A v \in Worker \ {w} : op[v].pc = "idle"

-----------------------------------------------------------------------------
(* Actions *)

Init ==
  /\ member = {} /\ gone = {}
  /\ active = {}
  /\ ids = [c \in Card |-> {}]
  /\ links = [c \in Card |-> {}]
  /\ op = [w \in Worker |-> NoOp]
  /\ settled = TRUE /\ synced = {}

\* update_cluster puts an article into the cluster; the cards follow only
\* when all articles of the run are stored.
Attach(w, a) ==
  /\ op[w].pc \in {"idle", "attach"} /\ a \notin member
  /\ member' = member \cup {a} /\ gone' = gone \ {a}
  /\ op' = [op EXCEPT ![w] = [NoOp EXCEPT !.pc = "attach", !.new = op[w].new \cup {a}]]
  /\ settled' = (settled /\ Alone(w))
  /\ UNCHANGED <<active, ids, links, synced>>

\* update_cluster of an overlapping run moves an article to another cluster,
\* or its dead link makes the article SKIPPED.
Leave(a) ==
  /\ a \in member
  /\ member' = member \ {a} /\ gone' = gone \cup {a}
  /\ UNCHANGED <<active, ids, links, op, settled, synced>>

\* An overlapping run writes the members back that it had read when it
\* attached to the cluster; only its own articles are merged into the card.
Restore(a) ==
  /\ a \in gone
  /\ member' = member \cup {a} /\ gone' = gone \ {a}
  /\ settled' = FALSE
  /\ UNCHANGED <<active, ids, links, op, synced>>

\* merge_card_news_sources_for_cluster reads the newest card and merges in
\* memory, unless there is no card or it is about another company.
ReadNewest(w) ==
  /\ op[w].pc = "attach"
  /\ \/ /\ \A c \in Newest : Scoped(c, op[w].new) = {}
        /\ op' = [op EXCEPT ![w] = NoOp]
     \/ \E c \in Newest :
          /\ Scoped(c, op[w].new) # {}
          /\ op' = [op EXCEPT ![w] = [NoOp EXCEPT !.pc = "merge", !.card = c,
                                                 !.value = Merged(c, op[w].new)]]
  /\ UNCHANGED <<member, gone, active, ids, links, settled, synced>>

\* Its UPDATE, on the id alone.
WriteMerged(w) ==
  /\ op[w].pc = "merge"
  /\ ids' = [ids EXCEPT ![op[w].card] = op[w].value]
  /\ op' = [op EXCEPT ![w].pc = "link"]
  /\ UNCHANGED <<member, gone, active, links, settled, synced>>

\* save_card_news upserts a card that cites the articles S it was made from,
\* which the analysis had read some time before.
Save(w, c, S) ==
  /\ op[w].pc = "idle"
  /\ S # {} /\ S \subseteq member \cup gone
  /\ active' = active \cup {c}
  /\ ids' = [ids EXCEPT ![c] = S]
  /\ op' = [op EXCEPT ![w] = [NoOp EXCEPT !.pc = "link", !.saving = TRUE, !.card = c,
                                          !.value = S]]
  /\ settled' = (settled /\ Alone(w))
  /\ UNCHANGED <<member, gone, links, synced>>

\* _sync_card_news_articles makes the rows of the card those it was given.
Link(w) ==
  /\ op[w].pc = "link"
  /\ links' = IF LinkTable THEN [links EXCEPT ![op[w].card] = op[w].value] ELSE links
  /\ op' = [op EXCEPT ![w] = IF op[w].saving THEN [NoOp EXCEPT !.pc = "cards"] ELSE NoOp]
  /\ UNCHANGED <<member, gone, active, ids, settled, synced>>

\* Mutant: the query is an outer join and yields a row without a card.
ToSyncOuter(w) == IF active = {} THEN {NoCard} ELSE active

\* Mutant: the sync looks at the newest card only, as the merge does.
ToSyncNewest(w) == Newest

\* The cards sync_card_sources_for_cluster selects.
ToSync(w) == active

ReadCards(w) ==
  /\ op[w].pc = "cards"
  /\ op' = [op EXCEPT ![w] = IF ToSync(w) = {} THEN NoOp
                             ELSE [NoOp EXCEPT !.pc = "articles", !.cards = ToSync(w)]]
  /\ settled' = (settled \/ Alone(w))
  /\ UNCHANGED <<member, gone, active, ids, links, synced>>

\* It selects the articles of the cluster.
ReadArticles(w) ==
  /\ op[w].pc = "articles"
  /\ op' = [op EXCEPT ![w] = [op[w] EXCEPT !.pc = "sync", !.seen = member]]
  /\ UNCHANGED <<member, gone, active, ids, links, settled, synced>>

\* It rewrites every card that has any article of its company, and commits;
\* a card all of whose articles left keeps citing them.
Sync(w) ==
  /\ op[w].pc = "sync"
  /\ ids' = [c \in Card |-> IF c \in op[w].cards /\ Scoped(c, op[w].seen) # {}
                            THEN Scoped(c, op[w].seen) ELSE ids[c]]
  /\ op' = [op EXCEPT ![w] = NoOp]
  /\ synced' = IF settled THEN op[w].seen ELSE synced
  /\ UNCHANGED <<member, gone, active, links, settled>>

\* A transaction fails, or the process dies before it.  An exception in the
\* link sync is swallowed and a save goes on.
Fail(w) ==
  /\ w \in Failing /\ op[w].pc # "idle"
  /\ \/ op' = [op EXCEPT ![w] = NoOp]
     \/ /\ op[w].pc = "link" /\ op[w].saving
        /\ op' = [op EXCEPT ![w] = [NoOp EXCEPT !.pc = "cards"]]
  /\ settled' = FALSE
  /\ UNCHANGED <<member, gone, active, ids, links, synced>>

\* An operator rebuilds the cards: _mark_existing_cards_deleted.
DeleteCards ==
  /\ active # {}
  /\ active' = {}
  /\ UNCHANGED <<member, gone, ids, links, op, settled, synced>>

\* A worker goes on with what it has begun.
Continue(w) ==
  \/ ReadNewest(w) \/ WriteMerged(w) \/ Link(w)
  \/ ReadCards(w) \/ ReadArticles(w) \/ Sync(w)

Next ==
  \/ \E w \in Worker :
       \/ \E a \in Article : Attach(w, a)
       \/ \E c \in Card : \E S \in SUBSET Article : Save(w, c, S)
       \/ Continue(w)
       \/ Fail(w)
  \/ \E a \in Article : Leave(a) \/ Restore(a)
  \/ DeleteCards

Spec == Init /\ [][Next]_vars

\* Code that has begun runs on.
FairSpec == Spec /\ \A w \in Worker : WF_vars(Continue(w))

-----------------------------------------------------------------------------
(* Properties *)

\* Every variable keeps its type.
TypeOK ==
  /\ member \subseteq Article
  /\ gone \subseteq Article \ member
  /\ active \subseteq Card
  /\ ids \in [Card -> SUBSET Article]
  /\ links \in [Card -> SUBSET Article]
  /\ op \in [Worker -> Op]
  /\ settled \in BOOLEAN
  /\ synced \subseteq Article

Idle == \A w \in Worker : op[w].pc = "idle"

\* c cites every article of S about its company.
Complete(c, S) == Scoped(c, S) \subseteq ids[c]

\* Overlapping writers and failed transactions lose articles of a card, and
\* the sync of one undisturbed save repairs it: from then on, whatever merges,
\* saves, deletions and departures follow one another, the newest card cites
\* every stored article about its company whenever no writer is at work.
NewestComplete == settled /\ Idle => \A c \in Newest : Complete(c, member)

\* Nor does an older card lose what the last sync gave it: until the next
\* save it only lacks the articles merged into the newest card since.
OlderKept == settled /\ Idle => \A c \in active : Complete(c, synced)

\* An article stored in the cluster comes to be cited by the newest card,
\* unless it leaves, writers overlap or one fails.
ArticlesReachCard ==
  \A a \in Article :
    a \in member ~> \/ ~ settled \/ a \notin member
                   \/ \A c \in Newest : Complete(c, {a})

\* "Keep normalized card -> raw article links in step with card_news."
LinksInStep == Idle => \A c \in active : links[c] = ids[c]

=============================================================================
