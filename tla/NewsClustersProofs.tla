-------------------------- MODULE NewsClustersProofs --------------------------
(***************************************************************************)
(* Proofs about NewsClusters, for any number of workers and articles, and  *)
(* of what only one run at a time can promise, for one worker.  The last   *)
(* sections are about AllDecided, for any number of runs: a run keeps what *)
(* it loaded until that is decided, ends, and never stands still.          *)
(***************************************************************************)
EXTENDS NewsClusters, FiniteSetTheorems, WellFoundedInduction, TLAPS

-----------------------------------------------------------------------------
(* Groups *)

\* The components of a batch are disjoint.
LEMMA ComponentsDisjoint ==
  ASSUME NEW S, NEW R, NEW G \in Components(S, R), NEW H \in Components(S, R),
         NEW x, x \in G, x \in H
  PROVE  G = H
<1>1. G \cap H # {} /\ G \cap H \in SUBSET G /\ G \cap H \in SUBSET H
  OBVIOUS
<1>2. Closed(G \cap H, S, R)
  BY DEF Components, Closed
<1>3. G \cap H = G
  BY <1>1, <1>2 DEF Components
<1>4. G \cap H = H
  BY <1>1, <1>2 DEF Components
<1> QED
  BY <1>3, <1>4

\* Everything in a batch is in one of its components: of the articles that no
\* closed set around a leaves out.
LEMMA ComponentsCover ==
  ASSUME NEW S, NEW R, NEW a \in S
  PROVE  \E G \in Components(S, R) : a \in G
<1> DEFINE G == {b \in S : \A K \in SUBSET S : a \in K /\ Closed(K, S, R) => b \in K}
<1>1. G \in SUBSET S /\ a \in G
  OBVIOUS
<1>2. Closed(G, S, R)
  BY DEF Closed
<1>3. ASSUME NEW H \in SUBSET G, H # {}, Closed(H, S, R)
      PROVE  H = G
  <2>1. CASE a \in H
    BY <1>3, <2>1
  <2>2. CASE a \notin H
    <3>1. G \ H \in SUBSET S /\ a \in G \ H
      BY <1>1, <2>2
    <3>2. Closed(G \ H, S, R)
      BY <1>2, <1>3 DEF Closed
    <3>3. G \subseteq G \ H
      BY <3>1, <3>2
    <3> QED
      BY <1>3, <3>3
  <2> QED
    BY <2>1, <2>2
<1>4. G \in Components(S, R)
  BY <1>1, <1>2, <1>3 DEF Components
<1> QED
  BY <1>1, <1>4

\* The groups of a batch: parts of it that are not empty.
LEMMA GroupFacts ==
  ASSUME NEW S, NEW G \in Groups(S)
  PROVE  G \in SUBSET S /\ G # {}
         /\ \E C \in Components(S, Similar) : G \in Components(C, SameEvent)
  BY DEF Groups, Components

LEMMA GroupsDisjoint ==
  ASSUME NEW S, NEW G \in Groups(S), NEW H \in Groups(S), NEW x, x \in G, x \in H
  PROVE  G = H
<1>1. PICK C \in Components(S, Similar) : G \in Components(C, SameEvent)
  BY GroupFacts
<1>2. PICK D \in Components(S, Similar) : H \in Components(D, SameEvent)
  BY GroupFacts
<1>3. x \in C /\ x \in D
  BY <1>1, <1>2 DEF Components
<1>4. C = D
  BY <1>3, ComponentsDisjoint
<1> QED
  BY <1>1, <1>2, <1>4, ComponentsDisjoint

\* Every article of a batch is in exactly one group: none is lost on the way
\* through the two rounds of union-find, and none is written twice.
THEOREM GroupsPartition ==
  ASSUME NEW S, NEW a \in S
  PROVE  \E G \in Groups(S) : a \in G /\ \A H \in Groups(S) : a \in H => H = G
<1>1. PICK C \in Components(S, Similar) : a \in C
  BY ComponentsCover
<1>2. PICK G \in Components(C, SameEvent) : a \in G
  BY <1>1, ComponentsCover
<1>3. G \in Groups(S)
  BY <1>1, <1>2 DEF Groups
<1>4. \A H \in Groups(S) : a \in H => H = G
  BY <1>2, <1>3, GroupsDisjoint
<1> QED
  BY <1>2, <1>3, <1>4

\* Two articles of one group are linked.
LEMMA GroupLinked ==
  ASSUME NEW S \in SUBSET News, NEW G \in Groups(S), NEW a \in G, NEW b \in G
  PROVE  Linked(a, b)
<1> SUFFICES ASSUME NEW K \in SUBSET News, Closed(K, News, SameEvent \cup Matching), a \in K
             PROVE  b \in K
  BY DEF Linked, ClosedSets
<1>1. PICK C \in Components(S, Similar) : G \in Components(C, SameEvent)
  BY GroupFacts
<1>2. C \in SUBSET News /\ G \in SUBSET C
  BY <1>1 DEF Components
<1>3. G \cap K # {} /\ G \cap K \in SUBSET G
  OBVIOUS
<1>4. Closed(G, C, SameEvent)
  BY <1>1 DEF Components
<1>5. Closed(G \cap K, C, SameEvent)
  BY <1>2, <1>4 DEF Closed
<1>6. G \cap K = G
  BY <1>1, <1>3, <1>5 DEF Components
<1> QED
  BY <1>6

\* An article linked with r is linked with what r matches.
LEMMA LinkedMatch ==
  ASSUME NEW a \in News, NEW r \in News, NEW m \in News,
         Linked(a, r), <<r, m>> \in Matching
  PROVE  Linked(a, m)
<1> SUFFICES ASSUME NEW K \in SUBSET News, Closed(K, News, SameEvent \cup Matching), a \in K
             PROVE  m \in K
  BY DEF Linked, ClosedSets
<1>1. r \in K
  BY DEF Linked, ClosedSets
<1> QED
  BY <1>1 DEF Closed

-----------------------------------------------------------------------------
(* The inductive invariant *)

\* A representative carries its own id: the reason why there is only one.
RepIsOwn == \A a \in News : rep[a] => cluster[a] = a

\* What a run has planned keeps RepIsOwn and NoMixedEvent.
Sound(u) == (u.rep => u.cluster = u.article) /\ Linked(u.article, u.cluster)

PlansSound == \A w \in Worker : \A u \in task[w].updates : Sound(u)

IInv == TypeOK /\ RepIsOwn /\ NoMixedEvent /\ PlansSound

\* The conditions under which Cluster calls Plan.
Chosen(S, groups, best, match) ==
  /\ S \in SUBSET News /\ groups \in SUBSET Groups(S)
  /\ best \in [groups -> News] /\ match \in [groups -> News \cup {NoCluster}]
  /\ \A G \in groups : /\ best[G] \in G
                       /\ match[G] = NoCluster \/ match[G] \in Matches(best[G], Candidates(S))

\* The update of a of group G leads to is a sound one.
LEMMA UpdateSound ==
  ASSUME IInv, NEW S, NEW groups, NEW best, NEW match, Chosen(S, groups, best, match),
         NEW G \in groups, NEW a \in Merged(G, match[G], S), NEW flag,
         flag = (\E H \in groups : a = Leader(best[H], match[H])),
         NEW u, u = [article |-> a, cluster |-> Target(best[G], match[G]), rep |-> flag]
  PROVE  u \in Update /\ Sound(u)
<1> DEFINE r == best[G]
           m == match[G]
<1>1. /\ S \in SUBSET News /\ G \in Groups(S) /\ G \in SUBSET S /\ r \in G /\ r \in News
      /\ NoCluster \notin News
  BY ClusterAssumption, GroupFacts DEF Chosen
<1>2. \A H \in groups : H \in Groups(S) /\ H \in SUBSET S /\ best[H] \in H
  BY GroupFacts DEF Chosen
<1>3. \A H \in groups : match[H] # NoCluster =>
        /\ match[H] \in News /\ match[H] \notin S
        /\ rep[match[H]] /\ cluster[match[H]] = match[H] /\ <<best[H], match[H]>> \in Matching
  BY DEF Chosen, Matches, Candidates, IInv, RepIsOwn
<1>4. u.article = a /\ u.cluster = Target(r, m) /\ u.rep = flag /\ flag \in BOOLEAN
  OBVIOUS
<1>5. CASE m = NoCluster
  <2>1. a \in G /\ a \in News /\ Target(r, m) = r
    BY <1>1, <1>5 DEF Merged, Target
  <2>2. Linked(a, r)
    BY <1>1, <2>1, GroupLinked
  <2>3. ASSUME NEW H \in groups, a = Leader(best[H], match[H])
        PROVE  a = r
    <3>1. match[H] = NoCluster
      BY <1>1, <1>3, <2>1, <2>3 DEF Leader
    <3>2. a = best[H]
      BY <2>3, <3>1 DEF Leader
    <3> QED
      BY <1>1, <1>2, <2>1, <3>2, GroupsDisjoint
  <2> QED
    BY <1>1, <1>4, <2>1, <2>2, <2>3 DEF Update, Sound
<1>6. CASE m # NoCluster
  <2>1. /\ Target(r, m) = m /\ m \in News /\ m \notin S /\ cluster[m] = m
        /\ <<r, m>> \in Matching
    BY <1>3, <1>6 DEF Target
  <2>2. \/ a \in G
        \/ a = m
        \/ a \in News /\ cluster[a] = m /\ a \notin S
    BY <1>6, <2>1 DEF Merged
  <2>3. a \in News
    BY <1>1, <2>1, <2>2
  <2>4. Linked(a, m)
    <3>1. CASE a \in G
      <4>1. Linked(a, r)
        BY <1>1, <3>1, GroupLinked
      <4> QED
        BY <1>1, <2>1, <2>3, <4>1, LinkedMatch
    <3>2. CASE a = m
      BY <3>2 DEF Linked
    <3>3. CASE a \in News /\ cluster[a] = m
      BY <1>1, <2>1, <3>3 DEF IInv, NoMixedEvent
    <3> QED
      BY <2>2, <3>1, <3>2, <3>3
  <2>5. ASSUME NEW H \in groups, a = Leader(best[H], match[H])
        PROVE  a = m
    <3>1. CASE match[H] = NoCluster
      <4>1. a = best[H] /\ a \in H /\ a \in S
        BY <1>2, <2>5, <3>1 DEF Leader
      <4>2. a \in G
        BY <2>1, <2>2, <4>1
      <4>3. H = G
        BY <1>1, <1>2, <4>1, <4>2, GroupsDisjoint
      <4> QED
        BY <1>6, <3>1, <4>3
    <3>2. CASE match[H] # NoCluster
      <4>1. a = match[H] /\ a \notin S /\ cluster[a] = a
        BY <1>3, <2>5, <3>2 DEF Leader
      <4> QED
        BY <1>1, <2>2, <4>1
    <3> QED
      BY <3>1, <3>2
  <2> QED
    BY <1>4, <2>1, <2>3, <2>4, <2>5 DEF Update, Sound
<1> QED
  BY <1>5, <1>6

\* Everything Plan yields is sound.
LEMMA PlanSound ==
  ASSUME IInv, NEW S, NEW groups, NEW best, NEW match, Chosen(S, groups, best, match)
  PROVE  \A u \in Plan(S, groups, best, match) : u \in Update /\ Sound(u)
<1> SUFFICES ASSUME NEW u \in Plan(S, groups, best, match)
             PROVE  u \in Update /\ Sound(u)
  OBVIOUS
<1>1. PICK G \in groups : \E a \in Merged(G, match[G], S) :
        u = [article |-> a, cluster |-> Target(best[G], match[G]),
             rep |-> \E H \in groups : a = Leader(best[H], match[H])]
  BY DEF Plan
<1>2. PICK a \in Merged(G, match[G], S) :
        u = [article |-> a, cluster |-> Target(best[G], match[G]),
             rep |-> \E H \in groups : a = Leader(best[H], match[H])]
  BY <1>1
<1> DEFINE flag == \E H \in groups : a = Leader(best[H], match[H])
<1>3. u = [article |-> a, cluster |-> Target(best[G], match[G]), rep |-> flag]
  BY <1>2
<1>4. flag = (\E H \in groups : a = Leader(best[H], match[H]))
  OBVIOUS
<1> HIDE DEF flag
<1> QED
  BY <1>3, <1>4, UpdateSound

\* A representative of the plan is a news article.
LEMMA LeadersAreNews ==
  ASSUME NEW S, NEW groups, NEW best, NEW match, Chosen(S, groups, best, match)
  PROVE  {Leader(best[G], match[G]) : G \in groups} \subseteq News
  BY DEF Chosen, Leader

-----------------------------------------------------------------------------
(* Steps *)

\* The initial states satisfy the invariant.
LEMMA InitInv == Init => IInv
<1> SUFFICES ASSUME Init PROVE IInv
  OBVIOUS
<1>1. NoTask \in Task /\ NoTask.updates = {}
  BY DEF NoTask, Task
<1> QED
  BY <1>1, ClusterAssumption DEF Init, IInv, TypeOK, RepIsOwn, NoMixedEvent, PlansSound, Article

\* A step of w that gives its task sound updates and leaves clusters alone.
LEMMA Local ==
  ASSUME IInv, NEW w \in Worker, NEW t \in Task, task' = [task EXCEPT ![w] = t],
         \A u \in t.updates : Sound(u)
  PROVE  task' \in [Worker -> Task] /\ PlansSound'
<1>1. task \in [Worker -> Task]
  BY DEF IInv, TypeOK
<1>2. task' \in [Worker -> Task]
  BY <1>1
<1>3. \A v \in Worker : task'[v] = IF v = w THEN t ELSE task[v]
  BY <1>1
<1>4. \A v \in Worker : \A u \in task'[v].updates : Sound(u)
  BY <1>3 DEF IInv, PlansSound
<1>5. PlansSound'
  BY <1>4 DEF PlansSound, Sound, Linked, ClosedSets, Closed
<1> QED
  BY <1>2, <1>5

\* Loading keeps the invariant.
LEMMA LoadInv == ASSUME IInv, NEW w \in Worker, Load(w) PROVE IInv'
<1>1. PICK S \in SUBSET Loadable \ {{}} :
        task' = [task EXCEPT ![w] = [NoTask EXCEPT !.pc = "route",
                                    !.unchecked = S \cap News, !.documents = S \cap Document]]
  BY DEF Load
<1> DEFINE t == [NoTask EXCEPT !.pc = "route",
                               !.unchecked = S \cap News, !.documents = S \cap Document]
<1>2. t \in Task /\ t.updates = {}
  BY DEF NoTask, Task
<1>3. task' \in [Worker -> Task] /\ PlansSound'
  <2> HIDE DEF t
  <2> QED
    BY <1>1, <1>2, Local DEF t
<1> QED
  BY <1>3 DEF Load, IInv, TypeOK, RepIsOwn, NoMixedEvent, Linked, ClosedSets, Closed

\* Keeping a link keeps the invariant.
LEMMA KeepLinkInv ==
  ASSUME IInv, NEW w \in Worker, NEW a \in News, KeepLink(w, a) PROVE IInv'
<1>1. PICK t : t = [task[w] EXCEPT !.unchecked = task[w].unchecked \ {a},
                                   !.unjudged = task[w].unjudged \cup {a}]
  OBVIOUS
<1>2. t \in Task /\ t.updates = task[w].updates
  BY <1>1 DEF Task, IInv, TypeOK
<1>3. task' \in [Worker -> Task] /\ PlansSound'
  BY <1>1, <1>2, Local DEF KeepLink, IInv, PlansSound
<1> QED
  BY <1>3 DEF KeepLink, IInv, TypeOK, RepIsOwn, NoMixedEvent, Linked, ClosedSets, Closed

\* Taking out a dead link keeps the invariant.
LEMMA SkipDeadLinkInv ==
  ASSUME IInv, NEW w \in Worker, NEW a \in News, SkipDeadLink(w, a) PROVE IInv'
<1>1. PICK t : t = [task[w] EXCEPT !.unchecked = task[w].unchecked \ {a}]
  OBVIOUS
<1>2. t \in Task /\ t.updates = task[w].updates
  BY <1>1 DEF Task, IInv, TypeOK
<1>3. task' \in [Worker -> Task] /\ PlansSound'
  BY <1>1, <1>2, Local DEF SkipDeadLink, IInv, PlansSound
<1>4. TypeOK'
  BY <1>3 DEF SkipDeadLink, IInv, TypeOK, Article
<1>5. RepIsOwn'
  BY DEF SkipDeadLink, IInv, TypeOK, RepIsOwn
<1>6. NoMixedEvent'
  BY DEF SkipDeadLink, IInv, TypeOK, NoMixedEvent, Linked, ClosedSets, Closed
<1> QED
  BY <1>3, <1>4, <1>5, <1>6 DEF IInv

\* Judging keeps the invariant.
LEMMA JudgeInv ==
  ASSUME IInv, NEW w \in Worker, NEW a \in News, Judge(w, a) PROVE IInv'
<1>1. PICK t : t = [task[w] EXCEPT !.unjudged = task[w].unjudged \ {a},
                       !.relevant = task[w].relevant \cup {x \in {a} : Verdict[x] = "relevant"}]
  OBVIOUS
<1>2. t \in Task /\ t.updates = task[w].updates
  BY <1>1 DEF Task, IInv, TypeOK
<1>3. task' \in [Worker -> Task] /\ PlansSound'
  BY <1>1, <1>2, Local DEF Judge, IInv, PlansSound
<1>4. Decision(a) \in {"RAW", "SKIPPED", "REVIEW", "PROCESSED"}
  <2>1. a \in Article
    BY DEF Article
  <2> QED
    BY <2>1 DEF Decision, IInv, TypeOK
<1>5. Label(a) \in {"unset", "relevant", "irrelevant"}
  BY DEF Label
<1>6. TypeOK'
  BY <1>3, <1>4, <1>5 DEF Judge, IInv, TypeOK
<1> QED
  BY <1>3, <1>6 DEF Judge, IInv, RepIsOwn, NoMixedEvent, Linked, ClosedSets, Closed

\* Routing a document keeps the invariant.
LEMMA RouteDocumentInv ==
  ASSUME IInv, NEW w \in Worker, NEW a \in Document, RouteDocument(w, a) PROVE IInv'
<1>1. PICK t : t = [task[w] EXCEPT !.documents = task[w].documents \ {a}]
  OBVIOUS
<1>2. t \in Task /\ t.updates = task[w].updates
  BY <1>1 DEF Task, IInv, TypeOK
<1>3. task' \in [Worker -> Task] /\ PlansSound'
  BY <1>1, <1>2, Local DEF RouteDocument, IInv, PlansSound
<1>4. TypeOK'
  BY <1>3 DEF RouteDocument, IInv, TypeOK
<1> QED
  BY <1>3, <1>4 DEF RouteDocument, IInv, RepIsOwn, NoMixedEvent, Linked, ClosedSets, Closed

\* What Cluster picks meets the conditions under which it calls Plan.
LEMMA AttachmentsChosen ==
  ASSUME NEW S \in SUBSET News, NEW C \in SUBSET Candidates(S),
         NEW best \in Representatives(KeptGroups(S), S),
         NEW match \in Attachments(KeptGroups(S), best, C)
  PROVE  Chosen(S, KeptGroups(S), best, match)
<1>1. best \in [KeptGroups(S) -> News] /\ \A G \in KeptGroups(S) : best[G] \in G
  BY DEF Representatives
<1>2. match \in [KeptGroups(S) -> News \cup {NoCluster}]
  <2>1. C \subseteq News
    BY DEF Candidates
  <2> QED
    BY <2>1 DEF Attachments
<1>3. \A G \in KeptGroups(S) :
        match[G] = NoCluster \/ match[G] \in Matches(best[G], Candidates(S))
  BY DEF Attachments, Joinable, Matches
<1> QED
  BY <1>1, <1>2, <1>3 DEF Chosen, KeptGroups

\* The state of a run after Cluster has picked best and match for S.
Planning(S, best, match) ==
  [NoTask EXCEPT !.pc = "store", !.batch = S,
                 !.updates = Plan(S, KeptGroups(S), best, match),
                 !.ungraded = {Leader(best[G], match[G]) : G \in KeptGroups(S)}]

\* What Cluster does: it attaches the groups to candidates it has read.
LEMMA ClusterChoice ==
  ASSUME NEW w \in Worker, Cluster(w)
  PROVE  \E C \in SUBSET Candidates(task[w].relevant) :
           /\ Compared(task[w].relevant) => C \in CandidateLists(task[w].relevant)
           /\ \E best \in Representatives(KeptGroups(task[w].relevant), task[w].relevant) :
                \E match \in Attachments(KeptGroups(task[w].relevant), best, C) :
                  task' = [task EXCEPT ![w] = Planning(task[w].relevant, best, match)]
<1>1. PICK C \in IF Compared(task[w].relevant) THEN CandidateLists(task[w].relevant) ELSE {{}} :
        \E best \in Representatives(KeptGroups(task[w].relevant), task[w].relevant) :
          \E match \in Attachments(KeptGroups(task[w].relevant), best, C) :
            task' = [task EXCEPT ![w] = Planning(task[w].relevant, best, match)]
  BY Zenon DEF Cluster, Planning
<1>2. C \in SUBSET Candidates(task[w].relevant)
  BY DEF CandidateLists
<1> QED
  BY <1>1, <1>2

\* Planning the clusters keeps the invariant.
LEMMA ClusterInv == ASSUME IInv, NEW w \in Worker, Cluster(w) PROVE IInv'
<1> DEFINE S == task[w].relevant
           groups == KeptGroups(S)
<1>0. PICK C \in SUBSET Candidates(S), best \in Representatives(groups, S) :
        \E match \in Attachments(groups, best, C) :
          task' = [task EXCEPT ![w] = Planning(S, best, match)]
  BY ClusterChoice
<1>1. PICK match \in Attachments(groups, best, C) :
        task' = [task EXCEPT ![w] = Planning(S, best, match)]
  BY <1>0
<1>s. S \in SUBSET News
  BY DEF IInv, TypeOK, Task
<1>2. Chosen(S, groups, best, match)
  BY <1>s, AttachmentsChosen
<1>3. PICK p : p = Plan(S, groups, best, match)
  OBVIOUS
<1>4. PICK g : g = {Leader(best[G], match[G]) : G \in groups}
  OBVIOUS
<1>5. p \subseteq Update /\ (\A u \in p : Sound(u)) /\ g \subseteq News
  BY <1>2, <1>3, <1>4, PlanSound, LeadersAreNews
<1>6. PICK t : t = [NoTask EXCEPT !.pc = "store", !.batch = S, !.updates = p, !.ungraded = g]
  OBVIOUS
<1>7. t \in Task /\ t.updates = p
  BY <1>s, <1>5, <1>6 DEF NoTask, Task
<1>8. task' = [task EXCEPT ![w] = t]
  BY <1>1, <1>3, <1>4, <1>6 DEF Planning
<1>9. task' \in [Worker -> Task] /\ PlansSound'
  BY <1>5, <1>7, <1>8, Local
<1> QED
  BY <1>9 DEF Cluster, IInv, TypeOK, RepIsOwn, NoMixedEvent, Linked, ClosedSets, Closed

\* Writing one planned row keeps the invariant.
LEMMA PersistInv ==
  ASSUME IInv, NEW w \in Worker, NEW u \in Update, Persist(w, u) PROVE IInv'
<1>1. PICK t : t = [task[w] EXCEPT !.updates = task[w].updates \ {u}]
  OBVIOUS
<1>2. t \in Task /\ t.updates \subseteq task[w].updates
  BY <1>1 DEF Task, IInv, TypeOK
<1>3. task' \in [Worker -> Task] /\ PlansSound'
  BY <1>1, <1>2, Local DEF Persist, IInv, PlansSound
<1>4. Sound(u) /\ u.article \in News /\ u.cluster \in News /\ u.rep \in BOOLEAN
  BY DEF Persist, IInv, PlansSound, Update
<1>5. TypeOK'
  <2>1. /\ cluster' \in [News -> News \cup {NoCluster}] /\ rep' \in [News -> BOOLEAN]
        /\ status' \in [Article -> {"RAW", "SKIPPED", "REVIEW", "PROCESSED"}]
    BY <1>4 DEF Persist, IInv, TypeOK
  <2> QED
    BY <1>3, <2>1 DEF Persist, IInv, TypeOK
<1>6. RepIsOwn'
  BY <1>4 DEF Persist, IInv, TypeOK, RepIsOwn, Sound
<1>7. NoMixedEvent'
  <2>1. \A a \in News : cluster'[a] # NoCluster => Linked(a, cluster'[a])
    BY <1>4 DEF Persist, IInv, TypeOK, NoMixedEvent, Sound
  <2> QED
    BY <2>1 DEF NoMixedEvent, Linked, ClosedSets, Closed
<1> QED
  BY <1>3, <1>5, <1>6, <1>7 DEF IInv

\* Classifying keeps the invariant.
LEMMA ClassifyInv ==
  ASSUME IInv, NEW w \in Worker, NEW r \in News, Classify(w, r) PROVE IInv'
<1>1. PICK t : t = [task[w] EXCEPT !.ungraded = task[w].ungraded \ {r}]
  OBVIOUS
<1>2. t \in Task /\ t.updates = task[w].updates
  BY <1>1 DEF Task, IInv, TypeOK
<1>3. task' \in [Worker -> Task] /\ PlansSound'
  BY <1>1, <1>2, Local DEF Classify, IInv, PlansSound
<1>4. TypeOK'
  BY <1>3 DEF Classify, IInv, TypeOK
<1> QED
  BY <1>3, <1>4 DEF Classify, IInv, RepIsOwn, NoMixedEvent, Linked, ClosedSets, Closed

\* The end of a run, regular or not, keeps the invariant.
LEMMA EndInv == ASSUME IInv, NEW w \in Worker, Finish(w) \/ Abort(w) PROVE IInv'
<1>1. PICK t : t = NoTask
  OBVIOUS
<1>2. t \in Task /\ t.updates = {}
  BY <1>1 DEF NoTask, Task
<1>3. task' \in [Worker -> Task] /\ PlansSound'
  BY <1>1, <1>2, Local DEF Finish, Abort
<1>4. aborts' \in 0 .. MaxAborts
  BY ClusterAssumption DEF Finish, Abort, IInv, TypeOK
<1> QED
  BY <1>3, <1>4 DEF Finish, Abort, IInv, TypeOK, RepIsOwn, NoMixedEvent, Linked, ClosedSets, Closed

\* Every step keeps the invariant.
LEMMA NextInv == IInv /\ [Next]_vars => IInv'
<1> SUFFICES ASSUME IInv, [Next]_vars PROVE IInv'
  OBVIOUS
<1>1. CASE UNCHANGED vars
  BY <1>1 DEF vars, IInv, TypeOK, RepIsOwn, NoMixedEvent, PlansSound, Sound, Linked, ClosedSets, Closed
<1>2. CASE Next
  <2>1. PICK w \in Worker : Step(w) \/ Abort(w)
    BY <1>2 DEF Next
  <2>2. task[w].updates \subseteq Update
    BY DEF IInv, TypeOK, Task
  <2>3. CASE \E u \in task[w].updates : Persist(w, u)
    BY <2>2, <2>3, PersistInv
  <2>4. CASE Step(w) /\ ~ \E u \in task[w].updates : Persist(w, u)
    BY <2>4, LoadInv, KeepLinkInv, SkipDeadLinkInv, JudgeInv, RouteDocumentInv, ClusterInv,
       ClassifyInv, EndInv DEF Step
  <2> QED
    BY <2>1, <2>3, <2>4, EndInv
<1> QED
  BY <1>1, <1>2

-----------------------------------------------------------------------------
(* Representatives and their classification *)

\* The part of a run that concerns representatives: there is something to
\* write or to classify only in its second half, and the representatives it
\* still has to write are among those it has to classify.
Shaped(t) ==
  /\ t.pc # "store" => t.updates = {} /\ t.ungraded = {}
  /\ \A u \in t.updates : u.rep => u.article \in t.ungraded

\* Without an abort, somebody is about to classify what is not classified.
Covered == aborts = 0 => \A a \in News : rep[a] =>
             a \in graded \/ \E w \in Worker : a \in task[w].ungraded

GInv == IInv /\ (\A w \in Worker : Shaped(task[w])) /\ Covered

\* A step of w that forgets no representative keeps GInv.
LEMMA Remembered ==
  ASSUME GInv, IInv', NEW w \in Worker, NEW t, task' = [task EXCEPT ![w] = t], Shaped(t),
         aborts' = 0 => /\ aborts = 0 /\ graded \subseteq graded'
                        /\ task[w].ungraded \subseteq t.ungraded \cup graded',
         \A a \in News : rep'[a] => rep[a] \/ a \in t.ungraded
  PROVE  GInv'
<1>1. \A v \in Worker : task'[v] = IF v = w THEN t ELSE task[v]
  BY DEF GInv, IInv, TypeOK
<1>2. \A v \in Worker : Shaped(task'[v])
  BY <1>1 DEF GInv
<1>3. ASSUME aborts' = 0, NEW a \in News, rep'[a]
      PROVE  a \in graded' \/ \E v \in Worker : a \in task'[v].ungraded
  <2>1. CASE a \in t.ungraded
    BY <1>1, <2>1
  <2>2. CASE rep[a]
    <3>1. CASE a \in graded
      BY <1>3, <3>1
    <3>2. CASE a \notin graded
      <4>1. PICK v \in Worker : a \in task[v].ungraded
        BY <1>3, <2>2, <3>2 DEF GInv, Covered
      <4> QED
        BY <1>1, <1>3, <4>1
    <3> QED
      BY <3>1, <3>2
  <2> QED
    BY <1>3, <2>1, <2>2
<1>4. Covered'
  BY <1>3 DEF Covered
<1>5. (\A v \in Worker : Shaped(task[v]))'
  BY <1>2 DEF Shaped
<1> QED
  BY <1>4, <1>5 DEF GInv

\* Only a leader is written as a representative.
LEMMA PlanCovered ==
  ASSUME NEW S, NEW groups, NEW best, NEW match,
         NEW u \in Plan(S, groups, best, match), u.rep
  PROVE  u.article \in {Leader(best[G], match[G]) : G \in groups}
<1>1. PICK G \in groups : \E a \in Merged(G, match[G], S) :
        u = [article |-> a, cluster |-> Target(best[G], match[G]),
             rep |-> \E H \in groups : a = Leader(best[H], match[H])]
  BY DEF Plan
<1> QED
  BY <1>1

\* Every step remembers the representatives.
LEMMA NextGraded == GInv /\ [Next]_vars => GInv'
<1> SUFFICES ASSUME GInv, [Next]_vars PROVE GInv'
  OBVIOUS
<1>0. IInv' /\ IInv
  BY NextInv DEF GInv
<1>1. CASE UNCHANGED vars
  BY <1>0, <1>1 DEF vars, GInv, Shaped, Covered
<1>2. CASE Next
  <2>0. PICK w \in Worker : Step(w) \/ Abort(w)
    BY <1>2 DEF Next
  <2>t. Shaped(NoTask) /\ task[w] \in Task /\ Shaped(task[w])
    BY <1>0 DEF Shaped, NoTask, GInv, IInv, TypeOK
  <2>1. ASSUME NEW a \in News, KeepLink(w, a) PROVE GInv'
    <3>1. PICK t : t = [task[w] EXCEPT !.unchecked = task[w].unchecked \ {a},
                                       !.unjudged = task[w].unjudged \cup {a}]
      OBVIOUS
    <3>2. Shaped(t) /\ t.ungraded = task[w].ungraded
      BY <2>t, <3>1 DEF Shaped, Task
    <3> QED
      BY <1>0, <2>1, <3>1, <3>2, Remembered DEF KeepLink
  <2>2. ASSUME NEW a \in News, SkipDeadLink(w, a) PROVE GInv'
    <3>1. PICK t : t = [task[w] EXCEPT !.unchecked = task[w].unchecked \ {a}]
      OBVIOUS
    <3>2. Shaped(t) /\ t.ungraded = task[w].ungraded
      BY <2>t, <3>1 DEF Shaped, Task
    <3>3. \A b \in News : rep'[b] => rep[b]
      BY <1>0, <2>2 DEF SkipDeadLink, IInv, TypeOK
    <3> QED
      BY <1>0, <2>2, <3>1, <3>2, <3>3, Remembered DEF SkipDeadLink
  <2>3. ASSUME NEW a \in News, Judge(w, a) PROVE GInv'
    <3>1. PICK t : t = [task[w] EXCEPT !.unjudged = task[w].unjudged \ {a},
            !.relevant = task[w].relevant \cup {x \in {a} : Verdict[x] = "relevant"}]
      OBVIOUS
    <3>2. Shaped(t) /\ t.ungraded = task[w].ungraded
      BY <2>t, <3>1 DEF Shaped, Task
    <3> QED
      BY <1>0, <2>3, <3>1, <3>2, Remembered DEF Judge
  <2>4. ASSUME NEW a \in News, Classify(w, a) PROVE GInv'
    <3>1. PICK t : t = [task[w] EXCEPT !.ungraded = task[w].ungraded \ {a}]
      OBVIOUS
    <3>2. Shaped(t) /\ t.ungraded = task[w].ungraded \ {a}
      BY <2>t, <2>4, <3>1 DEF Shaped, Task, Classify
    <3> QED
      BY <1>0, <2>4, <3>1, <3>2, Remembered DEF Classify
  <2>5. ASSUME NEW a \in Document, RouteDocument(w, a) PROVE GInv'
    <3>1. PICK t : t = [task[w] EXCEPT !.documents = task[w].documents \ {a}]
      OBVIOUS
    <3>2. Shaped(t) /\ t.ungraded = task[w].ungraded
      BY <2>t, <3>1 DEF Shaped, Task
    <3> QED
      BY <1>0, <2>5, <3>1, <3>2, Remembered DEF RouteDocument
  <2>6. CASE Load(w)
    <3>1. PICK S \in SUBSET Loadable \ {{}} :
            task' = [task EXCEPT ![w] = [NoTask EXCEPT !.pc = "route",
                       !.unchecked = S \cap News, !.documents = S \cap Document]]
      BY <2>6 DEF Load
    <3>2. PICK t : t = [NoTask EXCEPT !.pc = "route",
                          !.unchecked = S \cap News, !.documents = S \cap Document]
      OBVIOUS
    <3>3. Shaped(t) /\ task[w].ungraded = {}
      BY <2>t, <2>6, <3>2 DEF Shaped, NoTask, Load
    <3> QED
      BY <1>0, <2>6, <3>1, <3>2, <3>3, Remembered DEF Load
  <2>7. CASE Cluster(w)
    <3> DEFINE S == task[w].relevant
               groups == KeptGroups(S)
    <3>1. PICK best, match : task' = [task EXCEPT ![w] = Planning(S, best, match)]
      BY <2>7, ClusterChoice
    <3>3. PICK t : t = Planning(S, best, match)
      OBVIOUS
    <3>4. /\ t.pc = "store" /\ t.updates = Plan(S, groups, best, match)
          /\ t.ungraded = {Leader(best[G], match[G]) : G \in groups}
      BY <3>3 DEF NoTask, Planning
    <3>5. Shaped(t)
      <4> HIDE DEF S, groups
      <4> QED
        BY <3>4, PlanCovered DEF Shaped
    <3>6. task[w].ungraded = {}
      BY <2>t, <2>7 DEF Shaped, Cluster, Routed
    <3> QED
      BY <1>0, <2>7, <3>1, <3>3, <3>5, <3>6, Remembered DEF Cluster
  <2>8. ASSUME NEW u \in task[w].updates, Persist(w, u) PROVE GInv'
    <3>1. PICK t : t = [task[w] EXCEPT !.updates = task[w].updates \ {u}]
      OBVIOUS
    <3>2. Shaped(t) /\ t.ungraded = task[w].ungraded /\ (u.rep => u.article \in t.ungraded)
      BY <2>t, <3>1 DEF Shaped, Task
    <3>3. \A b \in News : rep'[b] => rep[b] \/ b \in t.ungraded
      BY <1>0, <2>8, <3>2 DEF Persist, IInv, TypeOK
    <3> QED
      BY <1>0, <2>8, <3>1, <3>2, <3>3, Remembered DEF Persist
  <2>9. CASE Finish(w)
    BY <1>0, <2>t, <2>9, Remembered DEF Finish, Classified
  <2>10. CASE Abort(w)
    <3>1. aborts' # 0
      BY <1>0, <2>10 DEF Abort, IInv, TypeOK
    <3> QED
      BY <1>0, <2>t, <2>10, <3>1, Remembered DEF Abort
  <2> QED
    BY <2>0, <2>1, <2>2, <2>3, <2>4, <2>5, <2>6, <2>7, <2>8, <2>9, <2>10 DEF Step
<1> QED
  BY <1>1, <1>2

-----------------------------------------------------------------------------
(* One run at a time *)

\* Deployments that serialise their runs: the scheduler and no other thread.
Alone == \A v, w \in Worker : v = w

\* The rules found a relevant, and its row says so.
Relevant(a) == Verdict[a] = "relevant" /\ label[a] = "relevant"

\* What the first half of a run holds is RAW and in one place only.
Loaded(t) ==
  /\ t.pc # "route" => t.unchecked = {} /\ t.unjudged = {} /\ t.documents = {} /\ t.relevant = {}
  /\ \A a \in t.unchecked \cup t.unjudged \cup t.relevant : status[a] = "RAW"
  /\ t.unchecked \cap t.unjudged = {} /\ (t.unchecked \cup t.unjudged) \cap t.relevant = {}
  /\ \A a \in t.relevant : Relevant(a)

\* What the second half writes is relevant, agrees on who represents, and
\* takes no anchor away; who is to be classified has a cluster by then.
Planned(t) ==
  /\ \A u \in t.updates : Relevant(u.article) /\ (Anchor(u.article) => u.rep)
  /\ \A u, v \in t.updates : u.article = v.article => (u.rep <=> v.rep)
  /\ \A r \in t.ungraded :
       Relevant(r) /\ (cluster[r] # NoCluster \/ \E u \in t.updates : u.article = r)

\* RAW news was never clustered.
Untouched == \A a \in News : status[a] = "RAW" => cluster[a] = NoCluster /\ ~ rep[a]

\* c is an anchor, or the run is about to make it one.
Head(c, t) == Anchor(c) \/ \E u \in t.updates : u.article = c /\ u.rep

\* Every cluster in use has a head.
Anchored(t) ==
  aborts = 0 => /\ \A a \in News : cluster[a] # NoCluster => Head(cluster[a], t)
                /\ \A u \in t.updates : Head(u.cluster, t)

\* What a run is about to make an anchor comes from its batch and could not
\* join a cluster.
Apart(t) ==
  ~ fastPath =>
    \A S \in {t.batch}, u \in t.updates :
      u.rep /\ ~ Anchor(u.article) => u.article \in S /\ Unjoinable(u.article, S)

SInv ==
  /\ GInv /\ DecidedByVerdict /\ Untouched
  /\ \A w \in Worker :
       Loaded(task[w]) /\ Planned(task[w]) /\ Anchored(task[w]) /\ Apart(task[w])

\* The invariant after a step, from its parts.
LEMMA Together ==
  ASSUME SInv, GInv', Alone, NEW w \in Worker, NEW t, task' = [task EXCEPT ![w] = t],
         DecidedByVerdict', Untouched', Loaded(t)', Planned(t)', Anchored(t)', Apart(t)'
  PROVE  SInv'
<1>1. \A v \in Worker : task'[v] = t
  BY DEF Alone, SInv, GInv, IInv, TypeOK
<1>2. \A v \in Worker : Loaded(task[v])'
  BY <1>1 DEF Loaded
<1>3. \A v \in Worker : Planned(task[v])'
  BY <1>1 DEF Planned, Anchor
<1>4. \A v \in Worker : Anchored(task[v])'
  BY <1>1 DEF Anchored, Head, Anchor
<1>5. \A v \in Worker : Apart(task[v])'
  BY <1>1 DEF Apart, Anchor
<1> QED
  BY <1>2, <1>3, <1>4, <1>5 DEF SInv

\* A step that writes no cluster and leaves nothing to write.
LEMMA NothingWritten ==
  ASSUME SInv, IInv', NEW w \in Worker, NEW t, t.updates = {},
         \A r \in t.ungraded : Relevant(r)' /\ cluster'[r] # NoCluster,
         fastPath' = fastPath, aborts' = 0 => aborts = 0 /\ task[w].updates = {},
         \A a \in News : Anchor(a)' <=> Anchor(a),
         \A a \in News : cluster'[a] # NoCluster => cluster'[a] = cluster[a]
  PROVE  Planned(t)' /\ Anchored(t)' /\ Apart(t)'
<1>1. Planned(t)'
  BY DEF Planned
<1>2. \A a \in News : Head(a, t)' => Head(a, task[w])
  BY DEF Head
<1>3. Anchored(t)'
  <2>1. ASSUME aborts' = 0, NEW a \in News, NEW c \in News, cluster'[a] = c
        PROVE  Anchor(c)'
    <3>1. cluster[a] = c /\ c # NoCluster
      BY <2>1, ClusterAssumption
    <3>2. Head(c, task[w])
      BY <2>1, <3>1 DEF SInv, Anchored
    <3> QED
      BY <2>1, <3>2 DEF Head
  <2>2. cluster' \in [News -> News \cup {NoCluster}]
    BY DEF IInv, TypeOK
  <2> QED
    BY <2>1, <2>2 DEF Anchored, Head, Anchor
<1>4. Apart(t)'
  BY DEF Apart
<1> QED
  BY <1>1, <1>3, <1>4

\* The steps of the first half of a run keep the invariant.
LEMMA RouteSolo ==
  ASSUME SInv, GInv', Alone, NEW w \in Worker,
         \/ Load(w)
         \/ \E a \in News : KeepLink(w, a) \/ SkipDeadLink(w, a) \/ Judge(w, a)
         \/ \E a \in Document : RouteDocument(w, a)
  PROVE  SInv'
<1>0. /\ IInv /\ IInv' /\ task[w] \in Task /\ Shaped(task[w]) /\ Loaded(task[w])
      /\ DecidedByVerdict /\ Untouched
  BY DEF SInv, GInv, IInv, TypeOK
<1>1. ASSUME NEW a \in News, KeepLink(w, a) PROVE SInv'
  <2>1. PICK t : t = [task[w] EXCEPT !.unchecked = task[w].unchecked \ {a},
                                     !.unjudged = task[w].unjudged \cup {a}]
    OBVIOUS
  <2>2. /\ t.pc = "route" /\ t.updates = {} /\ t.ungraded = {} /\ task[w].updates = {}
        /\ t.unchecked = task[w].unchecked \ {a} /\ t.unjudged = task[w].unjudged \cup {a}
        /\ t.relevant = task[w].relevant
    BY <1>0, <1>1, <2>1 DEF KeepLink, Loaded, Shaped, Task
  <2>3. Loaded(t)'
    BY <1>0, <1>1, <2>2 DEF KeepLink, Loaded, Relevant
  <2>4. DecidedByVerdict' /\ Untouched'
    BY <1>0, <1>1 DEF KeepLink, DecidedByVerdict, Untouched
  <2>5. Planned(t)' /\ Anchored(t)' /\ Apart(t)'
    BY <1>0, <1>1, <2>2, NothingWritten DEF KeepLink, Anchor
  <2> QED
    BY <1>1, <2>1, <2>3, <2>4, <2>5, Together DEF KeepLink
<1>2. ASSUME NEW a \in News, SkipDeadLink(w, a) PROVE SInv'
  <2>1. PICK t : t = [task[w] EXCEPT !.unchecked = task[w].unchecked \ {a}]
    OBVIOUS
  <2>2. /\ t.pc = "route" /\ t.updates = {} /\ t.ungraded = {} /\ task[w].updates = {}
        /\ t.unchecked = task[w].unchecked \ {a} /\ t.unjudged = task[w].unjudged
        /\ t.relevant = task[w].relevant
    BY <1>0, <1>2, <2>1 DEF SkipDeadLink, Loaded, Shaped, Task
  <2>3. \A b \in News \ {a} : /\ status'[b] = status[b] /\ label'[b] = label[b]
                              /\ cluster'[b] = cluster[b] /\ rep'[b] = rep[b]
    BY <1>0, <1>2 DEF SkipDeadLink, IInv, TypeOK, Article
  <2>4. /\ status[a] = "RAW" /\ status'[a] = "SKIPPED" /\ label'[a] = "irrelevant"
        /\ cluster'[a] = NoCluster /\ ~ rep'[a] /\ a \in Mortal
    BY <1>0, <1>2 DEF SkipDeadLink, Loaded, IInv, TypeOK, Article
  <2>5. Loaded(t)'
    BY <1>0, <1>2, <2>2, <2>3 DEF Loaded, SkipDeadLink, Task, Relevant
  <2>6. DecidedByVerdict' /\ Untouched'
    BY <1>0, <2>3, <2>4 DEF DecidedByVerdict, Untouched
  <2>7. \A b \in News : Anchor(b)' <=> Anchor(b)
    BY <2>3, <2>4 DEF Anchor
  <2>8. \A b \in News : cluster'[b] # NoCluster => cluster'[b] = cluster[b]
    BY <2>3, <2>4
  <2>9. Planned(t)' /\ Anchored(t)' /\ Apart(t)'
    BY <1>0, <1>2, <2>2, <2>7, <2>8, NothingWritten DEF SkipDeadLink
  <2> QED
    BY <1>2, <2>1, <2>5, <2>6, <2>9, Together DEF SkipDeadLink
<1>3. ASSUME NEW a \in News, Judge(w, a) PROVE SInv'
  <2>1. PICK t : t = [task[w] EXCEPT !.unjudged = task[w].unjudged \ {a},
          !.relevant = task[w].relevant \cup {x \in {a} : Verdict[x] = "relevant"}]
    OBVIOUS
  <2>2. /\ t.pc = "route" /\ t.updates = {} /\ t.ungraded = {} /\ task[w].updates = {}
        /\ t.unchecked = {} /\ t.unjudged = task[w].unjudged \ {a}
        /\ t.relevant = task[w].relevant \cup {x \in {a} : Verdict[x] = "relevant"}
    BY <1>0, <1>3, <2>1 DEF Judge, Loaded, Shaped, Task
  <2>3. \A b \in News \ {a} : status'[b] = status[b] /\ label'[b] = label[b]
    BY <1>0, <1>3 DEF Judge, IInv, TypeOK, Article
  <2>4. /\ status[a] = "RAW" /\ label'[a] = Label(a) /\ status'[a] = Decision(a)
        /\ cluster[a] = NoCluster /\ ~ rep[a]
    BY <1>0, <1>3 DEF Judge, Loaded, Untouched, IInv, TypeOK, Article
  <2>5. Loaded(t)'
    <3>1. a \notin task[w].relevant
      BY <1>0, <1>3 DEF Judge, Loaded
    <3>2. \A b \in t.unjudged : b \in News /\ b # a /\ status'[b] = "RAW"
      BY <1>0, <2>2, <2>3 DEF Loaded, Task
    <3>3. \A b \in t.relevant : status'[b] = "RAW" /\ Relevant(b)'
      <4>1. ASSUME NEW b \in task[w].relevant PROVE status'[b] = "RAW" /\ Relevant(b)'
        BY <1>0, <2>3, <3>1 DEF Loaded, Task, Relevant
      <4>2. Verdict[a] = "relevant" => status'[a] = "RAW" /\ Relevant(a)'
        BY <2>4 DEF Decision, Label, Relevant
      <4> QED
        BY <2>2, <4>1, <4>2
    <3>4. t.unjudged \cap t.relevant = {}
      BY <1>0, <2>2 DEF Loaded
    <3> QED
      BY <2>2, <3>2, <3>3, <3>4 DEF Loaded
  <2>6. DecidedByVerdict' /\ Untouched'
    <3>1. cluster' = cluster /\ rep' = rep
      BY <1>3 DEF Judge
    <3>2. /\ status'[a] # "PROCESSED" /\ (status'[a] = "REVIEW" => Verdict[a] = "review")
          /\ (status'[a] = "SKIPPED" => Verdict[a] = "irrelevant")
          /\ (status'[a] \in {"REVIEW", "SKIPPED"} => label'[a] = "irrelevant")
      BY <2>4, ClusterAssumption DEF Decision, Label
    <3> QED
      BY <1>0, <2>3, <2>4, <3>1, <3>2 DEF DecidedByVerdict, Untouched
  <2>7. \A b \in News : Anchor(b)' <=> Anchor(b)
    BY <1>3, <2>3, <2>4 DEF Anchor, Judge
  <2>8. Planned(t)' /\ Anchored(t)' /\ Apart(t)'
    BY <1>0, <1>3, <2>2, <2>7, NothingWritten DEF Judge
  <2> QED
    BY <1>3, <2>1, <2>5, <2>6, <2>8, Together DEF Judge
<1>4. ASSUME NEW a \in Document, RouteDocument(w, a) PROVE SInv'
  <2>1. PICK t : t = [task[w] EXCEPT !.documents = task[w].documents \ {a}]
    OBVIOUS
  <2>2. /\ t.pc = "route" /\ t.updates = {} /\ t.ungraded = {} /\ task[w].updates = {}
        /\ t.unchecked = {} /\ t.unjudged = {} /\ t.relevant = task[w].relevant
    BY <1>0, <1>4, <2>1 DEF RouteDocument, Loaded, Shaped, Task
  <2>3. \A b \in News : status'[b] = status[b]
    BY <1>0, <1>4, ClusterAssumption DEF RouteDocument, IInv, TypeOK
  <2>4. Loaded(t)'
    BY <1>0, <1>4, <2>2, <2>3 DEF RouteDocument, Loaded, Task, Relevant
  <2>5. DecidedByVerdict' /\ Untouched'
    BY <1>0, <1>4, <2>3 DEF RouteDocument, DecidedByVerdict, Untouched
  <2>6. Planned(t)' /\ Anchored(t)' /\ Apart(t)'
    BY <1>0, <1>4, <2>2, <2>3, NothingWritten DEF RouteDocument, Anchor
  <2> QED
    BY <1>4, <2>1, <2>4, <2>5, <2>6, Together DEF RouteDocument
<1>5. CASE Load(w)
  <2>1. PICK S \in SUBSET Loadable \ {{}} :
          task' = [task EXCEPT ![w] = [NoTask EXCEPT !.pc = "route",
                     !.unchecked = S \cap News, !.documents = S \cap Document]]
    BY <1>5 DEF Load
  <2>2. PICK t : t = [NoTask EXCEPT !.pc = "route",
                        !.unchecked = S \cap News, !.documents = S \cap Document]
    OBVIOUS
  <2>3. /\ t.pc = "route" /\ t.updates = {} /\ t.ungraded = {} /\ task[w].updates = {}
        /\ t.unchecked = S \cap News /\ t.unjudged = {} /\ t.relevant = {}
    BY <1>0, <1>5, <2>2 DEF Load, Shaped, NoTask
  <2>4. Loaded(t)'
    BY <1>5, <2>3 DEF Load, Loaded, Loadable
  <2>5. DecidedByVerdict' /\ Untouched'
    BY <1>0, <1>5 DEF Load, DecidedByVerdict, Untouched
  <2>6. Planned(t)' /\ Anchored(t)' /\ Apart(t)'
    BY <1>0, <1>5, <2>3, NothingWritten DEF Load, Anchor
  <2> QED
    BY <1>5, <2>1, <2>2, <2>4, <2>5, <2>6, Together DEF Load
<1> QED
  BY <1>1, <1>2, <1>3, <1>4, <1>5

\* The end of a run, regular or not, keeps the invariant.
LEMMA EndSolo ==
  ASSUME SInv, GInv', Alone, NEW w \in Worker, Finish(w) \/ Abort(w) PROVE SInv'
<1>0. IInv' /\ IInv /\ DecidedByVerdict /\ Untouched
  BY DEF SInv, GInv
<1>1. PICK t : t = NoTask
  OBVIOUS
<1>2. Loaded(t)' /\ t.updates = {} /\ t.ungraded = {}
  BY <1>1 DEF Loaded, NoTask
<1>3. DecidedByVerdict' /\ Untouched'
  BY <1>0 DEF Finish, Abort, DecidedByVerdict, Untouched
<1>4. aborts' = 0 => aborts = 0 /\ task[w].updates = {}
  BY <1>0 DEF Finish, Classified, Abort, IInv, TypeOK
<1>5. Planned(t)' /\ Anchored(t)' /\ Apart(t)'
  BY <1>0, <1>2, <1>4, NothingWritten DEF Finish, Abort, Anchor
<1> QED
  BY <1>1, <1>2, <1>3, <1>5, Together DEF Finish, Abort

\* A part of the news is not larger than a larger part.
LEMMA PartSize ==
  ASSUME NEW A \in SUBSET News, NEW B \in SUBSET A
  PROVE  Cardinality(A) \in Nat /\ Cardinality(B) \in Nat /\ Cardinality(B) <= Cardinality(A)
<1>1. IsFiniteSet(A)
  BY ClusterAssumption, FS_Subset
<1>2. IsFiniteSet(B) /\ Cardinality(B) <= Cardinality(A)
  BY <1>1, FS_Subset
<1> QED
  BY <1>1, <1>2, FS_CardinalityType

\* What was crowded out stays so while no anchor is lost.
LEMMA StaysUnjoinable ==
  ASSUME NEW r \in News, NEW S, Unjoinable(r, S),
         \A b \in News \ S : Anchor(b)' => Anchor(b),
         \A b \in News : Anchor(b) => Anchor(b)'
  PROVE  Unjoinable(r, S)'
<1> SUFFICES ASSUME NEW m \in News \ S, Anchor(m)', InScope(m, S), <<r, m>> \in Matching
             PROVE  Crowded(m, S)'
  BY DEF Unjoinable, InScope
<1> DEFINE A == {x \in News \ (S \cup {m}) :
                   Anchor(x)' /\ InScope(x, S) /\ Published[x] >= Published[m]}
           B == {x \in News \ (S \cup {m}) :
                   Anchor(x) /\ InScope(x, S) /\ Published[x] >= Published[m]}
<1>1. Cardinality(B) >= CandidateLimit
  BY DEF Unjoinable, Crowded
<1>2. A \in SUBSET News /\ B \in SUBSET A
  OBVIOUS
<1>3. Cardinality(A) \in Nat /\ Cardinality(B) \in Nat /\ Cardinality(B) <= Cardinality(A)
  BY <1>2, PartSize
<1>4. Cardinality(A) >= CandidateLimit
  <2> HIDE DEF A, B
  <2> QED
    BY <1>1, <1>3, ClusterAssumption
<1> QED
  BY <1>4 DEF Crowded, InScope

\* Writing one planned row keeps the invariant.
LEMMA PersistSolo ==
  ASSUME SInv, GInv', Alone, NEW w \in Worker, NEW u \in Update, Persist(w, u) PROVE SInv'
<1>0. /\ IInv /\ task[w] \in Task /\ Shaped(task[w]) /\ Loaded(task[w]) /\ Sound(u)
      /\ Planned(task[w]) /\ Anchored(task[w]) /\ Apart(task[w])
      /\ DecidedByVerdict /\ Untouched /\ u \in task[w].updates
  BY DEF SInv, GInv, IInv, TypeOK, PlansSound, Persist
<1>1. PICK t : t = [task[w] EXCEPT !.updates = task[w].updates \ {u}]
  OBVIOUS
<1>2. /\ t.pc = "store" /\ t.unchecked = {} /\ t.unjudged = {} /\ t.documents = {}
      /\ t.relevant = {} /\ t.updates = task[w].updates \ {u} /\ t.ungraded = task[w].ungraded
      /\ t.batch = task[w].batch
  BY <1>0, <1>1 DEF Loaded, Shaped, Task
<1>3. PICK c \in News : c = u.article
  BY DEF Update
<1>4. /\ cluster'[c] = u.cluster /\ rep'[c] = u.rep /\ status'[c] = "PROCESSED"
      /\ label' = label /\ aborts' = aborts /\ fastPath' = fastPath
      /\ Relevant(c) /\ u.cluster \in News /\ u.cluster # NoCluster
  BY <1>0, <1>3, ClusterAssumption DEF Persist, IInv, TypeOK, Article, Planned, Update
<1>5. \A b \in News \ {c} : cluster'[b] = cluster[b] /\ rep'[b] = rep[b] /\ status'[b] = status[b]
  BY <1>0, <1>3 DEF Persist, IInv, TypeOK, Article
<1>6. Loaded(t)'
  BY <1>2 DEF Loaded
<1>7. DecidedByVerdict' /\ Untouched'
  BY <1>0, <1>4, <1>5 DEF DecidedByVerdict, Untouched, Relevant
<1>8. \A b \in News : Anchor(b)' => IF b = c THEN u.rep ELSE Anchor(b)
  BY <1>4, <1>5 DEF Anchor
<1>9. u.rep => Anchor(c)'
  BY <1>0, <1>3, <1>4 DEF Anchor, Sound
<1>10. \A v \in t.updates : v \in task[w].updates /\ v.article \in News
  BY <1>0, <1>2 DEF Task, Update
<1>11. Planned(t)'
  <2>1. ASSUME NEW v \in t.updates, Anchor(v.article)' PROVE v.rep
    <3>1. CASE v.article = c
      BY <1>0, <1>3, <1>8, <1>10, <2>1, <3>1 DEF Planned
    <3>2. CASE v.article # c
      BY <1>0, <1>8, <1>10, <2>1, <3>2 DEF Planned
    <3> QED
      BY <3>1, <3>2
  <2>2. ASSUME NEW r \in t.ungraded
        PROVE  cluster'[r] # NoCluster \/ \E v \in t.updates : v.article = r
    <3>1. r \in News
      BY <1>0, <1>2 DEF Task
    <3>2. CASE r = c
      BY <1>4, <3>2
    <3>3. CASE r # c
      BY <1>0, <1>2, <1>3, <1>5, <3>1, <3>3 DEF Planned
    <3> QED
      BY <3>2, <3>3
  <2>3. \A v \in t.updates : Relevant(v.article)'
    BY <1>0, <1>4, <1>10 DEF Planned, Relevant
  <2>4. \A v, x \in t.updates : v.article = x.article => (v.rep <=> x.rep)
    BY <1>0, <1>10 DEF Planned
  <2>5. \A r \in t.ungraded : Relevant(r)'
    BY <1>0, <1>2, <1>4 DEF Planned, Relevant
  <2> QED
    BY <2>1, <2>2, <2>3, <2>4, <2>5 DEF Planned
<1>12. \A b \in News : Head(b, task[w]) => Head(b, t)'
  <2> SUFFICES ASSUME NEW b \in News, Head(b, task[w]) PROVE Head(b, t)'
    OBVIOUS
  <2>1. CASE b = c
    <3>1. CASE \E v \in task[w].updates : v.article = c /\ v.rep
      BY <1>2, <1>9, <2>1, <3>1 DEF Head
    <3>2. CASE Anchor(c)
      BY <1>0, <1>3, <1>9, <2>1, <3>2 DEF Head, Planned
    <3> QED
      BY <2>1, <3>1, <3>2 DEF Head
  <2>2. CASE b # c
    <3>1. Anchor(b) => Anchor(b)'
      BY <1>5, <2>2 DEF Anchor
    <3> QED
      BY <1>2, <1>3, <2>2, <3>1 DEF Head
  <2> QED
    BY <2>1, <2>2
<1>13. \A b \in News : Head(b, t)' => Head(b, task[w])
  BY <1>0, <1>2, <1>3, <1>8 DEF Head
<1>14. Anchored(t)'
  <2>1. ASSUME aborts' = 0, NEW a \in News, NEW b \in News, cluster'[a] = b PROVE Head(b, t)'
    <3>1. Head(b, task[w])
      <4>1. CASE a = c
        BY <1>0, <1>4, <2>1, <4>1 DEF Anchored
      <4>2. CASE a # c
        BY <1>0, <1>4, <1>5, <2>1, <4>2, ClusterAssumption DEF Anchored
      <4> QED
        BY <4>1, <4>2
    <3> QED
      BY <1>12, <3>1
  <2>2. ASSUME aborts' = 0, NEW v \in t.updates PROVE Head(v.cluster, t)'
    <3>1. v.cluster \in News
      BY <1>0, <1>10 DEF Task, Update
    <3> QED
      BY <1>0, <1>4, <1>10, <1>12, <2>2, <3>1 DEF Anchored
  <2>3. cluster' \in [News -> News \cup {NoCluster}]
    BY DEF GInv, IInv, TypeOK
  <2> QED
    BY <2>1, <2>2, <2>3 DEF Anchored, Head, Anchor
<1>15. Apart(t)'
  <2> SUFFICES ASSUME ~ fastPath, NEW v \in t.updates, v.rep, ~ Anchor(v.article)'
               PROVE  v.article \in t.batch /\ Unjoinable(v.article, t.batch)'
    BY <1>4 DEF Apart
  <2>1. v.article # c /\ v.article \in News
    BY <1>0, <1>3, <1>9, <1>10 DEF Planned
  <2>2. ~ Anchor(v.article)
    BY <1>5, <2>1 DEF Anchor
  <2>3. v.article \in t.batch /\ Unjoinable(v.article, t.batch)
    BY <1>0, <1>2, <1>10, <2>2 DEF Apart
  <2>4. \A b \in News \ t.batch : Anchor(b)' => Anchor(b)
    BY <1>0, <1>2, <1>3, <1>8 DEF Apart
  <2>5. \A b \in News : Anchor(b) => Anchor(b)'
    <3>1. Anchor(c) => Anchor(c)'
      BY <1>0, <1>3, <1>9 DEF Planned
    <3>2. \A b \in News \ {c} : Anchor(b) => Anchor(b)'
      BY <1>5 DEF Anchor
    <3> QED
      BY <3>1, <3>2
  <2> QED
    BY <2>1, <2>3, <2>4, <2>5, StaysUnjoinable
<1> QED
  BY <1>1, <1>6, <1>7, <1>11, <1>14, <1>15, Together DEF Persist

\* Classifying keeps the invariant: the article was already PROCESSED.
LEMMA ClassifySolo ==
  ASSUME SInv, GInv', Alone, NEW w \in Worker, NEW r \in News, Classify(w, r) PROVE SInv'
<1>0. /\ IInv /\ IInv' /\ task[w] \in Task /\ Shaped(task[w]) /\ Loaded(task[w])
      /\ Planned(task[w]) /\ DecidedByVerdict /\ Untouched
  BY DEF SInv, GInv, IInv, TypeOK
<1>1. PICK t : t = [task[w] EXCEPT !.ungraded = task[w].ungraded \ {r}]
  OBVIOUS
<1>2. /\ t.pc = "store" /\ t.unchecked = {} /\ t.unjudged = {} /\ t.documents = {}
      /\ t.relevant = {} /\ t.updates = {} /\ task[w].updates = {}
      /\ t.ungraded \subseteq task[w].ungraded
  BY <1>0, <1>1 DEF Loaded, Shaped, Task, Classify
<1>3. \A x \in task[w].ungraded : x \in News /\ Relevant(x) /\ cluster[x] # NoCluster
  BY <1>0, <1>2 DEF Planned, Task
<1>4. status[r] = "PROCESSED"
  <2>1. cluster[r] # NoCluster /\ r \in Article
    BY <1>3 DEF Classify, Article
  <2> QED
    BY <1>0, <2>1 DEF DecidedByVerdict, Untouched, IInv, TypeOK
<1>5. status' = status
  BY <1>0, <1>4 DEF Classify, IInv, TypeOK
<1>6. Loaded(t)'
  BY <1>2 DEF Loaded
<1>7. DecidedByVerdict' /\ Untouched'
  BY <1>0, <1>5 DEF Classify, DecidedByVerdict, Untouched
<1>8. Planned(t)' /\ Anchored(t)' /\ Apart(t)'
  BY <1>0, <1>2, <1>3, <1>5, NothingWritten DEF Classify, Anchor, Relevant
<1> QED
  BY <1>1, <1>6, <1>7, <1>8, Together DEF Classify

\* What Cluster may choose when no other run is active.
Choice(S, groups, best, match) ==
  /\ Chosen(S, groups, best, match) /\ groups = Groups(S)
  /\ ~ fastPath => \E C \in CandidateLists(S) :
       \A G \in groups : match[G] = NoCluster => Matches(best[G], C) = {}

\* The news of the batch is RAW, and what a group matches is an anchor.
Batch(S, groups, best, match) ==
  /\ \A a \in S : /\ a \in News /\ status[a] = "RAW" /\ Relevant(a) /\ ~ Anchor(a)
                  /\ cluster[a] = NoCluster
  /\ \A G \in groups :
       /\ G \subseteq S /\ best[G] \in G
       /\ match[G] # NoCluster =>
            match[G] \in News \ S /\ Anchor(match[G]) /\ Relevant(match[G])

LEMMA ChoiceFacts ==
  ASSUME SInv, NEW w \in Worker, NEW groups, NEW best, NEW match,
         Choice(task[w].relevant, groups, best, match)
  PROVE  Batch(task[w].relevant, groups, best, match)
<1> DEFINE S == task[w].relevant
<1>1. /\ IInv /\ task[w] \in Task /\ Loaded(task[w]) /\ DecidedByVerdict /\ Untouched
  BY DEF SInv, GInv, IInv, TypeOK
<1>2. \A a \in S : /\ a \in News /\ status[a] = "RAW" /\ Relevant(a) /\ ~ Anchor(a)
                   /\ cluster[a] = NoCluster
  BY <1>1 DEF Loaded, Untouched, Task, Anchor
<1>3. ASSUME NEW G \in groups PROVE G \subseteq S /\ best[G] \in G
  BY GroupFacts DEF Choice, Chosen
<1>4. ASSUME NEW G \in groups, match[G] # NoCluster
      PROVE  match[G] \in News \ S /\ Anchor(match[G]) /\ Relevant(match[G])
  <2>1. match[G] \in Candidates(S)
    BY <1>4 DEF Choice, Chosen, Matches
  <2> QED
    BY <1>1, <2>1 DEF Candidates, IInv, RepIsOwn, Anchor, DecidedByVerdict, Relevant
<1> QED
  BY <1>2, <1>3, <1>4 DEF Batch

\* The rows a plan writes are relevant, and take no anchor away.
Row(u, groups, best, match) ==
  /\ Relevant(u.article) /\ (Anchor(u.article) => u.rep)
  /\ (u.rep <=> \E H \in groups : u.article = Leader(best[H], match[H]))
  /\ \E G \in groups : u.cluster = Target(best[G], match[G])

LEMMA PlanRows ==
  ASSUME SInv, NEW w \in Worker, NEW groups, NEW best, NEW match,
         Choice(task[w].relevant, groups, best, match),
         NEW u \in Plan(task[w].relevant, groups, best, match)
  PROVE  Row(u, groups, best, match)
<1> DEFINE S == task[w].relevant
<1>0. Batch(S, groups, best, match)
  BY ChoiceFacts
<1>1. PICK G \in groups : \E a \in Merged(G, match[G], S) :
        u = [article |-> a, cluster |-> Target(best[G], match[G]),
             rep |-> \E H \in groups : a = Leader(best[H], match[H])]
  BY DEF Plan
<1>2. PICK a \in Merged(G, match[G], S) :
        u = [article |-> a, cluster |-> Target(best[G], match[G]),
             rep |-> \E H \in groups : a = Leader(best[H], match[H])]
  BY <1>1
<1>3. /\ u.article = a /\ u.cluster = Target(best[G], match[G])
      /\ (u.rep <=> \E H \in groups : a = Leader(best[H], match[H]))
  BY <1>2
<1>4. CASE a \in G
  BY <1>0, <1>3, <1>4 DEF Batch, Row
<1>5. CASE a \notin G
  <2>1. match[G] # NoCluster
    BY <1>5 DEF Merged
  <2>2. Anchor(match[G]) /\ Relevant(match[G]) /\ match[G] \in News
    BY <1>0, <2>1 DEF Batch
  <2>3. a = match[G] \/ (a \in News /\ cluster[a] = match[G])
    BY <1>5, <2>1, <2>2 DEF Merged, Anchor
  <2>4. a = match[G] => u.rep
    BY <1>3, <2>1 DEF Leader
  <2>5. CASE a = match[G]
    BY <1>3, <2>2, <2>4, <2>5 DEF Row
  <2>6. CASE a \in News /\ cluster[a] = match[G]
    <3>1. status[a] = "PROCESSED"
      <4>1. cluster[a] # NoCluster /\ a \in Article
        BY <2>1, <2>6 DEF Article
      <4> QED
        BY <2>6, <4>1 DEF SInv, GInv, IInv, TypeOK, DecidedByVerdict, Untouched
    <3>2. Relevant(a)
      BY <2>6, <3>1 DEF SInv, DecidedByVerdict, Relevant
    <3>3. Anchor(a) => a = match[G]
      BY <2>6 DEF Anchor
    <3> QED
      BY <1>3, <2>4, <3>2, <3>3 DEF Row
  <2> QED
    BY <2>3, <2>5, <2>6
<1> QED
  BY <1>4, <1>5

\* The leader of every group has a row in the plan.
LEMMA LeaderPlanned ==
  ASSUME NEW S, NEW groups, NEW best, NEW match, Chosen(S, groups, best, match), NEW G \in groups
  PROVE  \E u \in Plan(S, groups, best, match) :
           u.article = Leader(best[G], match[G]) /\ u.rep
<1>1. PICK a : a = Leader(best[G], match[G])
  OBVIOUS
<1>2. a \in Merged(G, match[G], S)
  <2>1. best[G] \in G
    BY DEF Chosen
  <2> QED
    BY <1>1, <2>1 DEF Merged, Leader
<1>3. PICK u : u = [article |-> a, cluster |-> Target(best[G], match[G]),
                    rep |-> \E H \in groups : a = Leader(best[H], match[H])]
  OBVIOUS
<1>4. u \in {[article |-> x, cluster |-> Target(best[G], match[G]),
               rep |-> \E H \in groups : x = Leader(best[H], match[H])] :
                x \in Merged(G, match[G], S)}
  BY <1>2, <1>3
<1>5. u \in Plan(S, groups, best, match)
  BY <1>4, Zenon DEF Plan
<1>6. u.article = a /\ u.rep
  BY <1>1, <1>3
<1> QED
  BY <1>1, <1>5, <1>6

\* Planning the clusters keeps the invariant.
LEMMA ClusterSolo ==
  ASSUME SInv, GInv', Alone, NEW w \in Worker, Cluster(w) PROVE SInv'
<1> DEFINE S == task[w].relevant
           groups == KeptGroups(S)
<1>0. PICK C \in SUBSET Candidates(S), best \in Representatives(groups, S) :
        /\ Compared(S) => C \in CandidateLists(S)
        /\ \E match \in Attachments(groups, best, C) :
             task' = [task EXCEPT ![w] = Planning(S, best, match)]
  BY ClusterChoice
<1>1. PICK match \in Attachments(groups, best, C) :
        task' = [task EXCEPT ![w] = Planning(S, best, match)]
  BY <1>0
<1>2. Choice(S, groups, best, match)
  <2>1. S \in SUBSET News
    BY DEF SInv, GInv, IInv, TypeOK, Task
  <2>2. Chosen(S, groups, best, match)
    BY <2>1, AttachmentsChosen
  <2>3. ASSUME NEW G \in groups, match[G] = NoCluster PROVE Matches(best[G], C) = {}
    <3>1. match[G] \in Joinable(best[G], C)
      BY DEF Attachments
    <3> QED
      BY <2>1, <2>3, <3>1, ClusterAssumption DEF Joinable, Matches, Candidates
  <2>4. ~ fastPath => C \in CandidateLists(S)
    BY <1>0 DEF Compared
  <2> QED
    BY <2>2, <2>3, <2>4 DEF Choice, KeptGroups
<1>3. PICK p : p = Plan(S, groups, best, match)
  OBVIOUS
<1>4. PICK g : g = {Leader(best[G], match[G]) : G \in groups}
  OBVIOUS
<1>5. PICK t : t = [NoTask EXCEPT !.pc = "store", !.batch = S, !.updates = p, !.ungraded = g]
  OBVIOUS
<1>6. /\ t.pc = "store" /\ t.unchecked = {} /\ t.unjudged = {} /\ t.documents = {}
      /\ t.relevant = {} /\ t.batch = S /\ t.updates = p /\ t.ungraded = g
      /\ task' = [task EXCEPT ![w] = t]
  BY <1>1, <1>3, <1>4, <1>5 DEF NoTask, Planning
<1> HIDE DEF groups
<1>7. /\ IInv /\ DecidedByVerdict /\ Untouched /\ Chosen(S, groups, best, match)
      /\ Anchored(task[w]) /\ Apart(task[w]) /\ task[w].updates = {}
      /\ UNCHANGED <<fastPath, status, label, cluster, rep, graded, aborts>>
  BY <1>2 DEF SInv, GInv, Choice, Shaped, Cluster, Routed
<1>8. /\ \A u \in p : u \in Update
      /\ \A u \in p : Relevant(u.article) /\ (Anchor(u.article) => u.rep)
      /\ \A u \in p : (u.rep <=> u.article \in g)
      /\ \A u \in p : \E G \in groups : u.cluster = Target(best[G], match[G])
  <2>1. \A u \in Plan(S, groups, best, match) : Row(u, groups, best, match)
    BY <1>2, PlanRows
  <2>2. \A u \in Plan(S, groups, best, match) : u \in Update /\ Sound(u)
    <3> HIDE DEF S
    <3> QED
      BY <1>7, PlanSound
  <2>3. \A u \in p : (u.rep <=> u.article \in g)
    <3> SUFFICES ASSUME NEW u \in p PROVE u.rep <=> u.article \in g
      OBVIOUS
    <3>1. u.rep <=> \E H \in groups : u.article = Leader(best[H], match[H])
      BY <1>3, <2>1 DEF Row
    <3>2. (\E H \in groups : u.article = Leader(best[H], match[H])) <=> u.article \in g
      BY <1>4
    <3> QED
      BY <3>1, <3>2
  <2> QED
    BY <1>3, <2>1, <2>2, <2>3 DEF Row
<1>b. Batch(S, groups, best, match)
  BY <1>2, ChoiceFacts
<1>9. \A r \in g : \E u \in p : u.article = r /\ u.rep
  BY <1>3, <1>4, <1>7, LeaderPlanned
<1>10. \A G \in groups : IF match[G] = NoCluster THEN best[G] \in g ELSE Anchor(match[G])
  BY <1>2, <1>4, <1>b DEF Leader, Batch
<1>11. Loaded(t)' /\ DecidedByVerdict' /\ Untouched'
  BY <1>6, <1>7 DEF Loaded, DecidedByVerdict, Untouched
<1>12. Planned(t)'
  <2>1. \A r \in g : Relevant(r)
    BY <1>8, <1>9
  <2> QED
    BY <1>6, <1>7, <1>8, <1>9, <2>1 DEF Planned, Anchor, Relevant
<1>13. \A b : Head(b, t) <=> Anchor(b) \/ b \in g
  BY <1>6, <1>8, <1>9 DEF Head
<1>14. Anchored(t)
  <2>1. ASSUME aborts = 0, NEW a \in News, cluster[a] # NoCluster PROVE Head(cluster[a], t)
    BY <1>7, <2>1 DEF Anchored, Head
  <2>2. ASSUME NEW u \in p PROVE Head(u.cluster, t)
    <3>1. PICK G \in groups : u.cluster = Target(best[G], match[G])
      BY <1>8
    <3>2. CASE match[G] = NoCluster
      BY <1>10, <1>13, <3>1, <3>2 DEF Target
    <3>3. CASE match[G] # NoCluster
      BY <1>10, <1>13, <3>1, <3>3 DEF Target, Anchor
    <3> QED
      BY <3>2, <3>3
  <2> QED
    BY <1>6, <2>1, <2>2 DEF Anchored
<1>15. Apart(t)
  <2> SUFFICES ASSUME ~ fastPath, NEW u \in p, u.rep, ~ Anchor(u.article)
               PROVE  u.article \in S /\ Unjoinable(u.article, S)
    BY <1>6 DEF Apart
  <2>1. PICK G \in groups : u.article = Leader(best[G], match[G])
    BY <1>4, <1>8
  <2>2. match[G] = NoCluster /\ u.article = best[G] /\ best[G] \in S
    BY <1>b, <2>1 DEF Leader, Batch
  <2>3. PICK L \in CandidateLists(S) : Matches(best[G], L) = {}
    BY <1>2, <2>2 DEF Choice
  <2>4. \A m \in News \ S : Anchor(m) /\ InScope(m, S) => m \in Candidates(S)
    BY ClusterAssumption DEF Candidates, Anchor
  <2>5. \A x \in Candidates(S) : x \in News \ S /\ Anchor(x) /\ InScope(x, S)
    BY <1>7 DEF Candidates, IInv, RepIsOwn, Anchor
  <2>6. ASSUME NEW m \in News \ S, Anchor(m), InScope(m, S), <<best[G], m>> \in Matching
        PROVE  Crowded(m, S)
    <3>1. m \in Candidates(S) \ L
      BY <2>3, <2>4, <2>6 DEF Matches
    <3>2. Cardinality(L) = CandidateLimit /\ \A x \in L : Published[x] >= Published[m]
      BY <3>1 DEF CandidateLists
    <3> DEFINE A == {x \in News \ (S \cup {m}) :
                       Anchor(x) /\ InScope(x, S) /\ Published[x] >= Published[m]}
    <3>3. L \in SUBSET A
      BY <2>5, <3>1, <3>2 DEF CandidateLists
    <3>4. A \in SUBSET News
      OBVIOUS
    <3>5. Cardinality(A) >= CandidateLimit
      <4> HIDE DEF A
      <4>1. Cardinality(L) <= Cardinality(A) /\ Cardinality(A) \in Nat
        BY <3>3, <3>4, PartSize
      <4> QED
        BY <3>2, <4>1, ClusterAssumption
    <3> QED
      BY <3>5 DEF Crowded
  <2> QED
    BY <2>2, <2>6 DEF Unjoinable
<1>16. Anchored(t)' /\ Apart(t)'
  <2>1. \A a \in News : Anchor(a)' <=> Anchor(a)
    BY <1>7 DEF Anchor
  <2>2. \A u \in t.updates : u.article \in News
    BY <1>6, <1>8 DEF Update
  <2>3. Apart(t)'
    BY <1>7, <1>15, <2>1, <2>2, StaysUnjoinable DEF Apart
  <2>4. Anchored(t)'
    BY <1>7, <1>14 DEF Anchored, Head, Anchor
  <2> QED
    BY <2>3, <2>4
<1> QED
  BY <1>6, <1>11, <1>12, <1>16, Together

\* Every step of a run on its own keeps the invariant.
LEMMA NextSolo == Alone /\ SInv /\ [Next]_vars => SInv'
<1> SUFFICES ASSUME Alone, SInv, [Next]_vars PROVE SInv'
  OBVIOUS
<1>0. GInv'
  BY NextGraded DEF SInv
<1>1. CASE UNCHANGED vars
  <2>1. \A a \in News : Anchor(a)' <=> Anchor(a)
    BY <1>1 DEF vars, Anchor
  <2>2. ASSUME NEW w \in Worker PROVE Apart(task[w])'
    <3>1. Apart(task[w]) /\ \A u \in task[w].updates : u.article \in News
      BY DEF SInv, GInv, IInv, TypeOK, Task, Update
    <3>2. task' = task /\ fastPath' = fastPath
      BY <1>1 DEF vars
    <3> QED
      BY <2>1, <3>1, <3>2, StaysUnjoinable DEF Apart
  <2>3. DecidedByVerdict' /\ Untouched'
    BY <1>1 DEF vars, SInv, DecidedByVerdict, Untouched
  <2>4. \A w \in Worker : Loaded(task[w])' /\ Planned(task[w])' /\ Anchored(task[w])'
    BY <1>1 DEF vars, SInv, Loaded, Planned, Anchored, Head, Anchor, Relevant
  <2> QED
    BY <1>0, <2>2, <2>3, <2>4 DEF SInv
<1>2. CASE Next
  <2>1. PICK w \in Worker : Step(w) \/ Abort(w)
    BY <1>2 DEF Next
  <2>2. task[w].updates \subseteq Update
    BY DEF SInv, GInv, IInv, TypeOK, Task
  <2>3. CASE \E u \in task[w].updates : Persist(w, u)
    BY <1>0, <2>2, <2>3, PersistSolo
  <2>4. CASE \E r \in News : Classify(w, r)
    BY <1>0, <2>4, ClassifySolo
  <2>5. CASE Cluster(w)
    BY <1>0, <2>5, ClusterSolo
  <2>6. CASE Finish(w) \/ Abort(w)
    BY <1>0, <2>6, EndSolo
  <2> QED
    BY <1>0, <2>1, <2>3, <2>4, <2>5, <2>6, RouteSolo DEF Step
<1> QED
  BY <1>1, <1>2

\* A run on its own takes no anchor away.
LEMMA NextAnchors ==
  SInv /\ [Next]_vars => [\A a \in News : Anchor(a) => Anchor(a)']_vars
<1> SUFFICES ASSUME SInv, [Next]_vars, NEW a \in News, Anchor(a) PROVE Anchor(a)' \/ UNCHANGED vars
  OBVIOUS
<1> SUFFICES ASSUME NEW w \in Worker, Step(w) \/ Abort(w) PROVE Anchor(a)'
  BY DEF Next
<1>0. /\ IInv /\ Loaded(task[w]) /\ Planned(task[w]) /\ a \in Article
      /\ task[w] \in Task
  BY DEF SInv, GInv, IInv, TypeOK, Article
<1>1. CASE \E u \in task[w].updates : Persist(w, u)
  <2>1. PICK u \in task[w].updates : Persist(w, u)
    BY <1>1
  <2>2. CASE u.article = a
    <3>1. u.rep /\ Sound(u)
      BY <1>0, <2>2 DEF Planned, IInv, PlansSound
    <3> QED
      BY <1>0, <2>1, <2>2, <3>1 DEF Persist, IInv, TypeOK, Sound, Anchor
  <2>3. CASE u.article # a
    BY <1>0, <2>1, <2>3 DEF Persist, IInv, TypeOK, Anchor
  <2> QED
    BY <2>2, <2>3
<1>2. ASSUME NEW b \in News, KeepLink(w, b) \/ SkipDeadLink(w, b) \/ Judge(w, b) \/ Classify(w, b)
      PROVE  Anchor(a)'
  <2>1. CASE KeepLink(w, b)
    BY <2>1 DEF KeepLink, Anchor
  <2>2. CASE SkipDeadLink(w, b)
    <3>1. status[b] = "RAW"
      BY <1>0, <2>2 DEF SkipDeadLink, Loaded
    <3> QED
      BY <1>0, <2>2, <3>1 DEF SkipDeadLink, Anchor, IInv, TypeOK
  <2>3. CASE Judge(w, b)
    <3>1. status[b] = "RAW"
      BY <1>0, <2>3 DEF Judge, Loaded
    <3> QED
      BY <1>0, <2>3, <3>1 DEF Judge, Anchor, IInv, TypeOK
  <2>4. CASE Classify(w, b)
    BY <1>0, <2>4 DEF Classify, Anchor, IInv, TypeOK
  <2> QED
    BY <1>2, <2>1, <2>2, <2>3, <2>4
<1>3. CASE \E d \in Document : RouteDocument(w, d)
  BY <1>0, <1>3, ClusterAssumption DEF RouteDocument, Anchor, IInv, TypeOK
<1>4. CASE Load(w) \/ Cluster(w) \/ Finish(w) \/ Abort(w)
  BY <1>4 DEF Load, Cluster, Finish, Abort, Anchor
<1> QED
  BY <1>1, <1>2, <1>3, <1>4 DEF Step

\* A run on its own makes an anchor only of what it has planned to.
LEMMA NextJoins ==
  SInv /\ [Next]_vars => [~ fastPath => OpensApart]_vars
<1> SUFFICES ASSUME SInv, Next, ~ fastPath, NEW r \in News, ~ Anchor(r), Anchor(r)'
             PROVE  \E w \in Worker : r \in task[w].batch /\ Unjoinable(r, task[w].batch)
  BY DEF OpensApart
<1>1. PICK w \in Worker : Step(w) \/ Abort(w)
  BY DEF Next
<1>2. /\ IInv /\ Loaded(task[w]) /\ Planned(task[w]) /\ Apart(task[w]) /\ Untouched
      /\ DecidedByVerdict /\ r \in Article /\ task[w] \in Task
      /\ status \in [Article -> {"RAW", "SKIPPED", "REVIEW", "PROCESSED"}]
  BY DEF SInv, GInv, IInv, TypeOK, Article
<1>3. CASE \E u \in task[w].updates : Persist(w, u)
  <2>1. PICK u \in task[w].updates : Persist(w, u)
    BY <1>3
  <2>2. u.article = r /\ u.rep
    BY <1>2, <2>1 DEF Persist, IInv, TypeOK, Anchor
  <2> QED
    BY <1>2, <2>1, <2>2 DEF Apart
<1>4. CASE \E b \in News : Classify(w, b)
  <2>1. PICK b \in News : Classify(w, b)
    BY <1>4
  <2>2. rep[r] /\ cluster[r] = r
    BY <2>1 DEF Classify, Anchor
  <2>3. status[r] = "PROCESSED"
    BY <1>2, <2>2 DEF DecidedByVerdict, Untouched
  <2> QED
    BY <2>2, <2>3 DEF Anchor
<1>5. CASE \E b \in News : SkipDeadLink(w, b) \/ Judge(w, b)
  <2>1. PICK b \in News : SkipDeadLink(w, b) \/ Judge(w, b)
    BY <1>5
  <2>2. r = b
    BY <1>2, <2>1 DEF SkipDeadLink, Judge, IInv, TypeOK, Anchor
  <2>3. status[b] = "RAW" /\ ~ rep[b]
    BY <1>2, <2>1 DEF SkipDeadLink, Judge, Loaded, Untouched
  <2> QED
    BY <1>2, <2>1, <2>2, <2>3 DEF SkipDeadLink, Judge, IInv, TypeOK, Anchor
<1>6. CASE \E d \in Document : RouteDocument(w, d)
  BY <1>2, <1>6, ClusterAssumption DEF RouteDocument, Anchor
<1>7. CASE Load(w) \/ (\E b \in News : KeepLink(w, b)) \/ Cluster(w) \/ Finish(w) \/ Abort(w)
  BY <1>7 DEF Load, KeepLink, Cluster, Finish, Abort, Anchor
<1> QED
  BY <1>1, <1>3, <1>4, <1>5, <1>6, <1>7 DEF Step

-----------------------------------------------------------------------------
(* Theorems *)

\* Every variable keeps its type.
THEOREM TypeCorrect == Spec => []TypeOK
<1>1. IInv => TypeOK
  BY DEF IInv
<1> QED
  BY <1>1, InitInv, NextInv, PTL DEF Spec

\* No cluster ever has two representatives, for any number of runs that
\* overlap and abort.
THEOREM OneRepSafe == Spec => []OneRepPerCluster
<1>1. IInv => OneRepPerCluster
  BY DEF IInv, RepIsOwn, OneRepPerCluster
<1> QED
  BY <1>1, InitInv, NextInv, PTL DEF Spec

\* Clusters of different events never mix, whatever the similarity relation.
THEOREM NoMixedSafe == Spec => []NoMixedEvent
<1>1. IInv => NoMixedEvent
  BY DEF IInv
<1> QED
  BY <1>1, InitInv, NextInv, PTL DEF Spec

\* Without an abort every representative is classified between runs, for any
\* number of runs that overlap.
THEOREM GradedSafe == Spec => []RepsGraded
<1>1. Init => GInv
  <2> SUFFICES ASSUME Init PROVE GInv
    OBVIOUS
  <2> QED
    BY InitInv DEF Init, GInv, Shaped, Covered, NoTask
<1>2. GInv => RepsGraded
  BY DEF GInv, Shaped, Covered, RepsGraded, Idle
<1> QED
  BY <1>1, <1>2, NextGraded, PTL DEF Spec

\* The initial states satisfy the invariant of a run on its own.
LEMMA InitSolo == Init => SInv
<1> SUFFICES ASSUME Init PROVE SInv
  OBVIOUS
<1>1. GInv
  BY InitInv DEF Init, GInv, Shaped, Covered, NoTask
<1>2. \A a \in News : status[a] = "RAW" /\ ~ rep[a] /\ cluster[a] = NoCluster
  BY DEF Init, Article
<1>3. \A w \in Worker : task[w] = NoTask
  BY DEF Init
<1>4. DecidedByVerdict /\ Untouched
  BY <1>2 DEF DecidedByVerdict, Untouched
<1>5. Loaded(NoTask) /\ Planned(NoTask)
  BY DEF Loaded, Planned, NoTask
<1>6. Anchored(NoTask) /\ Apart(NoTask)
  BY <1>2 DEF Anchored, Apart, Head, Anchor, NoTask
<1> QED
  BY <1>1, <1>3, <1>4, <1>5, <1>6 DEF SInv

\* With one run at a time, where an article ends and what its row says agree
\* with what the rules said of it.
THEOREM DecidedSafe ==
  ASSUME NEW w, Worker = {w}
  PROVE  Spec => []DecidedByVerdict
<1>1. Alone
  BY DEF Alone
<1>2. SInv /\ [Next]_vars => SInv'
  BY <1>1, NextSolo
<1>3. SInv => DecidedByVerdict
  BY DEF SInv
<1> QED
  BY <1>2, <1>3, InitSolo, PTL DEF Spec

\* With one run at a time, every clustered article finds the representative
\* of its cluster under the cluster id.
THEOREM AnchoredSafe ==
  ASSUME NEW w, Worker = {w}
  PROVE  Spec => []ClustersAnchored
<1>1. Alone
  BY DEF Alone
<1>2. SInv /\ [Next]_vars => SInv'
  BY <1>1, NextSolo
<1>3. SInv => ClustersAnchored
  <2> SUFFICES ASSUME SInv, Idle, aborts = 0, NEW a \in News, cluster[a] # NoCluster
               PROVE  Anchor(cluster[a])
    BY DEF ClustersAnchored
  <2>1. Head(cluster[a], task[w]) /\ task[w].updates = {}
    BY DEF SInv, GInv, Shaped, Anchored, Idle
  <2> QED
    BY <2>1 DEF Head
<1> QED
  BY <1>2, <1>3, InitSolo, PTL DEF Spec

\* With one run at a time and without the fast path, no run opens a cluster
\* beside an existing one that its representative matches, unless the query
\* for its batch does not select that one or as many later ones crowd it out
\* as the limit lets through.
THEOREM JoinsSafe ==
  ASSUME NEW w, Worker = {w}
  PROVE  Spec => JoinsExisting
<1>1. Alone
  BY DEF Alone
<1>2. SInv /\ [Next]_vars => SInv'
  BY <1>1, NextSolo
<1>3. SInv /\ [Next]_vars => [~ fastPath => OpensApart]_vars
  BY NextJoins
<1> QED
  BY <1>2, <1>3, InitSolo, PTL DEF Spec, JoinsExisting

\* With one run at a time, no cluster loses its anchor.
THEOREM AnchorsSafe ==
  ASSUME NEW w, Worker = {w}
  PROVE  Spec => AnchorKept
<1>1. Alone
  BY DEF Alone
<1>2. SInv /\ [Next]_vars => SInv'
  BY <1>1, NextSolo
<1>3. SInv /\ [Next]_vars => [\A a \in News : Anchor(a) => Anchor(a)']_vars
  BY NextAnchors
<1> QED
  BY <1>2, <1>3, InitSolo, PTL DEF Spec, AnchorKept

-----------------------------------------------------------------------------
(* Every run decides what it loaded *)

\* The articles a run has loaded and not dealt with yet.
Held(w) ==
  task[w].unchecked \cup task[w].unjudged \cup task[w].documents \cup task[w].relevant
    \cup {u.article : u \in task[w].updates}

\* A run lets go of an article only when it has decided on it, unless it
\* aborts: neither the routing, the two rounds of union-find, the choice of
\* representatives nor the attachment to existing clusters drops one.
HeldUntilDecided ==
  [][\A w \in Worker : \A a \in Held(w) :
       a \in Held(w)' \/ status'[a] # "RAW" \/ aborts' # aborts]_vars

\* What has been decided on is never RAW again.
DecidedForGood ==
  [][\A a \in Article : status[a] # "RAW" => status'[a] # "RAW"]_vars

Phase == [pc \in {"idle", "route", "store"} |->
            CASE pc = "route" -> 2 [] pc = "store" -> 1 [] pc = "idle" -> 0]

\* s holds less than t in the first of the sets in which they differ.
Fewer(s, t) ==
  \/ s.unchecked \subseteq t.unchecked /\ s.unchecked # t.unchecked
  \/ /\ s.unchecked = t.unchecked
     /\ s.unjudged \subseteq t.unjudged /\ s.unjudged # t.unjudged
  \/ /\ s.unchecked = t.unchecked /\ s.unjudged = t.unjudged
     /\ s.documents \subseteq t.documents /\ s.documents # t.documents
  \/ /\ s.unchecked = t.unchecked /\ s.unjudged = t.unjudged /\ s.documents = t.documents
     /\ s.updates \subseteq t.updates /\ s.updates # t.updates
  \/ /\ s.unchecked = t.unchecked /\ s.unjudged = t.unjudged /\ s.documents = t.documents
     /\ s.updates = t.updates
     /\ s.ungraded \subseteq t.ungraded /\ s.ungraded # t.ungraded

\* A run in state s is closer to its end than in state t.
Closer(s, t) ==
  \/ Phase[s.pc] < Phase[t.pc]
  \/ s.pc = t.pc /\ Fewer(s, t)

\* A step that starts no run brings one closer to its end and leaves the
\* others as they are.
RunShrinks ==
  [][\E w \in Worker :
       /\ Load(w) \/ Closer(task'[w], task[w])
       /\ \A v \in Worker \ {w} : task'[v] = task[v]]_vars

\* Worker w can take a step other than Abort: the guards of Step, an action
\* each.
CanStep(w) ==
  \/ task[w].pc = "idle" /\ Loadable # {}
  \/ task[w].unchecked # {}
  \/ task[w].unchecked = {} /\ task[w].unjudged # {}
  \/ task[w].unchecked = {} /\ task[w].unjudged = {} /\ task[w].documents # {}
  \/ /\ Routed(w)
     /\ \E C \in IF Compared(task[w].relevant) THEN CandidateLists(task[w].relevant) ELSE {{}} :
          \E best \in Representatives(KeptGroups(task[w].relevant), task[w].relevant) :
            Attachments(KeptGroups(task[w].relevant), best, C) # {}
  \/ task[w].updates # {}
  \/ task[w].pc = "store" /\ task[w].updates = {} /\ task[w].ungraded # {}
  \/ Classified(w)

\* No run waits for ever, and while an article is RAW every idle worker can
\* start one.
NeverStuck == \A w \in Worker : task[w].pc # "idle" \/ Loadable # {} => CanStep(w)

\* Only the first half of a run holds articles that are not planned yet.
Routing(t) ==
  t.pc # "route" => t.unchecked = {} /\ t.unjudged = {} /\ t.documents = {} /\ t.relevant = {}

HInv == GInv /\ \A w \in Worker : Routing(task[w])

\* The initial states satisfy it.
LEMMA InitHeld == Init => HInv
<1> SUFFICES ASSUME Init PROVE HInv
  OBVIOUS
<1> QED
  BY InitInv DEF Init, HInv, GInv, Shaped, Covered, Routing, NoTask

\* Every step keeps it.
LEMMA NextHeld == HInv /\ [Next]_vars => HInv'
<1> SUFFICES ASSUME HInv, [Next]_vars PROVE HInv'
  OBVIOUS
<1>1. GInv' /\ IInv
  BY NextGraded DEF HInv, GInv
<1>2. CASE UNCHANGED vars
  BY <1>1, <1>2 DEF vars, HInv, Routing
<1>3. CASE Next
  <2>1. PICK w \in Worker : Step(w) \/ Abort(w)
    BY <1>3 DEF Next
  <2>2. PICK t : t = task'[w]
    OBVIOUS
  <2>3. task \in [Worker -> Task] /\ task[w] \in Task /\ Routing(task[w])
    BY <1>1 DEF IInv, TypeOK, HInv
  <2>4. \A v \in Worker \ {w} : task'[v] = task[v]
    BY <2>1, <2>3 DEF Step, Load, KeepLink, SkipDeadLink, Judge, Classify, RouteDocument,
       Cluster, Persist, Finish, Abort
  <2>5. Routing(t)
    <3>1. CASE \E a \in News : KeepLink(w, a) \/ SkipDeadLink(w, a) \/ Judge(w, a)
      <4>1. task[w].unchecked # {} \/ task[w].unjudged # {}
        BY <3>1 DEF KeepLink, SkipDeadLink, Judge
      <4>2. t.pc = task[w].pc
        <5>1. PICK a \in News : KeepLink(w, a) \/ SkipDeadLink(w, a) \/ Judge(w, a)
          BY <3>1
        <5>2. CASE KeepLink(w, a)
          BY <2>2, <2>3, <5>2 DEF KeepLink, Task
        <5>3. CASE SkipDeadLink(w, a)
          BY <2>2, <2>3, <5>3 DEF SkipDeadLink, Task
        <5>4. CASE Judge(w, a)
          BY <2>2, <2>3, <5>4 DEF Judge, Task
        <5> QED
          BY <5>1, <5>2, <5>3, <5>4
      <4> QED
        BY <2>3, <4>1, <4>2 DEF Routing
    <3>2. CASE \E a \in Document : RouteDocument(w, a)
      BY <2>2, <2>3, <3>2 DEF RouteDocument, Routing, Task
    <3>3. CASE (\E a \in News : Classify(w, a)) \/ \E u \in task[w].updates : Persist(w, u)
      BY <2>2, <2>3, <3>3 DEF Classify, Persist, Routing, Task
    <3>4. CASE Load(w)
      <4>1. t.pc = "route"
        BY <2>2, <2>3, <3>4 DEF Load, NoTask
      <4> QED
        BY <4>1 DEF Routing
    <3>5. CASE Cluster(w)
      <4>1. PICK best, match : t = Planning(task[w].relevant, best, match)
        BY <2>2, <2>3, <3>5, ClusterChoice
      <4> QED
        BY <4>1 DEF Planning, Routing, NoTask
    <3>6. CASE Finish(w) \/ Abort(w)
      <4>1. t = NoTask
        BY <2>2, <2>3, <3>6 DEF Finish, Abort
      <4> QED
        BY <4>1 DEF Routing, NoTask
    <3> QED
      BY <2>1, <3>1, <3>2, <3>3, <3>4, <3>5, <3>6 DEF Step
  <2>6. \A v \in Worker : Routing(task'[v])
    BY <2>2, <2>4, <2>5 DEF HInv
  <2> QED
    BY <1>1, <2>6 DEF HInv, Routing
<1> QED
  BY <1>2, <1>3

\* Planning gives every relevant article a row to write.
LEMMA AllPlanned ==
  ASSUME NEW S, NEW a \in S, NEW best, NEW match
  PROVE  \E u \in Plan(S, KeptGroups(S), best, match) : u.article = a
<1> DEFINE groups == KeptGroups(S)
           row(x, G) == [article |-> x, cluster |-> Target(best[G], match[G]),
                         rep |-> \E H \in groups : x = Leader(best[H], match[H])]
<1>1. PICK G \in groups : a \in G
  BY GroupsPartition DEF KeptGroups
<1>2. a \in Merged(G, match[G], S)
  BY <1>1 DEF Merged
<1>3. row(a, G) \in Plan(S, groups, best, match)
  <2>1. Plan(S, groups, best, match) =
          UNION {{row(x, H) : x \in Merged(H, match[H], S)} : H \in groups}
    BY DEF Plan
  <2> HIDE DEF row, groups
  <2>2. row(a, G) \in {row(x, G) : x \in Merged(G, match[G], S)}
    BY <1>2
  <2> QED
    BY <1>1, <2>1, <2>2
<1>4. row(a, G).article = a
  OBVIOUS
<1> QED
  BY <1>3, <1>4

\* A step of a run keeps, decides on or aborts with every article it holds.
LEMMA StepHolds ==
  ASSUME HInv, NEW w \in Worker, Step(w) \/ Abort(w), NEW a \in Held(w)
  PROVE  a \in Held(w)' \/ status'[a] # "RAW" \/ aborts' # aborts
<1>1. /\ task \in [Worker -> Task] /\ task[w] \in Task /\ Routing(task[w]) /\ Shaped(task[w])
      /\ status \in [Article -> {"RAW", "SKIPPED", "REVIEW", "PROCESSED"}] /\ aborts \in Nat
  BY ClusterAssumption DEF HInv, GInv, IInv, TypeOK
<1>2. CASE \E b \in News : KeepLink(w, b)
  <2>1. PICK b \in News : KeepLink(w, b)
    BY <1>2
  <2>2. /\ task'[w].unchecked = task[w].unchecked \ {b}
        /\ task'[w].unjudged = task[w].unjudged \cup {b}
        /\ task'[w].documents = task[w].documents /\ task'[w].relevant = task[w].relevant
        /\ task'[w].updates = task[w].updates
    BY <1>1, <2>1 DEF KeepLink, Task
  <2> QED
    BY <2>2 DEF Held
<1>3. CASE \E b \in News : SkipDeadLink(w, b)
  <2>1. PICK b \in News : SkipDeadLink(w, b)
    BY <1>3
  <2>2. /\ task'[w].unchecked = task[w].unchecked \ {b}
        /\ task'[w].unjudged = task[w].unjudged
        /\ task'[w].documents = task[w].documents /\ task'[w].relevant = task[w].relevant
        /\ task'[w].updates = task[w].updates
    BY <1>1, <2>1 DEF SkipDeadLink, Task
  <2>3. status'[b] = "SKIPPED"
    BY <1>1, <2>1 DEF SkipDeadLink, Article
  <2> QED
    BY <2>2, <2>3 DEF Held
<1>4. CASE \E b \in News : Judge(w, b)
  <2>1. PICK b \in News : Judge(w, b)
    BY <1>4
  <2>2. /\ task'[w].unchecked = task[w].unchecked
        /\ task'[w].unjudged = task[w].unjudged \ {b}
        /\ task'[w].documents = task[w].documents
        /\ task'[w].relevant =
             task[w].relevant \cup {x \in {b} : Verdict[x] = "relevant"}
        /\ task'[w].updates = task[w].updates
    BY <1>1, <2>1 DEF Judge, Task
  <2>3. status'[b] = Decision(b)
    BY <1>1, <2>1 DEF Judge, Article
  <2>4. Verdict[b] = "relevant" \/ Decision(b) # "RAW"
    BY ClusterAssumption DEF Decision
  <2> QED
    BY <2>2, <2>3, <2>4 DEF Held
<1>5. CASE \E d \in Document : RouteDocument(w, d)
  <2>1. PICK d \in Document : RouteDocument(w, d)
    BY <1>5
  <2>2. /\ task'[w].unchecked = task[w].unchecked
        /\ task'[w].unjudged = task[w].unjudged
        /\ task'[w].documents = task[w].documents \ {d}
        /\ task'[w].relevant = task[w].relevant
        /\ task'[w].updates = task[w].updates
    BY <1>1, <2>1 DEF RouteDocument, Task
  <2>3. status'[d] # "RAW"
    BY <1>1, <2>1 DEF RouteDocument, Article
  <2> QED
    BY <2>2, <2>3 DEF Held
<1>6. CASE Cluster(w)
  <2>1. a \in task[w].relevant
    BY <1>1, <1>6 DEF Cluster, Routed, Held, Shaped
  <2>2. PICK best, match :
          task'[w].updates = Plan(task[w].relevant, KeptGroups(task[w].relevant), best, match)
    <3>1. PICK best, match : task'[w] = Planning(task[w].relevant, best, match)
      BY <1>1, <1>6, ClusterChoice
    <3> QED
      BY <3>1 DEF Planning, NoTask
  <2> QED
    BY <2>1, <2>2, AllPlanned DEF Held
<1>7. CASE \E u \in task[w].updates : Persist(w, u)
  <2>1. PICK u \in task[w].updates : Persist(w, u)
    BY <1>7
  <2>2. /\ task'[w].unchecked = task[w].unchecked
        /\ task'[w].unjudged = task[w].unjudged
        /\ task'[w].documents = task[w].documents
        /\ task'[w].relevant = task[w].relevant
        /\ task'[w].updates = task[w].updates \ {u}
    BY <1>1, <2>1 DEF Persist, Task
  <2>3. status'[u.article] = "PROCESSED"
    BY <1>1, <2>1 DEF Persist, Article, Task, Update
  <2> QED
    BY <2>2, <2>3 DEF Held
<1>8. CASE \E b \in News : Classify(w, b)
  <2>1. PICK b \in News : Classify(w, b)
    BY <1>8
  <2>2. /\ task'[w].unchecked = task[w].unchecked
        /\ task'[w].unjudged = task[w].unjudged
        /\ task'[w].documents = task[w].documents
        /\ task'[w].relevant = task[w].relevant
        /\ task'[w].updates = task[w].updates
    BY <1>1, <2>1 DEF Classify, Task
  <2> QED
    BY <2>2 DEF Held
<1>9. CASE Load(w) \/ Finish(w)
  BY <1>1, <1>9 DEF Load, Finish, Classified, Held, Routing, Shaped
<1>10. CASE Abort(w)
  BY <1>1, <1>10 DEF Abort
<1> QED
  BY <1>2, <1>3, <1>4, <1>5, <1>6, <1>7, <1>8, <1>9, <1>10 DEF Step

\* Whatever runs overlap, no run loses an article on its way: it is decided on
\* or the run aborts.
THEOREM HeldSafe == Spec => HeldUntilDecided
<1>1. HInv /\ [Next]_vars =>
        [\A w \in Worker : \A a \in Held(w) :
           a \in Held(w)' \/ status'[a] # "RAW" \/ aborts' # aborts]_vars
  <2> SUFFICES ASSUME HInv, Next, NEW w \in Worker, NEW a \in Held(w)
               PROVE  a \in Held(w)' \/ status'[a] # "RAW" \/ aborts' # aborts
    OBVIOUS
  <2>1. PICK v \in Worker : Step(v) \/ Abort(v)
    BY DEF Next
  <2>2. CASE v = w
    BY <2>1, <2>2, StepHolds
  <2>3. CASE v # w
    <3>1. task'[w] = task[w]
      BY <2>1, <2>3 DEF HInv, GInv, IInv, TypeOK, Step, Load, KeepLink, SkipDeadLink, Judge,
         Classify, RouteDocument, Cluster, Persist, Finish, Abort
    <3> QED
      BY <3>1 DEF Held
  <2> QED
    BY <2>2, <2>3
<1> QED
  BY <1>1, InitHeld, NextHeld, PTL DEF Spec, HeldUntilDecided

\* What has been decided on is never loaded again, whatever runs overlap.
THEOREM DecidedForGoodSafe == Spec => DecidedForGood
<1>1. IInv /\ [Next]_vars => [\A a \in Article : status[a] # "RAW" => status'[a] # "RAW"]_vars
  <2> SUFFICES ASSUME IInv, Next, NEW a \in Article, status[a] # "RAW"
               PROVE  status'[a] # "RAW"
    OBVIOUS
  <2>1. PICK w \in Worker : Step(w) \/ Abort(w)
    BY DEF Next
  <2>2. status \in [Article -> {"RAW", "SKIPPED", "REVIEW", "PROCESSED"}]
    BY DEF IInv, TypeOK
  <2>3. CASE \E b \in News : Judge(w, b)
    <3>1. PICK b \in News : Judge(w, b)
      BY <2>3
    <3>2. Decision(a) # "RAW"
      BY DEF Decision
    <3> QED
      BY <2>2, <3>1, <3>2 DEF Judge, Article
  <2>4. CASE ~ \E b \in News : Judge(w, b)
    BY <2>1, <2>2, <2>4 DEF Step, Load, KeepLink, SkipDeadLink, Classify, RouteDocument,
       Cluster, Persist, Finish, Abort
  <2> QED
    BY <2>3, <2>4
<1> QED
  BY <1>1, InitInv, NextInv, PTL DEF Spec, DecidedForGood

\* Every step of a run that does not start it brings it closer to its end.
LEMMA StepCloser ==
  ASSUME HInv, NEW w \in Worker, Step(w) \/ Abort(w)
  PROVE  Load(w) \/ Closer(task'[w], task[w])
<1>1. /\ task \in [Worker -> Task] /\ task[w] \in Task /\ Routing(task[w]) /\ Shaped(task[w])
  BY DEF HInv, GInv, IInv, TypeOK
<1>2. Phase["idle"] = 0 /\ Phase["store"] = 1 /\ Phase["route"] = 2
  BY DEF Phase
<1>3. CASE \E b \in News : KeepLink(w, b)
  BY <1>1, <1>3 DEF KeepLink, Closer, Fewer, Task
<1>4. CASE \E b \in News : SkipDeadLink(w, b)
  BY <1>1, <1>4 DEF SkipDeadLink, Closer, Fewer, Task
<1>5. CASE \E b \in News : Judge(w, b)
  BY <1>1, <1>5 DEF Judge, Closer, Fewer, Task
<1>6. CASE \E d \in Document : RouteDocument(w, d)
  BY <1>1, <1>6 DEF RouteDocument, Closer, Fewer, Task
<1>7. CASE \E u \in task[w].updates : Persist(w, u)
  BY <1>1, <1>7 DEF Persist, Closer, Fewer, Task
<1>8. CASE \E b \in News : Classify(w, b)
  BY <1>1, <1>8 DEF Classify, Closer, Fewer, Task
<1>9. CASE Cluster(w)
  <2>1. task'[w].pc = "store" /\ task[w].pc = "route"
    BY <1>1, <1>9 DEF Cluster, Routed, NoTask
  <2> QED
    BY <1>2, <2>1 DEF Closer
<1>10. CASE Finish(w) \/ Abort(w)
  <2>1. task'[w].pc = "idle" /\ task[w].pc \in {"route", "store"}
    BY <1>1, <1>10 DEF Finish, Classified, Abort, NoTask, Task
  <2> QED
    BY <1>2, <2>1 DEF Closer
<1> QED
  BY <1>3, <1>4, <1>5, <1>6, <1>7, <1>8, <1>9, <1>10 DEF Step

\* Every run comes to an end: of finitely many articles it can only hold fewer
\* and fewer.
THEOREM RunShrinksSafe == Spec => RunShrinks
<1>1. HInv /\ [Next]_vars =>
        [\E w \in Worker :
           /\ Load(w) \/ Closer(task'[w], task[w])
           /\ \A v \in Worker \ {w} : task'[v] = task[v]]_vars
  <2> SUFFICES ASSUME HInv, Next
               PROVE  \E w \in Worker :
                        /\ Load(w) \/ Closer(task'[w], task[w])
                        /\ \A v \in Worker \ {w} : task'[v] = task[v]
    OBVIOUS
  <2>1. PICK w \in Worker : Step(w) \/ Abort(w)
    BY DEF Next
  <2>2. \A v \in Worker \ {w} : task'[v] = task[v]
    BY <2>1 DEF HInv, GInv, IInv, TypeOK, Step, Load, KeepLink, SkipDeadLink, Judge,
       Classify, RouteDocument, Cluster, Persist, Finish, Abort
  <2> QED
    BY <2>1, <2>2, StepCloser
<1> QED
  BY <1>1, InitHeld, NextHeld, PTL DEF Spec, RunShrinks

\* Of some numbers one is the least.
LEMMA LeastExists ==
  ASSUME NEW T \in SUBSET Nat, T # {} PROVE \E n \in T : \A k \in T : n <= k
<1>1. PICK n \in T : \A k \in T : ~ (<<k, n>> \in OpToRel(<, Nat))
  BY NatLessThanWellFounded, WFMin
<1>2. ASSUME NEW k \in T, k < n PROVE FALSE
  <2>1. <<k, n>> \in Nat \X Nat /\ <<k, n>>[1] < <<k, n>>[2]
    BY <1>2
  <2>2. <<k, n>> \in {ss \in Nat \X Nat : ss[1] < ss[2]}
    BY <2>1
  <2> QED
    BY <1>1, <2>2 DEF OpToRel
<1> QED
  BY <1>2

\* Among some news there is one published last: one that the fewest are later
\* than.
LEMMA LatestExists ==
  ASSUME NEW T \in SUBSET News, T # {}
  PROVE  \E m \in T : \A x \in T : Published[x] <= Published[m]
<1> DEFINE later(m) == {x \in T : Published[x] > Published[m]}
           sizes == {Cardinality(later(m)) : m \in T}
<1>1. \A m \in T : later(m) \in SUBSET T /\ Cardinality(later(m)) \in Nat
  BY PartSize
<1>2. sizes \subseteq Nat /\ sizes # {}
  BY <1>1
<1>3. PICK n \in sizes : \A k \in sizes : n <= k
  <2> HIDE DEF sizes
  <2> QED
    BY <1>2, LeastExists
<1>4. PICK m \in T : n = Cardinality(later(m))
  OBVIOUS
<1>5. ASSUME NEW x \in T, Published[x] > Published[m] PROVE FALSE
  <2>1. later(x) \subseteq later(m) /\ x \in later(m) /\ x \notin later(x)
    BY <1>5, ClusterAssumption
  <2>2. IsFiniteSet(later(m))
    BY ClusterAssumption, FS_Subset
  <2>3. /\ Cardinality(later(x)) <= Cardinality(later(m))
        /\ Cardinality(later(x)) # Cardinality(later(m))
    <3> HIDE DEF later
    <3> QED
      BY <2>1, <2>2, FS_Subset
  <2>4. Cardinality(later(x)) \in sizes
    OBVIOUS
  <2> HIDE DEF sizes, later
  <2> QED
    BY <1>1, <1>3, <1>4, <2>3, <2>4
<1> QED
  BY <1>5, ClusterAssumption

\* The query of a batch has a result: among the lists of latest candidates
\* that are not too long, one that leaves out the fewest.
LEMMA ListExists == ASSUME NEW S PROVE CandidateLists(S) # {}
<1> DEFINE Q == Candidates(S)
           lists == {C \in SUBSET Q : /\ Cardinality(C) <= CandidateLimit
                                      /\ \A m \in Q \ C, x \in C : Published[x] >= Published[m]}
           sizes == {Cardinality(Q \ C) : C \in lists}
<1>1. Q \in SUBSET News /\ IsFiniteSet(Q)
  BY ClusterAssumption, FS_Subset DEF Candidates
<1> HIDE DEF Q
<1>2. {} \in lists
  BY FS_EmptySet, ClusterAssumption
<1>3. sizes \subseteq Nat /\ sizes # {}
  <2>1. \A C \in lists : Cardinality(Q \ C) \in Nat
    BY <1>1, PartSize
  <2> QED
    BY <1>2, <2>1
<1>4. PICK n \in sizes : \A k \in sizes : n <= k
  <2> HIDE DEF sizes
  <2> QED
    BY <1>3, LeastExists
<1>5. PICK C \in lists : n = Cardinality(Q \ C)
  OBVIOUS
<1>6. C \in SUBSET Q /\ IsFiniteSet(C) /\ Cardinality(C) \in Nat /\ IsFiniteSet(Q \ C)
  BY <1>1, <1>5, FS_Subset, FS_CardinalityType
<1>7. ASSUME Q \ C # {}, Cardinality(C) # CandidateLimit PROVE FALSE
  <2>1. PICK m \in Q \ C : \A x \in Q \ C : Published[x] <= Published[m]
    BY <1>1, <1>7, LatestExists
  <2>2. Cardinality(C \cup {m}) = Cardinality(C) + 1
    BY <1>6, <2>1, FS_AddElement
  <2>3. Cardinality(C \cup {m}) <= CandidateLimit
    BY <1>6, <1>7, <2>2, ClusterAssumption
  <2>4. C \cup {m} \in lists
    BY <1>1, <2>1, <2>3, ClusterAssumption
  <2>5. Q \ (C \cup {m}) = (Q \ C) \ {m}
    OBVIOUS
  <2>6. Cardinality(Q \ (C \cup {m})) = Cardinality(Q \ C) - 1
    BY <1>6, <2>1, <2>5, FS_RemoveElement
  <2>7. Cardinality(Q \ (C \cup {m})) \in sizes
    BY <2>4
  <2> HIDE DEF sizes
  <2> QED
    BY <1>3, <1>4, <1>5, <2>6, <2>7
<1>8. C \in CandidateLists(S)
  BY <1>5, <1>7 DEF CandidateLists, Q
<1> QED
  BY <1>8

\* The groups of a batch have representatives, and each can be attached to a
\* candidate or to none.
LEMMA ChoicesExist ==
  ASSUME NEW S, NEW C
  PROVE  \E best \in Representatives(KeptGroups(S), S) :
           Attachments(KeptGroups(S), best, C) # {}
<1> DEFINE groups == KeptGroups(S)
           best == [G \in groups |-> CHOOSE a \in G : TRUE]
           match == [G \in groups |-> CHOOSE m \in Joinable(best[G], C) : TRUE]
<1>1. \A G \in groups : G # {} /\ G \subseteq S
  BY GroupFacts DEF KeptGroups, Groups, Components
<1>2. best \in Representatives(groups, S)
  BY <1>1 DEF Representatives
<1>3. \A r : Joinable(r, C) # {} /\ Joinable(r, C) \subseteq C \cup {NoCluster}
  BY DEF Joinable, Matches
<1>4. \A G \in groups : match[G] \in Joinable(best[G], C)
  BY <1>3
<1>5. match \in Attachments(groups, best, C)
  <2> HIDE DEF best
  <2>1. match \in [groups -> C \cup {NoCluster}]
    BY <1>3, <1>4
  <2> HIDE DEF match
  <2> QED
    BY <1>4, <2>1 DEF Attachments
<1> QED
  BY <1>2, <1>5

\* No run is ever stuck, and RAW articles can always be loaded.
THEOREM NeverStuckSafe == Spec => []NeverStuck
<1>1. IInv => NeverStuck
  <2> SUFFICES ASSUME IInv, NEW w \in Worker, task[w].pc # "idle" \/ Loadable # {}
               PROVE  CanStep(w)
    BY DEF NeverStuck
  <2>1. task[w] \in Task
    BY DEF IInv, TypeOK
  <2>2. CASE task[w].pc = "idle"
    BY <2>2 DEF CanStep
  <2>3. CASE task[w].pc = "route"
    <3>1. PICK C \in IF Compared(task[w].relevant) THEN CandidateLists(task[w].relevant) ELSE {{}} :
            TRUE
      BY ListExists
    <3> QED
      BY <2>3, <3>1, ChoicesExist DEF CanStep, Routed
  <2>4. CASE task[w].pc = "store"
    BY <2>4 DEF CanStep, Classified
  <2> QED
    BY <2>1, <2>2, <2>3, <2>4 DEF Task
<1> QED
  BY <1>1, InitInv, NextInv, PTL DEF Spec

=============================================================================
