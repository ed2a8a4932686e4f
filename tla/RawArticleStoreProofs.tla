------------------------ MODULE RawArticleStoreProofs ------------------------
(***************************************************************************)
(* Proofs about RawArticleStore for any number of writers, sources and     *)
(* URLs, on either schema: its type invariant, that rows and links agree   *)
(* (OneInserter), that a settled run accounts for its articles             *)
(* (NothingVanishes), that the content index points to stored rows, and,   *)
(* where DedupStore remembers a whole batch, that the recorded counts are  *)
(* off by no more than what rollbacks took back (CountAccounted).          *)
(*                                                                         *)
(* None of them is inductive alone: what a commit makes durable was        *)
(* decided while the transaction was open.  IInv says what an open         *)
(* transaction holds, that two of them never hold the same new URL, and    *)
(* how far a call has got.  CountInv adds what each call has counted.      *)
(***************************************************************************)
EXTENDS RawArticleStore, FiniteSetTheorems, TLAPS

\* The points of a call: a crawl run is open.
Active == {"filter", "save", "index", "mark"}

\* Rows and links of w's open transaction.
OpenTransaction(w) ==
  /\ pc[w] # "save" => call[w].new = {} /\ call[w].links = {}
  /\ \A u \in call[w].new : rows[u] = NoRow
  /\ \A u \in Url : <<u, "inserted">> \in call[w].links => u \in call[w].new
  /\ \A u \in call[w].new : \E l \in call[w].links : l[1] = u

\* Where w's crawl runs stand.
RunState(w) ==
  /\ \A n \in 1 .. Sources : n > call[w].source => runs[<<w, n>>].status = "none"
  /\ pc[w] # "idle" => call[w].source \in 1 .. Sources
  /\ pc[w] \in Active \cup {"dead"} => runs[RunOf(w)].status = "running"
  /\ pc[w] = "raised" => runs[RunOf(w)].status = "failed"

\* Article i of w's batch is rejected, was taken back, or has its link.
Accounted(w, i, linkset) ==
  LET u == call[w].batch[i]
  IN  u \in Invalid \/ u \in lost[RunOf(w)] \/ \E l \in linkset : l[1] = u

Progress(w) ==
  /\ pc[w] = "filter" => call[w].pos = 1
  /\ pc[w] = "save" =>
       \A i \in DOMAIN call[w].batch : i < call[w].pos => Accounted(w, i, call[w].links)
  /\ \/ pc[w] \in {"index", "mark"}
     \/ pc[w] = "idle" /\ call[w].source > 0
     => \A i \in DOMAIN call[w].batch : Accounted(w, i, links[RunOf(w)])

DisjointNew ==
  \A w, o \in Writer : w # o => call[w].new \cap call[o].new = {}

Local(w) == OpenTransaction(w) /\ RunState(w) /\ Progress(w)

IInv ==
  /\ TypeOK /\ OneInserter /\ IndexHasRow /\ DisjointNew
  /\ \A w \in Writer : Local(w)

-----------------------------------------------------------------------------
(* Facts about the data *)

\* A rollback empties the transaction and keeps the rest of the call.
LEMMA RolledBackFacts ==
  ASSUME NEW c \in Call
  PROVE  /\ RolledBack(c) \in Call
         /\ RolledBack(c).new = {} /\ RolledBack(c).links = {}
         /\ RolledBack(c).source = c.source /\ RolledBack(c).batch = c.batch
         /\ RolledBack(c).pos = c.pos /\ RolledBack(c).inserted = c.inserted
BY DEF RolledBack, Call

\* A dropped transaction, and what else the handler leaves.
LEMMA DroppedFacts ==
  ASSUME NEW c \in Call, NEW counted \in {0, 1}
  PROVE  /\ Dropped(c, counted) \in Call
         /\ Dropped(c, counted).new = {} /\ Dropped(c, counted).links = {}
         /\ Dropped(c, counted).source = c.source /\ Dropped(c, counted).batch = c.batch
         /\ Dropped(c, counted).pos = c.pos + 1
<1>1. c.pos + 1 \in Nat \ {0} /\ c.inserted + counted \in Nat
  BY DEF Call
<1>2. Dropped(c, counted) \in Call
  BY <1>1, RolledBackFacts DEF Call, Dropped
<1> QED
  BY <1>2, RolledBackFacts DEF Dropped, Call

\* A stored article, and what else the call keeps.
LEMMA SavedFacts ==
  ASSUME NEW c \in Call, NEW u \in Url, NEW isNew \in BOOLEAN
  PROVE  /\ Saved(c, u, isNew) \in Call
         /\ Saved(c, u, isNew).source = c.source /\ Saved(c, u, isNew).batch = c.batch
         /\ Saved(c, u, isNew).pos = c.pos + 1
         /\ isNew => /\ Saved(c, u, isNew).new = c.new \cup {u}
                     /\ Saved(c, u, isNew).links =
                          {l \in c.links : l[1] # u} \cup {<<u, "inserted">>}
         /\ ~isNew => /\ Saved(c, u, isNew).new = c.new
                      /\ Saved(c, u, isNew).links =
                           {l \in c.links : l[1] # u} \cup {<<u, "duplicate">>}
<1>1. /\ c.pos + 1 \in Nat \ {0} /\ c.inserted + 1 \in Nat
      /\ c.ids \cup {u} \subseteq Url /\ c.new \cup {u} \subseteq Url
      /\ c.locked \cup {u} \subseteq Url
  BY DEF Call
<1>2. ASSUME NEW action \in {"inserted", "duplicate"}
      PROVE  {l \in c.links : l[1] # u} \cup {<<u, action>>}
               \subseteq Url \X {"inserted", "duplicate"}
  BY DEF Call
<1>3. Saved(c, u, isNew) \in Call
  BY <1>1, <1>2 DEF Call, Saved
<1> QED
  BY <1>3 DEF Saved, Call

\* The store of seen URLs stays within its size.
LEMMA MarkSeenType ==
  ASSUME NEW m \in Seq(Url), Len(m) <= DedupSize, NEW u \in Url
  PROVE  MarkSeen(m, u) \in Seq(Url) /\ Len(MarkSeen(m, u)) <= DedupSize
<1> DEFINE n == Append(m, u)
<1>1. n \in Seq(Url) /\ Len(n) = Len(m) + 1
  OBVIOUS
<1>2. n # <<>> /\ Tail(n) \in Seq(Url) /\ Len(Tail(n)) = Len(m)
  BY <1>1
<1> QED
  BY <1>1, <1>2, StoreAssumption DEF MarkSeen

\* The article a writer saves is one of its batch.
LEMMA CurrentFacts ==
  ASSUME TypeOK, NEW w \in Writer, Saving(w)
  PROVE  /\ Current(w) \in Url
         /\ call[w].pos \in DOMAIN call[w].batch
         /\ Current(w) = call[w].batch[call[w].pos]
<1>1. call[w].batch \in Seq(Url) /\ call[w].pos \in Nat \ {0}
  BY DEF TypeOK, Call, Batch
<1> QED
  BY <1>1 DEF Saving, Current

\* While a call is open its run is one of the runs.
LEMMA RunOfFacts ==
  ASSUME TypeOK, NEW w \in Writer, RunState(w), pc[w] # "idle"
  PROVE  RunOf(w) \in Run
BY DEF TypeOK, RunState, RunOf, Run

\* The call of a source that has just been opened.
LEMMA NewCallFacts ==
  ASSUME NEW n \in 0 .. Sources, NEW found \in Found
  PROVE  /\ NewCall(n, found) \in Call
         /\ NewCall(n, found).source = n /\ NewCall(n, found).pos = 1
         /\ NewCall(n, found).new = {} /\ NewCall(n, found).links = {}
         /\ NewCall(n, found).batch = <<>>
<1>1. <<>> \in Batch /\ found \in Batch
  BY StoreAssumption DEF Batch
<1>2. NoCall \in Call
  BY <1>1, StoreAssumption DEF Call, NoCall
<1>3. NewCall(n, found) \in Call
  BY <1>1, <1>2 DEF Call, NewCall
<1> QED
  BY <1>3 DEF NoCall, NewCall

-----------------------------------------------------------------------------
(* Type correctness *)

\* The initial state has the types.
LEMMA InitType == Init => TypeOK
<1>1. <<>> \in Batch
  BY DEF Batch
<1>2. NoCall \in Call
  BY <1>1, StoreAssumption DEF NoCall, Call
<1>3. ASSUME Init PROVE seen \in [Writer -> Seq(Url)] /\ \A w \in Writer : Len(seen[w]) <= DedupSize
  <2>1. <<>> \in Seq(Url) /\ Len(<<>>) = 0
    OBVIOUS
  <2> QED
    BY <1>3, <2>1, StoreAssumption DEF Init
<1>4. ASSUME Init PROVE runs \in [Run -> RunRow]
  BY <1>4 DEF Init, RunRow
<1> QED
  BY <1>2, <1>3, <1>4, StoreAssumption DEF Init, TypeOK

\* A step keeps them, where the open runs are the writers' own.
LEMMA TypeStep ==
  ASSUME TypeOK, \A w \in Writer : RunState(w), [Next]_vars
  PROVE  TypeOK'
<1>1. CASE UNCHANGED vars
  BY <1>1 DEF vars, TypeOK
<1>2. SUFFICES ASSUME NEW w \in Writer,
                      Step(w) \/ FailArticle(w) \/ CommitFails(w) \/ Crash(w)
               PROVE  TypeOK'
  BY <1>1 DEF Next
<1>3. call[w] \in Call /\ RolledBack(call[w]) \in Call
  BY RolledBackFacts DEF TypeOK
<1>4. CASE StartSource(w)
  <2>1. PICK found \in Found : call' = [call EXCEPT ![w] = NewCall(call[w].source + 1, found)]
    BY <1>4 DEF StartSource
  <2>2. call[w].source + 1 \in 1 .. Sources /\ call[w].source + 1 \in 0 .. Sources
    BY <1>3, <1>4, StoreAssumption DEF StartSource, Call
  <2>3. call' \in [Writer -> Call]
    BY <2>1, <2>2, NewCallFacts DEF TypeOK
  <2>4. runs' \in [Run -> RunRow]
    <3>1. ASSUME NEW r \in Run PROVE [runs[r] EXCEPT !.status = "running"] \in RunRow
      BY DEF TypeOK, RunRow
    <3> QED
      BY <1>4, <2>2, <3>1 DEF StartSource, TypeOK
  <2> QED
    BY <1>4, <2>3, <2>4 DEF StartSource, TypeOK
<1>5. CASE FilterArticle(w)
  <2> DEFINE u == Head(call[w].found)
  <2>1. u \in Url /\ Tail(call[w].found) \in Batch /\ Append(call[w].batch, u) \in Batch
    <3>1. call[w].found \in Batch /\ call[w].batch \in Batch
      BY <1>3 DEF Call
    <3>2. call[w].found # <<>>
      BY <1>5 DEF FilterArticle
    <3> QED
      BY <3>1, <3>2 DEF Batch
  <2>2. call' \in [Writer -> Call]
    <3>1. [call[w] EXCEPT !.found = Tail(@)] \in Call
      BY <1>3, <2>1 DEF Call
    <3>2. [call[w] EXCEPT !.found = Tail(call[w].found),
                          !.batch = Append(call[w].batch, u)] \in Call
      BY <1>3, <2>1 DEF Call
    <3>3. CASE call' = [call EXCEPT ![w].found = Tail(@)]
      BY <3>1, <3>3 DEF TypeOK
    <3>4. CASE call' = [call EXCEPT ![w].found = Tail(@), ![w].batch = Append(@, u)]
      <4>1. call' = [call EXCEPT ![w] = [call[w] EXCEPT !.found = Tail(call[w].found),
                                                        !.batch = Append(call[w].batch, u)]]
        BY <3>4 DEF TypeOK
      <4> QED
        BY <3>2, <4>1 DEF TypeOK
    <3> QED
      BY <1>5, <3>3, <3>4 DEF FilterArticle
  <2>3. seen' \in [Writer -> Seq(Url)] /\ \A x \in Writer : Len(seen'[x]) <= DedupSize
    <3>1. MarkSeen(seen[w], u) \in Seq(Url) /\ Len(MarkSeen(seen[w], u)) <= DedupSize
      BY <2>1, MarkSeenType DEF TypeOK
    <3> QED
      BY <1>5, <3>1 DEF FilterArticle, TypeOK
  <2> QED
    BY <1>5, <2>2, <2>3 DEF FilterArticle, TypeOK
<1>6. CASE StartSave(w)
  BY <1>6 DEF StartSave, TypeOK
<1>7. CASE SkipInvalid(w)
  <2>1. [call[w] EXCEPT !.pos = @ + 1] \in Call
    BY <1>3 DEF Call
  <2> QED
    BY <1>7, <2>1 DEF SkipInvalid, TypeOK
<1>8. CASE LegacyFallback(w)
  <2>1. [RolledBack(call[w]) EXCEPT !.fallback = TRUE] \in Call
    BY <1>3 DEF Call
  <2>2. {l[1] : l \in call[w].links} \subseteq Url
    BY <1>3 DEF Call
  <2> QED
    BY <1>8, <2>1, <2>2 DEF LegacyFallback, TypeOK
<1>9. CASE SaveArticle(w)
  <2>1. Saved(call[w], Current(w), IsNew(w)) \in Call
    BY <1>3, <1>9, CurrentFacts, SavedFacts DEF SaveArticle, IsNew
  <2>2. call' \in [Writer -> Call]
    BY <1>9, <2>1 DEF SaveArticle, TypeOK
  <2> QED
    BY <1>9, <2>2 DEF SaveArticle, TypeOK
<1>10. ASSUME Saving(w), NEW counted \in {0, 1}, DropTransaction(w, counted)
       PROVE  call' \in [Writer -> Call] /\ lost' \in [Run -> SUBSET Url]
  <2>1. Dropped(call[w], counted) \in Call
    BY <1>3, DroppedFacts
  <2>2. {l[1] : l \in call[w].links} \subseteq Url
    BY <1>3 DEF Call
  <2> QED
    BY <1>10, <2>1, <2>2, CurrentFacts DEF DropTransaction, TypeOK
<1>11. CASE DeadlockVictim(w)
  <2>1. Saving(w)
    BY <1>11 DEF DeadlockVictim, InCycle, WaitsFor
  <2> QED
    BY <1>10, <1>11, <2>1 DEF DeadlockVictim, TypeOK
<1>12. CASE FailArticle(w)
  <2>1. failures' \in 0 .. MaxFailures
    BY <1>12, StoreAssumption DEF FailArticle, TypeOK
  <2> QED
    BY <1>10, <1>12, <2>1 DEF FailArticle, TypeOK
<1>13. ASSUME AtEnd(w), Durable(w)
       PROVE  /\ rows' \in [Url -> Run \cup {NoRow}]
              /\ links' \in [Run -> SUBSET (Url \X {"inserted", "duplicate"})]
  <2>1. RunOf(w) \in Run
    BY <1>13, RunOfFacts DEF AtEnd
  <2> QED
    BY <1>3, <1>13, <2>1 DEF Durable, TypeOK, Call
<1>14. CASE Commit(w)
  BY <1>3, <1>13, <1>14 DEF Commit, TypeOK
<1>15. CASE CommitFails(w)
  <2>1. failures' \in 0 .. MaxFailures
    BY <1>15, StoreAssumption DEF CommitFails, TypeOK
  <2>2. runs' \in [Run -> RunRow]
    <3>1. ASSUME NEW r \in Run PROVE [runs[r] EXCEPT !.status = "failed"] \in RunRow
      BY DEF TypeOK, RunRow
    <3> QED
      BY <1>15, <3>1 DEF CommitFails, TypeOK
  <2> QED
    BY <1>3, <1>13, <1>15, <2>1, <2>2 DEF CommitFails, TypeOK
<1>16. CASE IndexRows(w)
  BY <1>3, <1>16 DEF IndexRows, TypeOK, Call
<1>17. CASE MarkSuccess(w)
  <2>1. [status |-> "success", inserted |-> call[w].inserted,
         skipped |-> Len(call[w].batch) - call[w].inserted] \in RunRow
    <3>1. Len(call[w].batch) \in Nat /\ call[w].inserted \in Nat
      BY <1>3 DEF Call, Batch
    <3> QED
      BY <3>1 DEF RunRow
  <2> QED
    BY <1>17, <2>1 DEF MarkSuccess, TypeOK
<1>18. CASE Crash(w)
  BY <1>3, <1>18, StoreAssumption DEF Crash, TypeOK
<1> QED
  BY <1>2, <1>4, <1>5, <1>6, <1>7, <1>8, <1>9, <1>11, <1>12, <1>14, <1>15, <1>16,
     <1>17, <1>18 DEF Step

-----------------------------------------------------------------------------
(* The invariant *)

\* What a step leaves of a writer it is not of.
Framed(o) ==
  /\ call'[o] = call[o] /\ pc'[o] = pc[o]
  /\ \A u \in call[o].new : rows'[u] = rows[u]
  /\ \A n \in 1 .. Sources :
       /\ runs'[<<o, n>>] = runs[<<o, n>>]
       /\ links'[<<o, n>>] = links[<<o, n>>]
       /\ lost'[<<o, n>>] = lost[<<o, n>>]

\* A writer's part of the invariant survives the steps of the others.
LEMMA FramePreserves ==
  ASSUME TypeOK, NEW o \in Writer, Local(o), Framed(o)
  PROVE  Local(o)'
<1>1. call[o] \in Call /\ call[o].new \subseteq Url
  BY DEF TypeOK, Call
<1>2. OpenTransaction(o)'
  BY <1>1 DEF Local, Framed, OpenTransaction
<1>3. ASSUME call[o].source \in 1 .. Sources
      PROVE  /\ runs'[RunOf(o)'] = runs[RunOf(o)]
             /\ links'[RunOf(o)'] = links[RunOf(o)]
             /\ lost'[RunOf(o)'] = lost[RunOf(o)]
  BY <1>3 DEF Framed, RunOf
<1>4. RunState(o)'
  BY <1>3 DEF Local, RunState, Framed, Active
<1>5. ASSUME call[o].source \in 1 .. Sources, NEW i, NEW S, Accounted(o, i, S)
      PROVE  Accounted(o, i, S)'
  BY <1>3, <1>5 DEF Accounted, Framed
<1>6. pc[o] \in {"save", "index", "mark"} \/ (pc[o] = "idle" /\ call[o].source > 0)
        => call[o].source \in 1 .. Sources
  BY <1>1 DEF Local, RunState, Call
<1>7. Progress(o)'
  BY <1>3, <1>5, <1>6 DEF Local, Progress, Framed, Accounted
<1> QED
  BY <1>2, <1>4, <1>7 DEF Local

\* The runs of another writer are other runs.
LEMMA OtherRuns ==
  ASSUME NEW w \in Writer, NEW o \in Writer, w # o, NEW n, NEW m
  PROVE  <<w, n>> # <<o, m>>
OBVIOUS

\* The initial state satisfies it.
LEMMA InitInv == Init => IInv
<1> SUFFICES ASSUME Init PROVE IInv
  OBVIOUS
<1>1. TypeOK
  BY InitType
<1>2. OneInserter /\ IndexHasRow /\ DisjointNew
  BY StoreAssumption DEF Init, OneInserter, IndexHasRow, DisjointNew, NoCall, Run
<1>3. ASSUME NEW w \in Writer PROVE Local(w)
  BY <1>1, StoreAssumption DEF Init, Local, OpenTransaction, RunState, Progress, Active,
     NoCall, Run
<1> QED
  BY <1>1, <1>2, <1>3 DEF IInv

\* What a step of w has to establish besides the types.
Kept(w) ==
  /\ OneInserter' /\ IndexHasRow' /\ DisjointNew' /\ Local(w)'
  /\ \A o \in Writer : o # w => Framed(o)

\* The steps that leave the tables and the open transaction alone.
LEMMA QuietSteps ==
  ASSUME IInv, NEW w \in Writer,
         StartSource(w) \/ FilterArticle(w) \/ StartSave(w) \/ SkipInvalid(w) \/ MarkSuccess(w)
  PROVE  Kept(w)
<1> USE DEF IInv
<1>1. call[w] \in Call /\ Local(w) /\ RunState(w) /\ OpenTransaction(w) /\ Progress(w)
  BY DEF TypeOK, Local
<1>2. CASE StartSource(w)
  <2>1. PICK found \in Found : call' = [call EXCEPT ![w] = NewCall(call[w].source + 1, found)]
    BY <1>2 DEF StartSource
  <2> DEFINE n == call[w].source + 1
  <2>2. n \in 1 .. Sources /\ n \in 0 .. Sources /\ <<w, n>> \in Run
    BY <1>1, <1>2, StoreAssumption DEF StartSource, Call, Run
  <2>3. /\ call'[w].source = n /\ call'[w].pos = 1
        /\ call'[w].new = {} /\ call'[w].links = {} /\ call'[w].batch = <<>>
    BY <2>1, <2>2, NewCallFacts DEF TypeOK
  <2>4. OneInserter' /\ IndexHasRow'
    BY <1>2 DEF StartSource, OneInserter, IndexHasRow
  <2>5. DisjointNew'
    BY <2>1, <2>3 DEF DisjointNew, TypeOK
  <2>6. pc'[w] = "filter"
    BY <1>2 DEF StartSource, TypeOK
  <2>7. OpenTransaction(w)'
    BY <2>3, <2>6 DEF OpenTransaction
  <2>8. runs' = [runs EXCEPT ![<<w, n>>].status = "running"] /\ runs \in [Run -> RunRow]
    BY <1>2 DEF StartSource, TypeOK
  <2>9. RunState(w)'
    <3>1. \A m \in 1 .. Sources : m > n => <<w, m>> \in Run /\ <<w, m>> # <<w, n>>
      BY <2>2 DEF Run
    <3>2. \A m \in 1 .. Sources : m > n => runs'[<<w, m>>].status = "none"
      BY <1>1, <2>2, <2>8, <3>1 DEF RunState, Call
    <3>3. runs'[<<w, n>>].status = "running"
      BY <2>2, <2>8 DEF RunRow
    <3> QED
      BY <2>2, <2>3, <2>6, <3>2, <3>3 DEF RunState, RunOf, Active
  <2>10. Progress(w)'
    BY <2>3, <2>6 DEF Progress
  <2>11. ASSUME NEW o \in Writer, o # w PROVE Framed(o)
    <3>1. \A m \in 1 .. Sources : runs'[<<o, m>>] = runs[<<o, m>>]
      BY <2>2, <2>8, <2>11 DEF Run
    <3> QED
      BY <1>2, <2>1, <2>11, <3>1 DEF StartSource, Framed, TypeOK
  <2> QED
    BY <2>4, <2>5, <2>7, <2>9, <2>10, <2>11 DEF Kept, Local
<1>3. CASE FilterArticle(w)
  <2>1. /\ call'[w].source = call[w].source /\ call'[w].pos = call[w].pos
        /\ call'[w].new = call[w].new /\ call'[w].links = call[w].links
        /\ \A o \in Writer : o # w => call'[o] = call[o]
    BY <1>1, <1>3 DEF FilterArticle, TypeOK, Call
  <2>2. OneInserter' /\ IndexHasRow' /\ DisjointNew'
    BY <1>3, <2>1 DEF FilterArticle, OneInserter, IndexHasRow, DisjointNew
  <2>3. Local(w)'
    BY <1>1, <1>3, <2>1 DEF FilterArticle, Local, OpenTransaction, RunState, Progress, RunOf
  <2>4. \A o \in Writer : o # w => Framed(o)
    BY <1>3, <2>1 DEF FilterArticle, Framed
  <2> QED
    BY <2>2, <2>3, <2>4 DEF Kept
<1>4. CASE StartSave(w)
  <2>1. OneInserter' /\ IndexHasRow' /\ DisjointNew'
    BY <1>4 DEF StartSave, OneInserter, IndexHasRow, DisjointNew
  <2>2. pc'[w] = IF call[w].batch = <<>> THEN "mark" ELSE "save"
    BY <1>4 DEF StartSave, TypeOK
  <2>3. OpenTransaction(w)' /\ RunState(w)'
    BY <1>1, <1>4, <2>2 DEF StartSave, OpenTransaction, RunState, RunOf, Active
  <2>4. Progress(w)'
    <3>1. call[w].pos = 1 /\ call' = call
      BY <1>1, <1>4 DEF StartSave, Progress
    <3>2. \A i \in DOMAIN call[w].batch : ~(i < 1)
      BY <1>1 DEF Call, Batch
    <3>3. CASE call[w].batch = <<>>
      BY <2>2, <3>1, <3>3 DEF Progress
    <3>4. CASE call[w].batch # <<>>
      BY <2>2, <3>1, <3>2, <3>4 DEF Progress
    <3> QED
      BY <3>3, <3>4
  <2>5. \A o \in Writer : o # w => Framed(o)
    BY <1>4 DEF StartSave, Framed, TypeOK
  <2> QED
    BY <2>1, <2>3, <2>4, <2>5 DEF Kept, Local
<1>5. CASE SkipInvalid(w)
  <2>1. /\ call'[w].source = call[w].source /\ call'[w].pos = call[w].pos + 1
        /\ call'[w].batch = call[w].batch
        /\ call'[w].new = call[w].new /\ call'[w].links = call[w].links
        /\ \A o \in Writer : o # w => call'[o] = call[o]
    BY <1>1, <1>5 DEF SkipInvalid, TypeOK, Call
  <2>2. OneInserter' /\ IndexHasRow' /\ DisjointNew'
    BY <1>5, <2>1 DEF SkipInvalid, OneInserter, IndexHasRow, DisjointNew
  <2>3. OpenTransaction(w)' /\ RunState(w)'
    BY <1>1, <1>5, <2>1 DEF SkipInvalid, OpenTransaction, RunState, RunOf
  <2>4. Progress(w)'
    <3>1. Saving(w) /\ Current(w) \in Invalid /\ pc' = pc /\ lost' = lost
      BY <1>5 DEF SkipInvalid
    <3>2. Accounted(w, call[w].pos, call[w].links)
      BY <3>1 DEF Accounted, Current
    <3>3. \A i \in DOMAIN call[w].batch : i < call[w].pos + 1 => i < call[w].pos \/ i = call[w].pos
      BY <1>1 DEF Call, Batch
    <3>4. pc[w] = "save"
      BY <3>1 DEF Saving
    <3>5. \A i \in DOMAIN call[w].batch :
            i < call[w].pos + 1 => Accounted(w, i, call[w].links)
      BY <1>1, <3>2, <3>3, <3>4 DEF Progress
    <3> QED
      BY <2>1, <3>1, <3>4, <3>5 DEF Progress, Accounted, RunOf
  <2>5. \A o \in Writer : o # w => Framed(o)
    BY <1>5, <2>1 DEF SkipInvalid, Framed
  <2> QED
    BY <2>2, <2>3, <2>4, <2>5 DEF Kept, Local
<1>6. CASE MarkSuccess(w)
  <2>1. OneInserter' /\ IndexHasRow' /\ DisjointNew'
    BY <1>6 DEF MarkSuccess, OneInserter, IndexHasRow, DisjointNew
  <2>2. pc'[w] = "idle" /\ pc[w] = "mark" /\ call' = call
    BY <1>6 DEF MarkSuccess, TypeOK
  <2>3. call[w].source \in 1 .. Sources /\ RunOf(w) \in Run
    BY <1>1, <2>2, RunOfFacts DEF RunState
  <2>4. RunState(w)'
    <3>1. \A m \in 1 .. Sources : m > call[w].source => <<w, m>> # RunOf(w) /\ <<w, m>> \in Run
      BY <2>3 DEF RunOf, Run
    <3> QED
      BY <1>1, <1>6, <2>2, <3>1 DEF MarkSuccess, RunState, Active, TypeOK
  <2>5. OpenTransaction(w)' /\ Progress(w)'
    BY <1>1, <1>6, <2>2 DEF MarkSuccess, OpenTransaction, Progress, Accounted, RunOf
  <2>6. ASSUME NEW o \in Writer, o # w PROVE Framed(o)
    <3>1. \A m \in 1 .. Sources : <<o, m>> # RunOf(w) /\ <<o, m>> \in Run
      BY <2>6 DEF RunOf, Run
    <3> QED
      BY <1>6, <2>6, <3>1 DEF MarkSuccess, Framed, TypeOK
  <2> QED
    BY <2>1, <2>4, <2>5, <2>6 DEF Kept, Local
<1> QED
  BY <1>2, <1>3, <1>4, <1>5, <1>6

\* A stored article: the new row is nobody else's, its link goes with it.
LEMMA SaveStep ==
  ASSUME IInv, NEW w \in Writer, SaveArticle(w)
  PROVE  Kept(w)
<1> USE DEF IInv
<1>1. call[w] \in Call /\ RunState(w) /\ OpenTransaction(w) /\ Progress(w)
  BY DEF TypeOK, Local
<1>2. PICK u \in Url : u = Current(w)
  BY CurrentFacts DEF SaveArticle
<1>3. /\ Saving(w) /\ pc[w] = "save" /\ u \notin Invalid /\ ~Blocked(w)
      /\ legacy = call[w].fallback /\ u = call[w].batch[call[w].pos]
      /\ call[w].pos \in DOMAIN call[w].batch
  BY <1>2, CurrentFacts DEF SaveArticle, Saving
<1>4. PICK isNew \in BOOLEAN : isNew = IsNew(w)
  BY DEF IsNew
<1>5. PICK c : c = Saved(call[w], u, isNew)
  OBVIOUS
<1>a. /\ c.source = call[w].source /\ c.batch = call[w].batch /\ c.pos = call[w].pos + 1
      /\ isNew => /\ c.new = call[w].new \cup {u}
                  /\ c.links = {l \in call[w].links : l[1] # u} \cup {<<u, "inserted">>}
      /\ ~isNew => /\ c.new = call[w].new
                   /\ c.links = {l \in call[w].links : l[1] # u} \cup {<<u, "duplicate">>}
  BY <1>1, <1>5, SavedFacts
<1>b. call' = [call EXCEPT ![w] = c]
  BY <1>2, <1>4, <1>5 DEF SaveArticle
<1>6. call'[w] = c /\ \A o \in Writer : o # w => call'[o] = call[o]
  BY <1>b DEF TypeOK
<1>7. rows' = rows /\ links' = links /\ runs' = runs /\ pc' = pc /\ lost' = lost /\ vdb' = vdb
  BY DEF SaveArticle
<1>8. OneInserter' /\ IndexHasRow'
  BY <1>7 DEF OneInserter, IndexHasRow
<1>9. DisjointNew'
  <2>1. \A o \in Writer : o # w => u \notin call[o].new
    BY <1>2, <1>3 DEF Blocked, WaitsFor
  <2>2. c.new \subseteq call[w].new \cup {u}
    BY <1>a
  <2> QED
    BY <1>6, <2>1, <2>2 DEF DisjointNew
<1>10. OpenTransaction(w)'
  <2>1. \A v \in c.new : rows[v] = NoRow
    BY <1>1, <1>2, <1>4, <1>a DEF OpenTransaction, IsNew
  <2>2. \A v \in Url : <<v, "inserted">> \in c.links => v \in c.new
    <3>1. CASE isNew
      BY <1>1, <1>a, <3>1 DEF OpenTransaction
    <3>2. CASE ~isNew
      BY <1>1, <1>a, <3>2 DEF OpenTransaction
    <3> QED
      BY <3>1, <3>2
  <2>3. \A v \in call[w].new \cup {u} : \E l \in c.links : l[1] = v
    <3>1. PICK a : <<u, a>> \in c.links
      BY <1>a
    <3>2. <<u, a>>[1] = u
      OBVIOUS
    <3>3. ASSUME NEW v \in call[w].new, v # u PROVE \E l \in c.links : l[1] = v
      <4>1. PICK l \in call[w].links : l[1] = v
        BY <1>1 DEF OpenTransaction
      <4> QED
        BY <1>a, <3>3, <4>1
    <3> QED
      BY <3>1, <3>2, <3>3
  <2>4. c.new \subseteq call[w].new \cup {u}
    BY <1>a
  <2> QED
    BY <1>3, <1>6, <1>7, <2>1, <2>2, <2>3, <2>4 DEF OpenTransaction
<1>11. RunState(w)'
  BY <1>1, <1>a, <1>6, <1>7 DEF RunState, RunOf
<1>12. Progress(w)'
  <2>1. ASSUME NEW i \in DOMAIN c.batch, i < c.pos
        PROVE  \/ c.batch[i] \in Invalid \/ c.batch[i] \in lost[RunOf(w)]
               \/ \E l \in c.links : l[1] = c.batch[i]
    <3>1. i < call[w].pos \/ i = call[w].pos
      <4>1. call[w].pos \in Nat /\ call[w].batch \in Seq(Url)
        BY <1>1 DEF Call, Batch
      <4>2. i \in 1 .. Len(call[w].batch) /\ i < call[w].pos + 1
        BY <1>a, <2>1, <4>1
      <4> QED
        BY <4>1, <4>2
    <3>2. CASE c.batch[i] = u
      <4>1. PICK a : <<u, a>> \in c.links
        BY <1>a
      <4>2. <<u, a>>[1] = u
        OBVIOUS
      <4> QED
        BY <3>2, <4>1, <4>2
    <3>3. CASE c.batch[i] # u
      <4>1. Accounted(w, i, call[w].links)
        BY <1>1, <1>3, <1>a, <2>1, <3>1, <3>3 DEF Progress
      <4>2. \A l \in call[w].links : l[1] # u => l \in c.links
        BY <1>a
      <4> QED
        BY <1>a, <3>3, <4>1, <4>2 DEF Accounted
    <3> QED
      BY <3>2, <3>3
  <2>2. RunOf(w)' = RunOf(w)
    BY <1>a, <1>6 DEF RunOf
  <2> QED
    BY <1>3, <1>6, <1>7, <2>1, <2>2 DEF Progress, Accounted
<1>13. \A o \in Writer : o # w => Framed(o)
  BY <1>6, <1>7 DEF Framed
<1> QED
  BY <1>8, <1>9, <1>10, <1>11, <1>12, <1>13 DEF Kept, Local

\* A rollback while the call goes on: what was in the transaction counts as
\* lost from here on.
LEMMA RollbackStep ==
  ASSUME IInv, NEW w \in Writer, Saving(w), NEW c \in Call, NEW back,
         c.new = {}, c.links = {}, c.source = call[w].source, c.batch = call[w].batch,
         c.pos \in {call[w].pos, call[w].pos + 1},
         c.pos = call[w].pos + 1 => Current(w) \in back,
         \A l \in call[w].links : l[1] \in back,
         call' = [call EXCEPT ![w] = c],
         lost' = [lost EXCEPT ![RunOf(w)] = @ \cup back],
         UNCHANGED <<rows, links, runs, vdb, pc>>
  PROVE  Kept(w)
<1> USE DEF IInv
<1>1. call[w] \in Call /\ RunState(w) /\ OpenTransaction(w) /\ Progress(w) /\ pc[w] = "save"
  BY DEF TypeOK, Local, Saving
<1>2. call'[w] = c /\ \A o \in Writer : o # w => call'[o] = call[o]
  BY DEF TypeOK
<1>3. OneInserter' /\ IndexHasRow'
  BY DEF OneInserter, IndexHasRow
<1>4. DisjointNew'
  BY <1>2 DEF DisjointNew
<1>5. OpenTransaction(w)' /\ RunState(w)'
  BY <1>1, <1>2 DEF OpenTransaction, RunState, RunOf
<1>6. RunOf(w) \in Run /\ RunOf(w)' = RunOf(w)
  BY <1>1, <1>2, RunOfFacts DEF RunOf
<1>7. lost'[RunOf(w)] = lost[RunOf(w)] \cup back
  BY <1>6 DEF TypeOK
<1>8. Progress(w)'
  <2>1. ASSUME NEW i \in DOMAIN c.batch, i < c.pos
        PROVE  c.batch[i] \in Invalid \/ c.batch[i] \in lost'[RunOf(w)]
    <3>1. i < call[w].pos \/ (i = call[w].pos /\ c.pos = call[w].pos + 1)
      BY <1>1, <2>1 DEF Call, Batch
    <3>2. CASE i < call[w].pos
      <4>1. Accounted(w, i, call[w].links)
        BY <1>1, <2>1, <3>2 DEF Progress
      <4> QED
        BY <1>7, <4>1 DEF Accounted
    <3>3. CASE i = call[w].pos /\ c.pos = call[w].pos + 1
      BY <1>7, <3>3 DEF Current
    <3> QED
      BY <3>1, <3>2, <3>3
  <2> QED
    BY <1>1, <1>2, <1>6, <2>1 DEF Progress, Accounted
<1>9. ASSUME NEW o \in Writer, o # w PROVE Framed(o)
  <2>1. \A m \in 1 .. Sources : <<o, m>> # RunOf(w) /\ <<o, m>> \in Run
    BY <1>9 DEF RunOf, Run
  <2> QED
    BY <1>2, <1>9, <2>1 DEF Framed, TypeOK
<1> QED
  BY <1>3, <1>4, <1>5, <1>8, <1>9 DEF Kept, Local

\* The steps that take a transaction back and go on with the next article.
LEMMA DropSteps ==
  ASSUME IInv, NEW w \in Writer,
         LegacyFallback(w) \/ DeadlockVictim(w) \/ FailArticle(w)
  PROVE  Kept(w)
<1>1. call[w] \in Call
  BY DEF IInv, TypeOK
<1>2. CASE LegacyFallback(w)
  <2> DEFINE c == [RolledBack(call[w]) EXCEPT !.fallback = TRUE]
             back == {l[1] : l \in call[w].links}
  <2>1. /\ c \in Call /\ c.new = {} /\ c.links = {} /\ c.source = call[w].source
        /\ c.batch = call[w].batch /\ c.pos = call[w].pos
    BY <1>1, RolledBackFacts DEF Call
  <2>2. /\ Saving(w) /\ call' = [call EXCEPT ![w] = c]
        /\ lost' = [lost EXCEPT ![RunOf(w)] = @ \cup back]
        /\ UNCHANGED <<rows, links, runs, vdb, pc>>
    BY <1>2 DEF LegacyFallback
  <2>3. c.pos # call[w].pos + 1
    BY <1>1, <2>1 DEF Call
  <2>4. \A l \in call[w].links : l[1] \in back
    OBVIOUS
  <2> HIDE DEF c, back
  <2> QED
    BY <2>1, <2>2, <2>3, <2>4, RollbackStep
<1>3. ASSUME Saving(w), NEW counted \in {0, 1}, DropTransaction(w, counted),
             UNCHANGED <<rows, links, runs, vdb, pc>>
      PROVE  Kept(w)
  <2> DEFINE back == {Current(w)} \cup {l[1] : l \in call[w].links}
  <2>1. PICK c : c = Dropped(call[w], counted)
    OBVIOUS
  <2>2. /\ c \in Call /\ c.new = {} /\ c.links = {} /\ c.source = call[w].source
        /\ c.batch = call[w].batch /\ c.pos = call[w].pos + 1
    BY <1>1, <2>1, DroppedFacts
  <2>3. call' = [call EXCEPT ![w] = c]
    BY <1>3, <2>1 DEF DropTransaction
  <2>4. lost' = [lost EXCEPT ![RunOf(w)] = @ \cup back]
    BY <1>3 DEF DropTransaction
  <2>5. Current(w) \in back /\ \A l \in call[w].links : l[1] \in back
    OBVIOUS
  <2> HIDE DEF back
  <2> QED
    BY <1>3, <2>2, <2>3, <2>4, <2>5, RollbackStep
<1>4. CASE DeadlockVictim(w)
  <2>1. Saving(w)
    BY <1>4 DEF DeadlockVictim, InCycle, WaitsFor
  <2> QED
    BY <1>3, <1>4, <2>1 DEF DeadlockVictim
<1>5. CASE FailArticle(w)
  BY <1>3, <1>5 DEF FailArticle
<1> QED
  BY <1>2, <1>4, <1>5

\* What a commit makes durable agrees with itself and with what was there.
LEMMA DurableFacts ==
  ASSUME IInv, NEW w \in Writer, AtEnd(w), Durable(w)
  PROVE  /\ OneInserter'
         /\ \A u \in Url : rows[u] # NoRow => rows'[u] = rows[u]
         /\ \A o \in Writer : o # w => \A u \in call[o].new : rows'[u] = rows[u]
         /\ links'[RunOf(w)] = links[RunOf(w)] \cup call[w].links
         /\ \A r \in Run : r # RunOf(w) => links'[r] = links[r]
<1> USE DEF IInv
<1>1. OpenTransaction(w) /\ RunOf(w) \in Run /\ call[w] \in Call
  BY RunOfFacts DEF AtEnd, Local, TypeOK
<1>2. /\ \A u \in Url : rows'[u] = IF u \in call[w].new THEN RunOf(w) ELSE rows[u]
      /\ links'[RunOf(w)] = links[RunOf(w)] \cup call[w].links
      /\ \A r \in Run : r # RunOf(w) => links'[r] = links[r]
  BY <1>1 DEF Durable, TypeOK
<1>3. \A u \in Url : rows[u] # NoRow => rows'[u] = rows[u]
  BY <1>1, <1>2 DEF OpenTransaction
<1>4. ASSUME NEW o \in Writer, o # w, NEW u \in call[o].new
      PROVE  rows'[u] = rows[u]
  <2>1. u \in Url /\ u \notin call[w].new
    BY <1>4 DEF DisjointNew, TypeOK, Call
  <2> QED
    BY <1>2, <2>1
<1>5. NoRow \notin Run
  BY StoreAssumption DEF Run
<1>6. ASSUME NEW u \in Url, NEW r \in Run, <<u, "inserted">> \in links'[r]
      PROVE  rows'[u] = r
  <2>1. CASE <<u, "inserted">> \in links[r]
    BY <1>3, <1>5, <2>1 DEF OneInserter
  <2>2. CASE <<u, "inserted">> \notin links[r]
    <3>1. r = RunOf(w) /\ <<u, "inserted">> \in call[w].links
      BY <1>2, <1>6, <2>2
    <3> QED
      BY <1>1, <1>2, <3>1 DEF OpenTransaction
  <2> QED
    BY <2>1, <2>2
<1>7. ASSUME NEW u \in Url, NEW r \in Run, rows'[u] = r
      PROVE  \E l \in links'[r] : l[1] = u
  <2>1. CASE u \in call[w].new
    <3>1. r = RunOf(w)
      BY <1>2, <1>7, <2>1
    <3>2. PICK l \in call[w].links : l[1] = u
      BY <1>1, <2>1 DEF OpenTransaction
    <3> QED
      BY <1>2, <3>1, <3>2
  <2>2. CASE u \notin call[w].new
    <3>1. PICK l \in links[r] : l[1] = u
      BY <1>2, <1>7, <2>2 DEF OneInserter
    <3> QED
      BY <1>2, <3>1
  <2> QED
    BY <2>1, <2>2
<1> QED
  BY <1>2, <1>3, <1>4, <1>6, <1>7 DEF OneInserter

\* The steps that end a transaction or come after it.
LEMMA EndSteps ==
  ASSUME IInv, NEW w \in Writer,
         Commit(w) \/ CommitFails(w) \/ IndexRows(w) \/ Crash(w)
  PROVE  Kept(w)
<1> USE DEF IInv
<1>1. call[w] \in Call /\ RunState(w) /\ OpenTransaction(w) /\ Progress(w)
  BY DEF TypeOK, Local
<1>2. ASSUME call' = [call EXCEPT ![w] = RolledBack(@)]
      PROVE  /\ call'[w] = RolledBack(call[w])
             /\ call'[w].source = call[w].source /\ call'[w].batch = call[w].batch
             /\ call'[w].pos = call[w].pos
             /\ call'[w].new = {} /\ call'[w].links = {}
             /\ \A o \in Writer : o # w => call'[o] = call[o]
             /\ RunOf(w)' = RunOf(w)
             /\ DisjointNew'
  <2>1. call'[w] = RolledBack(call[w]) /\ \A o \in Writer : o # w => call'[o] = call[o]
    BY <1>2 DEF TypeOK
  <2>2. /\ call'[w].source = call[w].source /\ call'[w].batch = call[w].batch
        /\ call'[w].pos = call[w].pos
        /\ call'[w].new = {} /\ call'[w].links = {}
    BY <1>1, <2>1, RolledBackFacts
  <2> QED
    BY <2>1, <2>2 DEF DisjointNew, RunOf
<1>3. ASSUME NEW o \in Writer, o # w, pc[w] # "idle"
      PROVE  \A m \in 1 .. Sources : <<o, m>> # RunOf(w) /\ <<o, m>> \in Run
  BY <1>3 DEF RunOf, Run
<1>4. CASE Commit(w)
  <2>1. AtEnd(w) /\ Durable(w) /\ call' = [call EXCEPT ![w] = RolledBack(@)]
    BY <1>4 DEF Commit
  <2>2. pc'[w] = "index" /\ pc[w] = "save" /\ \A o \in Writer : o # w => pc'[o] = pc[o]
    BY <1>4 DEF Commit, AtEnd, TypeOK
  <2>3. runs' = runs /\ lost' = lost /\ vdb' = vdb
    BY <1>4 DEF Commit
  <2>4. IndexHasRow'
    BY <2>1, <2>3, DurableFacts DEF IndexHasRow, TypeOK
  <2>5. OpenTransaction(w)' /\ RunState(w)'
    BY <1>1, <1>2, <2>1, <2>2, <2>3 DEF OpenTransaction, RunState, Active
  <2>6. Progress(w)'
    <3>1. ASSUME NEW i \in DOMAIN call[w].batch
          PROVE  Accounted(w, i, call[w].links)
      <4>1. i < call[w].pos
        BY <1>1, <2>1, <3>1 DEF AtEnd, Call, Batch
      <4> QED
        BY <1>1, <2>2, <4>1 DEF Progress
    <3>2. ASSUME NEW i \in DOMAIN call[w].batch
          PROVE  \/ call[w].batch[i] \in Invalid \/ call[w].batch[i] \in lost[RunOf(w)]
                 \/ \E l \in links'[RunOf(w)] : l[1] = call[w].batch[i]
      <4>1. links'[RunOf(w)] = links[RunOf(w)] \cup call[w].links
        BY <2>1, DurableFacts
      <4> QED
        BY <3>1, <4>1 DEF Accounted
    <3> QED
      BY <1>2, <2>1, <2>2, <2>3, <3>2 DEF Progress, Accounted
  <2>7. \A o \in Writer : o # w => Framed(o)
    BY <1>2, <1>3, <2>1, <2>2, <2>3, DurableFacts DEF Framed
  <2> QED
    BY <1>2, <2>1, <2>4, <2>5, <2>6, <2>7, DurableFacts DEF Kept, Local
<1>5. CASE CommitFails(w)
  <2>1. /\ AtEnd(w) /\ call' = [call EXCEPT ![w] = RolledBack(@)]
        /\ runs' = [runs EXCEPT ![RunOf(w)].status = "failed"]
        /\ lost' = lost /\ vdb' = vdb
    BY <1>5 DEF CommitFails
  <2>2. pc'[w] = "raised" /\ pc[w] = "save" /\ \A o \in Writer : o # w => pc'[o] = pc[o]
    BY <1>5 DEF CommitFails, AtEnd, TypeOK
  <2>3. /\ OneInserter'
        /\ \A u \in Url : rows[u] # NoRow => rows'[u] = rows[u]
        /\ \A o \in Writer : o # w => \A u \in call[o].new : rows'[u] = rows[u]
        /\ \A r \in Run : r # RunOf(w) => links'[r] = links[r]
    <3>1. CASE Durable(w)
      BY <2>1, <3>1, DurableFacts
    <3>2. CASE UNCHANGED <<rows, links>>
      BY <3>2 DEF OneInserter
    <3> QED
      BY <1>5, <3>1, <3>2 DEF CommitFails
  <2>4. IndexHasRow'
    BY <2>1, <2>3 DEF IndexHasRow, TypeOK
  <2>5. RunOf(w) \in Run
    BY <1>1, <2>2, RunOfFacts
  <2>6. OpenTransaction(w)' /\ Progress(w)'
    BY <1>2, <2>1, <2>2 DEF OpenTransaction, Progress
  <2>7. RunState(w)'
    <3>1. runs'[RunOf(w)].status = "failed"
      BY <2>1, <2>5 DEF TypeOK, RunRow
    <3>2. \A m \in 1 .. Sources : m > call[w].source => <<w, m>> # RunOf(w) /\ <<w, m>> \in Run
      BY <1>1 DEF RunOf, Run, Call
    <3>3. \A m \in 1 .. Sources : m > call[w].source => runs'[<<w, m>>] = runs[<<w, m>>]
      BY <2>1, <3>2 DEF TypeOK
    <3> QED
      BY <1>1, <1>2, <2>1, <2>2, <3>1, <3>3 DEF RunState, Active
  <2>8. \A o \in Writer : o # w => Framed(o)
    BY <1>2, <1>3, <2>1, <2>2, <2>3 DEF Framed, TypeOK
  <2> QED
    BY <1>2, <2>1, <2>3, <2>4, <2>6, <2>7, <2>8 DEF Kept, Local
<1>6. CASE IndexRows(w)
  <2>1. /\ UNCHANGED <<rows, links, runs, call, lost>>
        /\ pc[w] = "index" /\ pc'[w] = "mark" /\ \A o \in Writer : o # w => pc'[o] = pc[o]
    BY <1>6 DEF IndexRows, TypeOK
  <2>2. OneInserter' /\ DisjointNew' /\ \A o \in Writer : o # w => Framed(o)
    BY <2>1 DEF OneInserter, DisjointNew, Framed
  <2>3. IndexHasRow'
    BY <1>6, <2>1 DEF IndexRows, IndexHasRow
  <2>4. OpenTransaction(w)' /\ RunState(w)' /\ Progress(w)'
    BY <1>1, <2>1 DEF OpenTransaction, RunState, Progress, Active, Accounted, RunOf
  <2> QED
    BY <2>2, <2>3, <2>4 DEF Kept, Local
<1>7. CASE Crash(w)
  <2>1. /\ UNCHANGED <<rows, links, runs, vdb, lost>>
        /\ call' = [call EXCEPT ![w] = RolledBack(@)]
        /\ pc[w] \in Active /\ pc'[w] = "dead" /\ \A o \in Writer : o # w => pc'[o] = pc[o]
    BY <1>7 DEF Crash, TypeOK, Active
  <2>2. OneInserter' /\ IndexHasRow' /\ \A o \in Writer : o # w => Framed(o)
    BY <1>2, <2>1 DEF OneInserter, IndexHasRow, Framed
  <2>3. OpenTransaction(w)' /\ RunState(w)' /\ Progress(w)'
    BY <1>1, <1>2, <2>1 DEF OpenTransaction, RunState, Progress, Active
  <2> QED
    BY <1>2, <2>1, <2>2, <2>3 DEF Kept, Local
<1> QED
  BY <1>4, <1>5, <1>6, <1>7

\* Every step preserves the invariant.
LEMMA StepInv == IInv /\ [Next]_vars => IInv'
<1> SUFFICES ASSUME IInv, [Next]_vars PROVE IInv'
  OBVIOUS
<1>1. TypeOK'
  BY TypeStep DEF IInv, Local
<1>2. CASE UNCHANGED vars
  <2>1. OneInserter' /\ IndexHasRow' /\ DisjointNew'
    BY <1>2 DEF vars, IInv, OneInserter, IndexHasRow, DisjointNew
  <2>2. \A o \in Writer : Framed(o)
    BY <1>2 DEF vars, Framed
  <2>3. \A o \in Writer : Local(o)'
    BY <2>2, FramePreserves DEF IInv
  <2> QED
    BY <1>1, <2>1, <2>3 DEF IInv
<1>3. ASSUME NEW w \in Writer, Step(w) \/ FailArticle(w) \/ CommitFails(w) \/ Crash(w)
      PROVE  Kept(w)
  BY <1>3, QuietSteps, SaveStep, DropSteps, EndSteps DEF Step
<1>4. ASSUME NEW w \in Writer, Kept(w) PROVE IInv'
  <2>1. \A o \in Writer : o # w => Local(o)'
    BY <1>4, FramePreserves DEF Kept, IInv
  <2> QED
    BY <1>1, <1>4, <2>1 DEF Kept, IInv
<1> QED
  BY <1>2, <1>3, <1>4 DEF Next

-----------------------------------------------------------------------------
(* Theorems *)

\* The invariant holds in every reachable state.
LEMMA InvCorrect == Spec => []IInv
BY InitInv, StepInv, PTL DEF Spec

\* Every variable of the article store keeps its type.
THEOREM TypeCorrect == Spec => []TypeOK
<1>1. IInv => TypeOK
  BY DEF IInv
<1> QED
  BY <1>1, InvCorrect, PTL

\* The run that recorded a URL as inserted is the one whose row is stored, and
\* no row is stored without a link, for any number of concurrent writers.
THEOREM OneInserterSafe == Spec => []OneInserter
<1>1. IInv => OneInserter
  BY DEF IInv
<1> QED
  BY <1>1, InvCorrect, PTL

\* A successful run accounts for every article it was given.
THEOREM NothingVanishesSafe == Spec => []NothingVanishes
<1>1. IInv => NothingVanishes
  <2> SUFFICES ASSUME IInv, NEW w \in Writer, call[w].source > 0,
                      runs[RunOf(w)].status = "success",
                      NEW i \in DOMAIN call[w].batch
               PROVE  Accounted(w, i, links[RunOf(w)])
    BY DEF NothingVanishes, Accounted
  <2>1. Local(w)
    BY DEF IInv
  <2>2. pc[w] = "idle"
    BY <2>1 DEF IInv, TypeOK, Local, RunState, Active
  <2> QED
    BY <2>1, <2>2 DEF Local, Progress
<1> QED
  BY <1>1, InvCorrect, PTL

\* The content index only points to stored rows.
THEOREM IndexSafe == Spec => []IndexHasRow
<1>1. IInv => IndexHasRow
  BY DEF IInv
<1> QED
  BY <1>1, InvCorrect, PTL

-----------------------------------------------------------------------------
(* What a settled run counted *)

\* n articles were counted, S are there and L were taken back.
Counted(S, L, n) ==
  /\ IsFiniteSet(S) /\ IsFiniteSet(L)
  /\ Cardinality(S) <= n /\ n <= Cardinality(S) + Cardinality(L)

\* No URL occurs twice in b.
Distinct(b) == \A i, j \in DOMAIN b : b[i] = b[j] => i = j

\* The articles save_articles has dealt with.
Past(w) == {call[w].batch[i] : i \in {k \in DOMAIN call[w].batch : k < call[w].pos}}

\* While a call filters, what it kept is the newest part of the store, and
\* what it may still keep pushes none of it out.
Fresh(w) ==
  LET b == call[w].batch IN
  /\ Len(b) + Len(call[w].found) <= DedupSize
  /\ Len(b) <= Len(seen[w])
  /\ \A i \in 1 .. Len(b) : b[i] = seen[w][Len(seen[w]) - Len(b) + i]

\* What a call has counted so far.
Tally(w) ==
  LET r == RunOf(w) IN
  /\ Distinct(call[w].batch)
  /\ pc[w] = "filter" => Fresh(w) /\ call[w].inserted = 0 /\ lost[r] = {}
  /\ pc[w] = "save" =>
       /\ call[w].new \subseteq Past(w) /\ lost[r] \subseteq Past(w)
       /\ \A l \in call[w].links : l[1] \in Past(w)
       /\ call[w].new \cap lost[r] = {}
       /\ Counted(call[w].new, lost[r], call[w].inserted)
  /\ pc[w] \in {"filter", "save"} => StoredBy(r) = {}
  /\ pc[w] \in {"index", "mark"} => Counted(StoredBy(r), lost[r], call[w].inserted)

\* What the runs of a writer recorded, the next ones being empty.
Settled(w) ==
  \A n \in 1 .. Sources :
    /\ n > call[w].source => lost[<<w, n>>] = {} /\ StoredBy(<<w, n>>) = {}
    /\ runs[<<w, n>>].status = "success" =>
         Counted(StoredBy(<<w, n>>), lost[<<w, n>>], runs[<<w, n>>].inserted)

CountInv == IInv /\ \A w \in Writer : Tally(w) /\ Settled(w)

\* One more row, counted.
LEMMA CountedRow ==
  ASSUME NEW S, NEW L, NEW n \in Nat, Counted(S, L, n), NEW u, u \notin S
  PROVE  Counted(S \cup {u}, L, n + 1)
<1>1. Cardinality(S) \in Nat /\ Cardinality(L) \in Nat
  BY FS_CardinalityType DEF Counted
<1>2. IsFiniteSet(S \cup {u}) /\ Cardinality(S \cup {u}) = Cardinality(S) + 1
  BY FS_AddElement DEF Counted
<1> QED
  BY <1>1, <1>2 DEF Counted

\* Everything in S goes to M: what was counted was taken back.
LEMMA CountedLost ==
  ASSUME NEW S, NEW L, NEW n \in Nat, Counted(S, L, n), S \cap L = {},
         NEW M, IsFiniteSet(M), S \subseteq M, L \subseteq M
  PROVE  /\ Counted({}, M, n)
         /\ \A x \in M : x \notin S /\ x \notin L => Counted({}, M, n + 1)
<1>1. Cardinality(S) \in Nat /\ Cardinality(L) \in Nat /\ IsFiniteSet(S) /\ IsFiniteSet(L)
      /\ Cardinality(M) \in Nat /\ n <= Cardinality(S) + Cardinality(L)
  BY FS_CardinalityType DEF Counted
<1>2. PICK B : B = S \cup L
  OBVIOUS
<1>3. IsFiniteSet(B) /\ Cardinality(B) = Cardinality(S) + Cardinality(L)
  <2>1. IsFiniteSet(S \cup L)
        /\ Cardinality(S \cup L) = Cardinality(S) + Cardinality(L) - Cardinality(S \cap L)
    BY <1>1, FS_Union
  <2>2. Cardinality(S \cap L) = 0
    BY FS_EmptySet
  <2> QED
    BY <1>1, <1>2, <2>1, <2>2
<1>4. Cardinality(B) <= Cardinality(M)
  BY <1>2, FS_Subset
<1>5. IsFiniteSet({}) /\ Cardinality({}) = 0
  BY FS_EmptySet
<1>6. Counted({}, M, n)
  BY <1>1, <1>3, <1>4, <1>5 DEF Counted
<1>7. ASSUME NEW x \in M, x \notin S, x \notin L PROVE Counted({}, M, n + 1)
  <2>1. Cardinality(B \cup {x}) = Cardinality(B) + 1
    BY <1>2, <1>3, <1>7, FS_AddElement
  <2>2. B \cup {x} \subseteq M
    BY <1>2, <1>7
  <2>3. Cardinality(B \cup {x}) <= Cardinality(M)
    BY <2>2, FS_Subset
  <2> QED
    BY <1>1, <1>3, <1>5, <2>1, <2>3 DEF Counted
<1> QED
  BY <1>6, <1>7

\* The articles of a batch are finitely many.
LEMMA BatchFinite ==
  ASSUME NEW b \in Seq(Url)
  PROVE  IsFiniteSet({b[i] : i \in DOMAIN b})
<1>1. PICK R : R = {b[i] : i \in DOMAIN b}
  OBVIOUS
<1>2. DOMAIN b = 1 .. Len(b) /\ Len(b) \in Nat
  OBVIOUS
<1>3. PICK f : f = [i \in 1 .. Len(b) |-> b[i]]
  OBVIOUS
<1>4. f \in [1 .. Len(b) -> R] /\ \A x \in R : \E i \in 1 .. Len(b) : f[i] = x
  BY <1>1, <1>2, <1>3
<1>5. f \in Surjection(1 .. Len(b), R)
  BY <1>4 DEF Surjection
<1>6. ExistsSurjection(1 .. Len(b), R)
  BY <1>5 DEF ExistsSurjection
<1> QED
  BY <1>1, <1>2, <1>6, FS_NatSurjection

\* A writer's counts survive the steps of the others.
LEMMA TallyFramed ==
  ASSUME TypeOK, NEW o \in Writer, Local(o), Tally(o), Settled(o), Framed(o), seen'[o] = seen[o],
         \A n \in 1 .. Sources : StoredBy(<<o, n>>)' = StoredBy(<<o, n>>)
  PROVE  Tally(o)' /\ Settled(o)'
<1>1. call[o] \in Call
  BY DEF TypeOK
<1>2. Settled(o)'
  BY DEF Settled, Framed, StoredBy
<1>3. ASSUME call[o].source \in 1 .. Sources
      PROVE  lost'[RunOf(o)'] = lost[RunOf(o)] /\ StoredBy(RunOf(o))' = StoredBy(RunOf(o))
  BY <1>3 DEF Framed, RunOf, StoredBy
<1>4. pc[o] \in {"filter", "save", "index", "mark"} => call[o].source \in 1 .. Sources
  BY DEF Local, RunState
<1>5. Past(o)' = Past(o) /\ (Fresh(o) => Fresh(o)')
  <2>1. call'[o] = call[o] /\ seen'[o] = seen[o]
    BY DEF Framed
  <2>2. Past(o)' = Past(o)
    BY <2>1 DEF Past
  <2>3. Fresh(o) => Fresh(o)'
    BY <2>1 DEF Fresh
  <2> QED
    BY <2>2, <2>3
<1>6. CASE pc[o] \notin {"filter", "save", "index", "mark"}
  BY <1>2, <1>6 DEF Tally, Framed, Distinct
<1>7. CASE pc[o] \in {"filter", "save", "index", "mark"}
  <2>1. lost'[RunOf(o)'] = lost[RunOf(o)] /\ StoredBy(RunOf(o))' = StoredBy(RunOf(o))
        /\ call'[o] = call[o] /\ pc'[o] = pc[o]
    BY <1>3, <1>4, <1>7 DEF Framed
  <2> QED
    BY <1>2, <1>5, <2>1 DEF Tally, Distinct, Counted
<1> QED
  BY <1>2, <1>6, <1>7

\* A commit gives rows to its own run, and takes none from the others.
LEMMA StoredFramed ==
  ASSUME IInv, NEW w \in Writer, pc[w] = "save", Durable(w)
  PROVE  \A r \in Run : StoredBy(r)' = IF r = RunOf(w) THEN StoredBy(r) \cup call[w].new
                                                     ELSE StoredBy(r)
<1> USE DEF IInv
<1>1. OpenTransaction(w) /\ call[w].new \subseteq Url /\ NoRow \notin Run /\ RunOf(w) \in Run
  BY StoreAssumption, RunOfFacts DEF Local, TypeOK, Call, Run
<1>2. \A u \in Url : rows'[u] = IF u \in call[w].new THEN RunOf(w) ELSE rows[u]
  BY DEF Durable, TypeOK
<1>3. \A u \in call[w].new : rows[u] = NoRow
  BY <1>1 DEF OpenTransaction
<1>4. ASSUME NEW r \in Run
      PROVE  {u \in Url : rows'[u] = r} = IF r = RunOf(w) THEN {u \in Url : rows[u] = r} \cup call[w].new
                                                          ELSE {u \in Url : rows[u] = r}
  <2>1. CASE r = RunOf(w)
    BY <1>1, <1>2, <1>3, <2>1
  <2>2. CASE r # RunOf(w)
    BY <1>1, <1>2, <1>3, <2>2
  <2> QED
    BY <2>1, <2>2
<1> QED
  BY <1>4 DEF StoredBy


\* Keeping an unseen URL: the batch stays the newest part of the store, and
\* stays without repetition.
LEMMA FreshKept ==
  ASSUME NEW b \in Seq(Url), NEW m \in Seq(Url), NEW u \in Url,
         Len(b) < DedupSize, Len(m) <= DedupSize, Len(b) <= Len(m),
         \A i \in 1 .. Len(b) : b[i] = m[Len(m) - Len(b) + i],
         Distinct(b), ~IsSeen(m, u)
  PROVE  /\ Distinct(Append(b, u)) /\ Len(Append(b, u)) <= Len(MarkSeen(m, u))
         /\ \A i \in 1 .. Len(Append(b, u)) :
              Append(b, u)[i] =
                MarkSeen(m, u)[Len(MarkSeen(m, u)) - Len(Append(b, u)) + i]
<1> PICK bb, mm : bb = Append(b, u) /\ mm = MarkSeen(m, u)
  OBVIOUS
<1> SUFFICES /\ Distinct(bb) /\ Len(bb) <= Len(mm)
             /\ \A i \in 1 .. Len(bb) : bb[i] = mm[Len(mm) - Len(bb) + i]
  OBVIOUS
<1>1. /\ bb \in Seq(Url) /\ Len(bb) = Len(b) + 1 /\ bb[Len(b) + 1] = u
      /\ \A i \in 1 .. Len(b) : bb[i] = b[i]
      /\ DOMAIN bb = 1 .. Len(b) + 1 /\ Len(b) \in Nat /\ Len(m) \in Nat /\ DedupSize \in Nat
  BY StoreAssumption
<1>2. \A i \in 1 .. Len(b) : Len(m) - Len(b) + i \in 1 .. Len(m)
  BY <1>1
<1>3. \A i \in 1 .. Len(b) : b[i] # u
  BY <1>2 DEF IsSeen
<1>4. Distinct(bb)
  BY <1>1, <1>3 DEF Distinct
<1>5. PICK n : n = Append(m, u)
  OBVIOUS
<1>6. /\ n \in Seq(Url) /\ Len(n) = Len(m) + 1 /\ n[Len(m) + 1] = u
      /\ \A i \in 1 .. Len(m) : n[i] = m[i]
  BY <1>5
<1>7. \A i \in 1 .. Len(b) + 1 : bb[i] = n[Len(m) - Len(b) + i]
  <2>1. ASSUME NEW i \in 1 .. Len(b) PROVE bb[i] = n[Len(m) - Len(b) + i]
    BY <1>1, <1>2, <1>6
  <2>2. bb[Len(b) + 1] = n[Len(m) - Len(b) + (Len(b) + 1)]
    BY <1>1, <1>6
  <2>3. \A i \in 1 .. Len(b) + 1 : i \in 1 .. Len(b) \/ i = Len(b) + 1
    BY <1>1
  <2> QED
    BY <2>1, <2>2, <2>3
<1>8. CASE Len(n) > DedupSize
  <2>1. mm = Tail(n)
    BY <1>5, <1>8 DEF MarkSeen
  <2>2. n # <<>>
    BY <1>1, <1>6
  <2>3. Len(mm) = Len(m) /\ \A k \in 1 .. Len(m) : mm[k] = n[k + 1]
    BY <1>1, <1>6, <2>1, <2>2
  <2>4. Len(m) >= Len(b) + 1
    BY <1>1, <1>6, <1>8
  <2>5. ASSUME NEW i \in 1 .. Len(b) + 1
        PROVE  bb[i] = mm[Len(mm) - Len(bb) + i]
    <3>1. Len(m) - (Len(b) + 1) + i \in 1 .. Len(m)
          /\ Len(m) - (Len(b) + 1) + i + 1 = Len(m) - Len(b) + i
      BY <1>1, <2>4
    <3> QED
      BY <1>1, <1>7, <2>3, <3>1
  <2> QED
    BY <1>1, <1>4, <2>3, <2>4, <2>5
<1>9. CASE ~(Len(n) > DedupSize)
  <2>1. mm = n /\ Len(mm) = Len(m) + 1
    BY <1>5, <1>6, <1>9 DEF MarkSeen
  <2>2. PICK k : k = Len(m) - Len(b)
    OBVIOUS
  <2>3. k \in Nat /\ Len(mm) - Len(bb) = k /\ Len(bb) <= Len(mm)
    BY <1>1, <2>1, <2>2
  <2>4. \A i \in 1 .. Len(bb) : bb[i] = mm[k + i]
    BY <1>1, <1>7, <2>1, <2>2
  <2> QED
    BY <1>4, <2>3, <2>4
<1> QED
  BY <1>8, <1>9

\* The steps before save_articles.
LEMMA FilterTally ==
  ASSUME CountInv, \A f \in Found : Len(f) <= DedupSize, NEW w \in Writer,
         StartSource(w) \/ FilterArticle(w) \/ StartSave(w)
  PROVE  Tally(w)' /\ Settled(w)'
<1> USE DEF CountInv, IInv
<1>1. /\ call[w] \in Call /\ RunState(w) /\ Tally(w) /\ Settled(w)
      /\ rows' = rows /\ lost' = lost
  BY DEF TypeOK, Local, StartSource, FilterArticle, StartSave
<1>2. \A n \in 1 .. Sources : StoredBy(<<w, n>>)' = StoredBy(<<w, n>>)
  BY <1>1 DEF StoredBy
<1>3. CASE StartSource(w)
  <2>1. PICK found \in Found : call' = [call EXCEPT ![w] = NewCall(call[w].source + 1, found)]
    BY <1>3 DEF StartSource
  <2>2. PICK n : n = call[w].source + 1
    OBVIOUS
  <2>3. n \in 1 .. Sources /\ n > call[w].source
    BY <1>1, <1>3, <2>2, StoreAssumption DEF StartSource, Call
  <2>4. /\ call'[w].source = n /\ call'[w].found = found /\ call'[w].batch = <<>>
        /\ call'[w].inserted = 0
    BY <2>1, <2>2 DEF TypeOK, NewCall, NoCall
  <2>5. pc'[w] = "filter" /\ seen' = seen
    BY <1>3 DEF StartSource, TypeOK
  <2>6. lost'[<<w, n>>] = {} /\ StoredBy(<<w, n>>)' = {}
    BY <1>1, <1>2, <2>3 DEF Settled
  <2>7. Distinct(<<>>) /\ Len(<<>>) = 0
    BY DEF Distinct
  <2>8. Fresh(w)'
    <3>1. Len(seen[w]) \in Nat /\ Len(found) \in Nat /\ Len(found) <= DedupSize
      BY StoreAssumption DEF TypeOK
    <3> QED
      BY <2>4, <2>5, <2>7, <3>1 DEF Fresh
  <2>9. Tally(w)'
    <3>1. RunOf(w)' = <<w, n>>
      BY <2>4 DEF RunOf
    <3>2. StoredBy(RunOf(w)') = StoredBy(<<w, n>>)
      BY <3>1
    <3> QED
      BY <1>1, <2>4, <2>5, <2>6, <2>7, <2>8, <3>1 DEF Tally, Distinct, StoredBy
  <2>10. \A m \in 1 .. Sources : runs'[<<w, m>>].status = "success" => runs'[<<w, m>>] = runs[<<w, m>>]
    <3>1. runs' = [runs EXCEPT ![<<w, n>>].status = "running"] /\ <<w, n>> \in Run
      BY <1>3, <2>2, <2>3 DEF StartSource, Run
    <3>2. runs'[<<w, n>>].status = "running"
      BY <3>1 DEF TypeOK, RunRow
    <3> QED
      BY <3>1, <3>2 DEF TypeOK, Run
  <2>11. Settled(w)'
    <3>1. ASSUME NEW m \in 1 .. Sources, m > n PROVE m > call[w].source
      BY <1>1, <2>2, <3>1 DEF Call
    <3> QED
      BY <1>1, <2>4, <2>10, <3>1 DEF Settled, StoredBy
  <2> QED
    BY <2>9, <2>11
<1>4. CASE FilterArticle(w)
  <2> DEFINE u == Head(call[w].found)
  <2>1. /\ pc[w] = "filter" /\ pc'[w] = "filter" /\ runs' = runs
    BY <1>4 DEF FilterArticle
  <2>2. PICK f, b, m : f = call[w].found /\ b = call[w].batch /\ m = seen[w]
    OBVIOUS
  <2>3. /\ f \in Seq(Url) /\ b \in Seq(Url) /\ m \in Seq(Url) /\ Len(m) <= DedupSize
        /\ u \in Url /\ Len(Tail(f)) = Len(f) - 1 /\ Len(f) >= 1
    <3>1. f \in Seq(Url) /\ b \in Seq(Url) /\ m \in Seq(Url) /\ Len(m) <= DedupSize
      BY <1>1, <2>2 DEF Call, Batch, TypeOK
    <3>2. f # <<>>
      BY <1>4, <2>2 DEF FilterArticle
    <3> QED
      BY <2>2, <3>1, <3>2
  <2>4. /\ Distinct(b) /\ Len(b) + Len(f) <= DedupSize /\ Len(b) <= Len(m)
        /\ \A i \in 1 .. Len(b) : b[i] = m[Len(m) - Len(b) + i]
    BY <1>1, <2>1, <2>2 DEF Tally, Fresh
  <2>5. Len(b) < DedupSize /\ Len(b) \in Nat /\ DedupSize \in Nat /\ Len(f) \in Nat
    BY <2>3, <2>4, StoreAssumption
  <2>6. /\ call'[w].source = call[w].source /\ call'[w].inserted = call[w].inserted
        /\ call'[w].found = Tail(f)
        /\ Distinct(call'[w].batch) /\ Len(call'[w].batch) + Len(f) - 1 <= DedupSize
        /\ Len(call'[w].batch) <= Len(seen'[w])
        /\ Len(call'[w].batch) \in Nat
        /\ \A i \in 1 .. Len(call'[w].batch) :
             call'[w].batch[i] = seen'[w][Len(seen'[w]) - Len(call'[w].batch) + i]
    <3>1. CASE IsSeen(seen[w], u) /\ call' = [call EXCEPT ![w].found = Tail(@)] /\ UNCHANGED seen
      <4>1. call'[w] = [call[w] EXCEPT !.found = Tail(f)]
        BY <2>2, <3>1 DEF TypeOK
      <4>2. /\ call'[w].found = Tail(f) /\ call'[w].batch = b
            /\ call'[w].source = call[w].source /\ call'[w].inserted = call[w].inserted
        BY <1>1, <2>2, <4>1 DEF Call
      <4>3. seen'[w] = m
        BY <2>2, <3>1
      <4>4. Len(b) + Len(f) - 1 <= DedupSize
        BY <2>4, <2>5
      <4> QED
        BY <2>4, <2>5, <4>2, <4>3, <4>4
    <3>2. CASE /\ ~IsSeen(seen[w], u) /\ seen' = [seen EXCEPT ![w] = MarkSeen(@, u)]
               /\ call' = [call EXCEPT ![w].found = Tail(@), ![w].batch = Append(@, u)]
      <4>1. call'[w] = [call[w] EXCEPT !.found = Tail(f), !.batch = Append(b, u)]
        BY <2>2, <3>2 DEF TypeOK
      <4>2. /\ call'[w].found = Tail(f) /\ call'[w].batch = Append(b, u)
            /\ call'[w].source = call[w].source /\ call'[w].inserted = call[w].inserted
        BY <1>1, <4>1 DEF Call
      <4>3. seen'[w] = MarkSeen(m, u)
        BY <2>2, <3>2 DEF TypeOK
      <4>4. Len(Append(b, u)) = Len(b) + 1
        BY <2>3
      <4>5. ~IsSeen(m, u)
        BY <2>2, <3>2
      <4>6. PICK bb, mm : bb = Append(b, u) /\ mm = MarkSeen(m, u)
        OBVIOUS
      <4>7. /\ Distinct(bb) /\ Len(bb) <= Len(mm)
            /\ \A i \in 1 .. Len(bb) : bb[i] = mm[Len(mm) - Len(bb) + i]
        <5> HIDE DEF u
        <5>1. /\ Distinct(Append(b, u)) /\ Len(Append(b, u)) <= Len(MarkSeen(m, u))
              /\ \A i \in 1 .. Len(Append(b, u)) :
                   Append(b, u)[i] =
                     MarkSeen(m, u)[Len(MarkSeen(m, u)) - Len(Append(b, u)) + i]
          BY <2>3, <2>4, <2>5, <4>5, FreshKept
        <5> QED
          BY <4>6, <5>1
      <4>8. Len(bb) \in Nat /\ Len(bb) + Len(f) - 1 <= DedupSize
        BY <2>4, <2>5, <4>4, <4>6
      <4>9. call'[w].batch = bb /\ seen'[w] = mm
        BY <4>2, <4>3, <4>6
      <4>10. call'[w].source = call[w].source /\ call'[w].inserted = call[w].inserted
             /\ call'[w].found = Tail(f)
        BY <4>2
      <4> QED
        BY <4>7, <4>8, <4>9, <4>10
    <3> QED
      BY <1>4, <3>1, <3>2 DEF FilterArticle
  <2>7. RunOf(w)' = RunOf(w) /\ Distinct(call[w].batch)'
    BY <2>6 DEF RunOf, Distinct
  <2>8. Fresh(w)'
    BY <2>3, <2>5, <2>6 DEF Fresh
  <2>9. Tally(w)'
    BY <1>1, <2>1, <2>6, <2>7, <2>8 DEF Tally, StoredBy, RunOf
  <2>10. Settled(w)'
    BY <1>1, <2>1, <2>6 DEF Settled, StoredBy
  <2> QED
    BY <2>9, <2>10
<1>5. CASE StartSave(w)
  <2>1. /\ pc[w] = "filter" /\ call' = call /\ runs' = runs
        /\ pc'[w] = IF call[w].batch = <<>> THEN "mark" ELSE "save"
    BY <1>5 DEF StartSave, TypeOK
  <2>2. /\ StoredBy(RunOf(w)) = {} /\ lost[RunOf(w)] = {} /\ call[w].inserted = 0
        /\ call[w].new = {} /\ call[w].links = {} /\ Distinct(call[w].batch)
    BY <1>1, <2>1 DEF Tally, Local, OpenTransaction
  <2>3. Counted({}, {}, 0)
    BY FS_EmptySet DEF Counted
  <2>4. Settled(w)'
    BY <1>1, <2>1 DEF Settled, StoredBy
  <2>5. Tally(w)'
    BY <1>1, <2>1, <2>2, <2>3 DEF Tally, Distinct, Counted, StoredBy, RunOf, Past
  <2> QED
    BY <2>4, <2>5
<1> QED
  BY <1>3, <1>4, <1>5

\* The article in work is none of those dealt with, and is then one of them.
LEMMA PastNext ==
  ASSUME TypeOK, NEW w \in Writer, Saving(w), Distinct(call[w].batch)
  PROVE  /\ Current(w) \notin Past(w)
         /\ IsFiniteSet(Past(w) \cup {Current(w)})
         /\ call'[w].batch = call[w].batch /\ call'[w].pos = call[w].pos + 1
              => Past(w)' = Past(w) \cup {Current(w)}
<1>1. PICK b, p : b = call[w].batch /\ p = call[w].pos
  OBVIOUS
<1>2. b \in Seq(Url) /\ p \in Nat \ {0} /\ p \in DOMAIN b /\ Current(w) = b[p] /\ Distinct(b)
  BY <1>1, CurrentFacts DEF TypeOK, Call, Batch
<1>3. Past(w) = {b[i] : i \in {k \in DOMAIN b : k < p}}
  BY <1>1 DEF Past
<1>4. Current(w) \notin Past(w)
  BY <1>2, <1>3 DEF Distinct
<1>5. IsFiniteSet({b[i] : i \in DOMAIN b})
  BY <1>2, BatchFinite
<1>6. Past(w) \cup {Current(w)} \subseteq {b[i] : i \in DOMAIN b}
  BY <1>2, <1>3
<1>7. IsFiniteSet(Past(w) \cup {Current(w)})
  BY <1>5, <1>6, FS_Subset
<1>8. ASSUME call'[w].batch = call[w].batch, call'[w].pos = call[w].pos + 1
      PROVE  Past(w)' = Past(w) \cup {Current(w)}
  <2>1. Past(w)' = {b[i] : i \in {k \in DOMAIN b : k < p + 1}}
    BY <1>1, <1>8 DEF Past
  <2>2. \A k \in DOMAIN b : k < p + 1 <=> k < p \/ k = p
    BY <1>2
  <2> QED
    BY <1>2, <1>3, <2>1, <2>2
<1> QED
  BY <1>4, <1>7, <1>8

\* What the tallies of the steps of save_articles have in common.
LEMMA SavingTally ==
  ASSUME CountInv, NEW w \in Writer, pc[w] = "save", pc'[w] = "save",
         rows' = rows, runs' = runs,
         \A r \in Run : r # RunOf(w) => lost'[r] = lost[r],
         call'[w].source = call[w].source, call'[w].batch = call[w].batch,
         call'[w].new \subseteq Past(w)', lost'[RunOf(w)] \subseteq Past(w)',
         \A l \in call'[w].links : l[1] \in Past(w)',
         call'[w].new \cap lost'[RunOf(w)] = {},
         Counted(call'[w].new, lost'[RunOf(w)], call'[w].inserted)
  PROVE  Tally(w)' /\ Settled(w)'
<1>1. /\ call[w] \in Call /\ RunState(w) /\ Tally(w) /\ Settled(w)
      /\ call[w].source \in 1 .. Sources /\ runs[RunOf(w)].status = "running"
  BY DEF CountInv, IInv, TypeOK, Local, RunState, Active
<1>2. RunOf(w)' = RunOf(w)
  BY DEF RunOf
<1>3. Tally(w)'
  BY <1>1, <1>2 DEF Tally, Distinct, Counted, StoredBy
<1>4. ASSUME NEW n \in 1 .. Sources, n # call[w].source
      PROVE  lost'[<<w, n>>] = lost[<<w, n>>]
  BY <1>4 DEF RunOf, Run
<1>5. Settled(w)'
  <2>1. ASSUME NEW n \in 1 .. Sources, n > call'[w].source
        PROVE  lost'[<<w, n>>] = {} /\ {u \in Url : rows'[u] = <<w, n>>} = {}
    <3>1. n # call[w].source /\ n > call[w].source
      BY <1>1, <2>1
    <3> QED
      BY <1>1, <1>4, <3>1 DEF Settled, StoredBy
  <2>2. ASSUME NEW n \in 1 .. Sources, runs'[<<w, n>>].status = "success"
        PROVE  Counted({u \in Url : rows'[u] = <<w, n>>}, lost'[<<w, n>>], runs'[<<w, n>>].inserted)
    <3>1. n # call[w].source
      BY <1>1, <2>2 DEF RunOf
    <3> QED
      BY <1>1, <1>4, <2>2, <3>1 DEF Settled, StoredBy
  <2> QED
    BY <2>1, <2>2 DEF Settled, StoredBy, Counted
<1> QED
  BY <1>3, <1>5

\* The steps of save_articles before its commit.
LEMMA SaveTally ==
  ASSUME CountInv, NEW w \in Writer,
         SkipInvalid(w) \/ LegacyFallback(w) \/ SaveArticle(w) \/ DeadlockVictim(w) \/ FailArticle(w)
  PROVE  Tally(w)' /\ Settled(w)'
<1> USE DEF CountInv, IInv
<1>1. Saving(w)
  BY DEF SkipInvalid, LegacyFallback, SaveArticle, DeadlockVictim, FailArticle, InCycle, WaitsFor
<1>2. /\ call[w] \in Call /\ RunState(w) /\ OpenTransaction(w) /\ Tally(w)
      /\ pc[w] = "save" /\ pc' = pc /\ rows' = rows /\ runs' = runs
  BY <1>1 DEF TypeOK, Local, Saving, SkipInvalid, LegacyFallback, SaveArticle, DeadlockVictim,
     FailArticle
<1>3. PICK r : r = RunOf(w)
  OBVIOUS
<1>4. r \in Run
  BY <1>2, <1>3, RunOfFacts
<1>5. PICK S, L, K, n : /\ S = call[w].new /\ L = lost[r] /\ n = call[w].inserted
                        /\ K = {l[1] : l \in call[w].links}
  OBVIOUS
<1>6. /\ Distinct(call[w].batch) /\ S \subseteq Past(w) /\ L \subseteq Past(w) /\ K \subseteq Past(w)
      /\ S \cap L = {} /\ Counted(S, L, n) /\ n \in Nat /\ S \subseteq K
      /\ \A l \in call[w].links : l[1] \in Past(w)
  BY <1>2, <1>3, <1>5 DEF Tally, OpenTransaction, Call
<1>7. /\ Current(w) \notin Past(w) /\ IsFiniteSet(Past(w) \cup {Current(w)})
      /\ call'[w].batch = call[w].batch /\ call'[w].pos = call[w].pos + 1
           => Past(w)' = Past(w) \cup {Current(w)}
  BY <1>1, <1>6, PastNext
<1>8. CASE SkipInvalid(w)
  <2>1. /\ call'[w] = [call[w] EXCEPT !.pos = @ + 1] /\ lost' = lost
    BY <1>8 DEF SkipInvalid, TypeOK
  <2>2. /\ call'[w].source = call[w].source /\ call'[w].batch = call[w].batch
        /\ call'[w].pos = call[w].pos + 1 /\ call'[w].new = S /\ call'[w].links = call[w].links
        /\ call'[w].inserted = n
    BY <1>2, <1>5, <2>1 DEF Call
  <2>3. Past(w)' = Past(w) \cup {Current(w)}
    BY <1>7, <2>2
  <2> QED
    BY <1>2, <1>3, <1>5, <1>6, <2>1, <2>2, <2>3, SavingTally
<1>9. CASE LegacyFallback(w)
  <2>1. /\ call'[w] = [RolledBack(call[w]) EXCEPT !.fallback = TRUE]
        /\ lost' = [lost EXCEPT ![r] = L \cup K]
    BY <1>3, <1>4, <1>5, <1>9 DEF LegacyFallback, TypeOK
  <2>2. /\ call'[w].source = call[w].source /\ call'[w].batch = call[w].batch
        /\ call'[w].pos = call[w].pos /\ call'[w].new = {} /\ call'[w].links = {}
        /\ call'[w].inserted = n
    BY <1>2, <1>5, <2>1, RolledBackFacts DEF Call
  <2>3. Past(w)' = Past(w)
    BY <2>2 DEF Past
  <2>4. lost'[r] = L \cup K /\ \A q \in Run : q # r => lost'[q] = lost[q]
    BY <1>4, <2>1 DEF TypeOK
  <2>5. IsFiniteSet(L \cup K)
    <3>1. L \cup K \subseteq Past(w) \cup {Current(w)}
      BY <1>6
    <3> QED
      BY <1>7, <3>1, FS_Subset
  <2>6. Counted({}, L \cup K, n)
    BY <1>6, <2>5, CountedLost
  <2> QED
    BY <1>2, <1>3, <1>6, <2>2, <2>3, <2>4, <2>6, SavingTally
<1>10. CASE SaveArticle(w)
  <2>1. PICK u, isNew : u = Current(w) /\ isNew = IsNew(w)
    OBVIOUS
  <2>2. u \in Url /\ isNew \in BOOLEAN
    BY <1>1, <2>1, CurrentFacts DEF IsNew
  <2>3. call'[w] = Saved(call[w], u, isNew) /\ lost' = lost
    BY <1>10, <2>1 DEF SaveArticle, TypeOK
  <2>4. /\ call'[w].source = call[w].source /\ call'[w].batch = call[w].batch
        /\ call'[w].pos = call[w].pos + 1
        /\ call'[w].new = IF isNew THEN S \cup {u} ELSE S
        /\ \A l \in call'[w].links : l \in call[w].links \/ l[1] = u
    <3>1. PICK c : c = Saved(call[w], u, isNew)
      OBVIOUS
    <3>2. /\ c.source = call[w].source /\ c.batch = call[w].batch /\ c.pos = call[w].pos + 1
          /\ isNew => /\ c.new = call[w].new \cup {u}
                      /\ c.links = {l \in call[w].links : l[1] # u} \cup {<<u, "inserted">>}
          /\ ~isNew => /\ c.new = call[w].new
                       /\ c.links = {l \in call[w].links : l[1] # u} \cup {<<u, "duplicate">>}
      BY <1>2, <2>2, <3>1, SavedFacts
    <3>3. \A l \in c.links : l \in call[w].links \/ l[1] = u
      BY <2>2, <3>2
    <3> QED
      BY <1>5, <2>2, <2>3, <3>1, <3>2, <3>3
  <2>5. call'[w].inserted = IF isNew THEN n + 1 ELSE n
    BY <1>2, <1>5, <2>3 DEF Saved, Call
  <2>6. Past(w)' = Past(w) \cup {u}
    BY <1>7, <2>1, <2>4
  <2>7. u \notin S /\ u \notin L
    BY <1>6, <1>7, <2>1
  <2>8. Counted(call'[w].new, L, call'[w].inserted)
    BY <1>6, <2>4, <2>5, <2>7, CountedRow
  <2>9. \A l \in call'[w].links : l[1] \in Past(w)'
    BY <1>6, <2>4, <2>6
  <2>10. /\ call'[w].new \subseteq Past(w)' /\ L \subseteq Past(w)' /\ call'[w].new \cap L = {}
    BY <1>6, <2>4, <2>6, <2>7
  <2> QED
    BY <1>2, <1>3, <1>5, <2>3, <2>4, <2>8, <2>9, <2>10, SavingTally
<1>11. ASSUME NEW counted \in {0, 1}, DropTransaction(w, counted)
       PROVE  Tally(w)' /\ Settled(w)'
  <2>1. PICK u, M : u = Current(w) /\ M = L \cup {u} \cup K
    OBVIOUS
  <2>2. /\ call'[w] = Dropped(call[w], counted) /\ lost' = [lost EXCEPT ![r] = M]
    BY <1>3, <1>4, <1>5, <1>11, <2>1 DEF DropTransaction, TypeOK
  <2>3. /\ call'[w].source = call[w].source /\ call'[w].batch = call[w].batch
        /\ call'[w].pos = call[w].pos + 1 /\ call'[w].new = {} /\ call'[w].links = {}
    BY <1>2, <2>2, DroppedFacts
  <2>4. call'[w].inserted = n + counted
    BY <1>2, <1>5, <2>2, RolledBackFacts DEF Dropped, Call
  <2>5. lost'[r] = M /\ \A q \in Run : q # r => lost'[q] = lost[q]
    BY <1>4, <2>2 DEF TypeOK
  <2>6. Past(w)' = Past(w) \cup {u} /\ M \subseteq Past(w) \cup {u} /\ IsFiniteSet(Past(w) \cup {u})
    BY <1>6, <1>7, <2>1, <2>3
  <2>7. IsFiniteSet(M)
    BY <2>6, FS_Subset
  <2>8. u \in M /\ u \notin S /\ u \notin L /\ S \subseteq M /\ L \subseteq M
    BY <1>6, <1>7, <2>1
  <2>9. Counted({}, M, n) /\ Counted({}, M, n + 1)
    BY <1>6, <2>7, <2>8, CountedLost
  <2>10. Counted({}, M, call'[w].inserted)
    BY <1>6, <2>4, <2>9
  <2> QED
    BY <1>2, <1>3, <2>3, <2>5, <2>6, <2>10, SavingTally
<1>12. DeadlockVictim(w) \/ FailArticle(w) => DropTransaction(w, 0) \/ DropTransaction(w, 1)
  BY DEF DeadlockVictim, FailArticle
<1> QED
  BY <1>8, <1>9, <1>10, <1>11, <1>12

\* The steps that end a transaction or come after it.
LEMMA EndTally ==
  ASSUME CountInv, NEW w \in Writer,
         Commit(w) \/ CommitFails(w) \/ IndexRows(w) \/ MarkSuccess(w) \/ Crash(w)
  PROVE  Tally(w)' /\ Settled(w)'
<1> USE DEF CountInv, IInv
<1>1. /\ call[w] \in Call /\ RunState(w) /\ OpenTransaction(w) /\ Tally(w) /\ Settled(w)
      /\ pc[w] \in Active /\ call[w].source \in 1 .. Sources /\ runs[RunOf(w)].status = "running"
      /\ lost' = lost
  BY DEF TypeOK, Local, RunState, Active, Commit, CommitFails, IndexRows, MarkSuccess, Crash, AtEnd
<1>2. PICK s : s = call[w].source
  OBVIOUS
<1>3. RunOf(w) = <<w, s>> /\ s \in 1 .. Sources /\ RunOf(w) \in Run
  BY <1>1, <1>2, RunOfFacts DEF RunOf, Active
<1>4. /\ call'[w].source = s /\ call'[w].batch = call[w].batch
      /\ call'[w].inserted = call[w].inserted
  <2>1. call'[w] = call[w] \/ call'[w] = RolledBack(call[w])
    BY DEF Commit, CommitFails, IndexRows, MarkSuccess, Crash, TypeOK
  <2> QED
    BY <1>1, <1>2, <2>1, RolledBackFacts
<1>5. RunOf(w)' = <<w, s>>
  BY <1>4 DEF RunOf
<1>6. Distinct(call[w].batch)'
  BY <1>1, <1>4 DEF Tally, Distinct
<1>7. \A m \in 1 .. Sources : m # s =>
        StoredBy(<<w, m>>)' = StoredBy(<<w, m>>) /\ runs'[<<w, m>>] = runs[<<w, m>>]
  <2>1. ASSUME NEW m \in 1 .. Sources, m # s
        PROVE  runs'[<<w, m>>] = runs[<<w, m>>]
    <3>1. <<w, m>> \in Run /\ <<w, m>> # RunOf(w)
      BY <1>3, <2>1 DEF Run
    <3> QED
      BY <3>1 DEF TypeOK, Commit, CommitFails, IndexRows, MarkSuccess, Crash
  <2>2. ASSUME NEW m \in 1 .. Sources, m # s
        PROVE  StoredBy(<<w, m>>)' = StoredBy(<<w, m>>)
    <3>1. <<w, m>> \in Run /\ <<w, m>> # RunOf(w)
      BY <1>3, <2>2 DEF Run
    <3>2. CASE rows' = rows
      BY <3>2 DEF StoredBy
    <3>3. CASE pc[w] = "save" /\ Durable(w)
      BY <3>1, <3>3, StoredFramed
    <3> QED
      BY <3>2, <3>3 DEF Commit, CommitFails, IndexRows, MarkSuccess, Crash, AtEnd
  <2> QED
    BY <2>1, <2>2
<1>8. ASSUME runs'[<<w, s>>].status = "success" =>
               Counted(StoredBy(<<w, s>>)', lost'[<<w, s>>], runs'[<<w, s>>].inserted)
      PROVE  Settled(w)'
  <2>1. ASSUME NEW n \in 1 .. Sources, n > s
        PROVE  lost'[<<w, n>>] = {} /\ StoredBy(<<w, n>>)' = {}
    <3>1. n # s
      BY <1>3, <2>1
    <3> QED
      BY <1>1, <1>2, <1>7, <2>1, <3>1 DEF Settled
  <2>2. ASSUME NEW n \in 1 .. Sources, runs'[<<w, n>>].status = "success"
        PROVE  Counted(StoredBy(<<w, n>>)', lost'[<<w, n>>], runs'[<<w, n>>].inserted)
    <3>1. CASE n = s
      BY <1>8, <2>2, <3>1
    <3>2. CASE n # s
      BY <1>1, <1>7, <2>2, <3>2 DEF Settled
    <3> QED
      BY <3>1, <3>2
  <2> QED
    BY <1>4, <2>1, <2>2 DEF Settled, StoredBy, Counted
<1>9. ASSUME pc'[w] \in {"raised", "dead", "idle"} PROVE Tally(w)'
  BY <1>6, <1>9 DEF Tally, Distinct
<1>10. ASSUME runs'[<<w, s>>].status # "success" PROVE Settled(w)'
  BY <1>8, <1>10
<1>11. CASE Commit(w)
  <2>1. /\ pc[w] = "save" /\ pc'[w] = "index" /\ Durable(w) /\ runs' = runs
    BY <1>11 DEF Commit, AtEnd, TypeOK
  <2>2. StoredBy(<<w, s>>)' = StoredBy(<<w, s>>) \cup call[w].new
    BY <1>3, <2>1, StoredFramed
  <2>3. StoredBy(<<w, s>>) = {} /\ Counted(call[w].new, lost[<<w, s>>], call[w].inserted)
    BY <1>1, <1>3, <2>1 DEF Tally
  <2>4. StoredBy(<<w, s>>)' = call[w].new
    BY <2>2, <2>3
  <2>5. Tally(w)'
    BY <1>1, <1>4, <1>5, <1>6, <2>1, <2>3, <2>4 DEF Tally, Distinct, Counted, StoredBy
  <2> QED
    BY <1>1, <1>3, <1>10, <2>1, <2>5
<1>12. CASE CommitFails(w)
  <2>1. pc'[w] = "raised" /\ runs'[<<w, s>>].status = "failed"
    BY <1>3, <1>12 DEF CommitFails, TypeOK, RunRow
  <2> QED
    BY <1>9, <1>10, <2>1
<1>13. CASE IndexRows(w)
  <2>1. /\ pc[w] = "index" /\ pc'[w] = "mark" /\ rows' = rows /\ runs' = runs
    BY <1>13 DEF IndexRows, TypeOK
  <2>2. Tally(w)'
    BY <1>1, <1>3, <1>4, <1>5, <1>6, <2>1 DEF Tally, Distinct, Counted, StoredBy
  <2> QED
    BY <1>1, <1>3, <1>10, <2>1, <2>2
<1>14. CASE MarkSuccess(w)
  <2>1. pc[w] = "mark" /\ pc'[w] = "idle" /\ rows' = rows
    BY <1>14 DEF MarkSuccess, TypeOK
  <2>2. runs'[<<w, s>>].inserted = call[w].inserted
    BY <1>3, <1>14 DEF MarkSuccess, TypeOK
  <2>3. Counted(StoredBy(<<w, s>>), lost[<<w, s>>], call[w].inserted)
    BY <1>1, <1>3, <2>1 DEF Tally
  <2>4. Counted(StoredBy(<<w, s>>)', lost'[<<w, s>>], runs'[<<w, s>>].inserted)
    BY <1>1, <2>1, <2>2, <2>3 DEF StoredBy
  <2> QED
    BY <1>8, <1>9, <2>1, <2>4
<1>15. CASE Crash(w)
  <2>1. pc'[w] = "dead" /\ runs' = runs
    BY <1>15 DEF Crash, TypeOK
  <2> QED
    BY <1>1, <1>3, <1>9, <1>10, <2>1
<1> QED
  BY <1>11, <1>12, <1>13, <1>14, <1>15

\* What w's step leaves of the others, besides their part of IInv.
LEMMA OthersTally ==
  ASSUME CountInv, NEW w \in Writer, NEW o \in Writer, o # w,
         Step(w) \/ FailArticle(w) \/ CommitFails(w) \/ Crash(w)
  PROVE  Tally(o)' /\ Settled(o)'
<1> USE DEF CountInv, IInv
<1>1. Framed(o)
  BY QuietSteps, SaveStep, DropSteps, EndSteps DEF Step, Kept
<1>2. seen'[o] = seen[o]
  BY DEF Step, StartSource, FilterArticle, StartSave, SkipInvalid, LegacyFallback, SaveArticle,
     DeadlockVictim, Commit, IndexRows, MarkSuccess, FailArticle, CommitFails, Crash, TypeOK
<1>3. ASSUME NEW n \in 1 .. Sources PROVE StoredBy(<<o, n>>)' = StoredBy(<<o, n>>)
  <2>1. <<o, n>> \in Run /\ <<o, n>> # RunOf(w)
    BY DEF Run, RunOf
  <2>2. CASE rows' = rows
    BY <2>2 DEF StoredBy
  <2>3. CASE pc[w] = "save" /\ Durable(w)
    BY <2>1, <2>3, StoredFramed
  <2> QED
    BY <2>2, <2>3 DEF Step, StartSource, FilterArticle, StartSave, SkipInvalid, LegacyFallback,
       SaveArticle, DeadlockVictim, Commit, IndexRows, MarkSuccess, FailArticle, CommitFails,
       Crash, AtEnd
<1> QED
  BY <1>1, <1>2, <1>3, TallyFramed

\* Nothing is stored and nothing counted at the start.
LEMMA InitCount == Init => CountInv
<1> SUFFICES ASSUME Init PROVE CountInv
  OBVIOUS
<1>1. IInv
  BY InitInv
<1>2. ASSUME NEW r \in Run PROVE lost[r] = {} /\ StoredBy(r) = {} /\ runs[r].status = "none"
  BY StoreAssumption DEF Init, StoredBy, Run
<1>3. ASSUME NEW w \in Writer PROVE Tally(w)
  BY DEF Init, Tally, NoCall, Distinct
<1>4. ASSUME NEW w \in Writer PROVE Settled(w)
  BY <1>2 DEF Settled, Run
<1> QED
  BY <1>1, <1>3, <1>4 DEF CountInv

\* Every step preserves the counts, where no source returns more than the
\* store of seen URLs holds.
LEMMA StepCount ==
  ASSUME \A f \in Found : Len(f) <= DedupSize, CountInv, [Next]_vars
  PROVE  CountInv'
<1>1. IInv'
  BY StepInv DEF CountInv
<1>2. CASE UNCHANGED vars
  <2>1. TypeOK /\ \A o \in Writer : Local(o) /\ Framed(o) /\ seen'[o] = seen[o]
    BY <1>2 DEF CountInv, IInv, vars, Framed
  <2>2. \A o \in Writer : \A n \in 1 .. Sources : StoredBy(<<o, n>>)' = StoredBy(<<o, n>>)
    BY <1>2 DEF vars, StoredBy
  <2>3. \A o \in Writer : Tally(o)' /\ Settled(o)'
    BY <2>1, <2>2, TallyFramed DEF CountInv
  <2> QED
    BY <1>1, <2>3 DEF CountInv
<1>3. ASSUME NEW w \in Writer, Step(w) \/ FailArticle(w) \/ CommitFails(w) \/ Crash(w)
      PROVE  CountInv'
  <2>1. Tally(w)' /\ Settled(w)'
    BY <1>3, FilterTally, SaveTally, EndTally DEF Step
  <2>2. \A o \in Writer : o # w => Tally(o)' /\ Settled(o)'
    BY <1>3, OthersTally
  <2> QED
    BY <1>1, <2>1, <2>2 DEF CountInv
<1> QED
  BY <1>2, <1>3 DEF Next

\* The count a successful run records is off by no more than what rollbacks
\* took back, provided a source never returns more articles than DedupStore
\* remembers: beyond that the store forgets URLs of the batch it is filtering,
\* one may be kept twice, and if both are taken back it was counted twice.
THEOREM CountSafe ==
  ASSUME \A f \in Found : Len(f) <= DedupSize
  PROVE  Spec => []CountAccounted
<1>1. CountInv => CountAccounted
  <2> SUFFICES ASSUME CountInv, NEW r \in Run, runs[r].status = "success"
               PROVE  Counted(StoredBy(r), lost[r], runs[r].inserted)
    BY DEF CountAccounted, Counted
  <2>1. PICK w \in Writer, n \in 1 .. Sources : r = <<w, n>>
    BY DEF Run
  <2> QED
    BY <2>1 DEF CountInv, Settled
<1>2. CountInv /\ [Next]_vars => CountInv'
  BY StepCount
<1> QED
  BY <1>1, <1>2, InitCount, PTL DEF Spec

=============================================================================
