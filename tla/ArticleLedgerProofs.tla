------------------------- MODULE ArticleLedgerProofs -------------------------
(***************************************************************************)
(* RawArticleStore implements ArticleLedger, and its writers do not wait   *)
(* for each other for ever; for any number of writers, sources and URLs,   *)
(* on either schema.                                                       *)
(*                                                                         *)
(* A commit is the step that registers a batch.  That it finds the run     *)
(* without links, and every link of the batch honest at that moment, was   *)
(* settled while the transaction was open: ReportInv says so on top of     *)
(* IInv.                                                                   *)
(*                                                                         *)
(* WritersReturn rests on two facts: some writer can go on until all have  *)
(* returned (NoWaitForever), and every step brings its writer closer to    *)
(* its return in a well-founded order (WorkShrinks).  Both are proved      *)
(* here; what fairness makes of them is left to TLC.                       *)
(***************************************************************************)
EXTENDS RawArticleStoreProofs

\* A URL has one link, to a row of this transaction or a stored one.
Reported(w) ==
  /\ \A l, m \in call[w].links : l[1] = m[1] => l = m
  /\ \A l \in call[w].links : l[1] \in call[w].new \/ rows[l[1]] # NoRow

\* A run has no links before its commit.
Unlinked(w) ==
  /\ \A n \in 1 .. Sources : n > call[w].source => links[<<w, n>>] = {}
  /\ pc[w] \in {"filter", "save"} => links[RunOf(w)] = {}

ReportInv == IInv /\ \A w \in Writer : Reported(w) /\ Unlinked(w)

-----------------------------------------------------------------------------
(* The invariant *)

\* Rows stay.
LEMMA RowsStay ==
  ASSUME IInv, NEW w \in Writer, Step(w) \/ FailArticle(w) \/ CommitFails(w) \/ Crash(w)
  PROVE  \A u \in Url : rows[u] # NoRow => rows'[u] = rows[u]
<1>1. CASE AtEnd(w) /\ Durable(w)
  BY <1>1, DurableFacts
<1>2. CASE rows' = rows
  BY <1>2
<1> QED
  BY <1>1, <1>2 DEF Step, StartSource, FilterArticle, StartSave, SkipInvalid, LegacyFallback,
     SaveArticle, DeadlockVictim, Commit, IndexRows, MarkSuccess, FailArticle, CommitFails, Crash

\* A writer's part survives the steps of the others.
LEMMA ReportFramed ==
  ASSUME TypeOK, NEW o \in Writer, Local(o), Reported(o), Unlinked(o), Framed(o),
         \A u \in Url : rows[u] # NoRow => rows'[u] = rows[u]
  PROVE  Reported(o)' /\ Unlinked(o)'
<1>1. call[o] \in Call /\ call'[o] = call[o] /\ pc'[o] = pc[o]
  BY DEF TypeOK, Framed
<1>2. \A l \in call[o].links : l[1] \in Url
  BY <1>1 DEF Call
<1>3. Reported(o)'
  BY <1>1, <1>2 DEF Reported
<1>4. pc[o] \in {"filter", "save"} => call[o].source \in 1 .. Sources
  BY DEF Local, RunState
<1>5. Unlinked(o)'
  BY <1>1, <1>4 DEF Unlinked, Framed, RunOf
<1> QED
  BY <1>3, <1>5

\* What a step leaves w with, when its transaction is empty afterwards.
LEMMA EmptyReport ==
  ASSUME NEW w \in Writer, call'[w].links = {}
  PROVE  Reported(w)'
BY DEF Reported

\* A step that writes no links keeps the runs of w unlinked.
LEMMA StayUnlinked ==
  ASSUME NEW w \in Writer, Unlinked(w), links' = links,
         call'[w].source = call[w].source,
         pc'[w] \in {"filter", "save"} => pc[w] \in {"filter", "save"}
  PROVE  Unlinked(w)'
<1>1. RunOf(w)' = RunOf(w)
  BY DEF RunOf
<1> QED
  BY <1>1 DEF Unlinked

\* The steps of w before its first article.
LEMMA OpeningReport ==
  ASSUME ReportInv, NEW w \in Writer, StartSource(w) \/ FilterArticle(w) \/ StartSave(w)
  PROVE  Reported(w)' /\ Unlinked(w)'
<1>1. call[w] \in Call /\ RunState(w) /\ OpenTransaction(w) /\ Unlinked(w) /\ links' = links
  BY DEF ReportInv, IInv, TypeOK, Local, StartSource, FilterArticle, StartSave
<1>2. CASE StartSource(w)
  <2> DEFINE n == call[w].source + 1
  <2>1. PICK found \in Found : call' = [call EXCEPT ![w] = NewCall(n, found)]
    BY <1>2 DEF StartSource
  <2>2. n \in 1 .. Sources /\ n \in 0 .. Sources /\ n > call[w].source
    BY <1>1, <1>2, <2>1, StoreAssumption DEF StartSource, Call
  <2>3. call'[w].source = n /\ call'[w].links = {}
    BY <2>1, <2>2, NewCallFacts DEF ReportInv, IInv, TypeOK
  <2>4. links[<<w, n>>] = {} /\ \A m \in 1 .. Sources : m > n => links[<<w, m>>] = {}
    BY <1>1, <2>2 DEF Unlinked, Call
  <2>5. Unlinked(w)'
    BY <1>1, <2>3, <2>4 DEF Unlinked, RunOf
  <2> QED
    BY <2>3, <2>5, EmptyReport
<1>3. CASE FilterArticle(w)
  <2>1. call'[w].source = call[w].source /\ call'[w].links = call[w].links /\ pc' = pc
    BY <1>1, <1>3 DEF FilterArticle, ReportInv, IInv, TypeOK, Call
  <2>2. call'[w].links = {}
    BY <1>1, <1>3, <2>1 DEF FilterArticle, OpenTransaction
  <2> QED
    BY <1>1, <2>1, <2>2, EmptyReport, StayUnlinked
<1>4. CASE StartSave(w)
  <2>1. call' = call /\ pc[w] = "filter" /\ call[w].links = {}
    BY <1>1, <1>4 DEF StartSave, OpenTransaction
  <2> QED
    BY <1>1, <2>1, EmptyReport, StayUnlinked
<1> QED
  BY <1>2, <1>3, <1>4

\* The steps of w on an article.
LEMMA SavingReport ==
  ASSUME ReportInv, NEW w \in Writer,
         SkipInvalid(w) \/ LegacyFallback(w) \/ SaveArticle(w) \/ DeadlockVictim(w) \/ FailArticle(w)
  PROVE  Reported(w)' /\ Unlinked(w)'
<1>1. /\ call[w] \in Call /\ Reported(w) /\ Unlinked(w) /\ TypeOK
      /\ links' = links /\ rows' = rows /\ pc' = pc
  BY DEF ReportInv, IInv, TypeOK, SkipInvalid, LegacyFallback, SaveArticle, DeadlockVictim,
     FailArticle
<1>2. CASE SkipInvalid(w)
  <2>1. /\ call'[w].source = call[w].source /\ call'[w].links = call[w].links
        /\ call'[w].new = call[w].new
    BY <1>1, <1>2 DEF SkipInvalid, TypeOK, Call
  <2> QED
    BY <1>1, <2>1, StayUnlinked DEF Reported
<1>3. CASE LegacyFallback(w)
  <2>1. call'[w] = [RolledBack(call[w]) EXCEPT !.fallback = TRUE]
    BY <1>1, <1>3 DEF LegacyFallback, TypeOK
  <2>2. call'[w].source = call[w].source /\ call'[w].links = {}
    BY <1>1, <2>1, RolledBackFacts DEF Call
  <2> QED
    BY <1>1, <2>2, EmptyReport, StayUnlinked
<1>4. CASE DeadlockVictim(w) \/ FailArticle(w)
  <2>1. PICK counted \in {0, 1} : DropTransaction(w, counted)
    BY <1>4 DEF DeadlockVictim, FailArticle
  <2>2. call'[w] = Dropped(call[w], counted)
    BY <1>1, <2>1 DEF DropTransaction, TypeOK
  <2>3. call'[w].source = call[w].source /\ call'[w].links = {}
    BY <1>1, <2>2, DroppedFacts
  <2> QED
    BY <1>1, <2>3, EmptyReport, StayUnlinked
<1>5. CASE SaveArticle(w)
  <2>1. PICK u \in Url, isNew \in BOOLEAN : u = Current(w) /\ isNew = IsNew(w)
    BY <1>1, <1>5, CurrentFacts DEF SaveArticle, IsNew
  <2>2. PICK c : c = Saved(call[w], u, isNew)
    OBVIOUS
  <2>3. /\ c.source = call[w].source
        /\ isNew => /\ c.new = call[w].new \cup {u}
                    /\ c.links = {l \in call[w].links : l[1] # u} \cup {<<u, "inserted">>}
        /\ ~isNew => /\ c.new = call[w].new
                     /\ c.links = {l \in call[w].links : l[1] # u} \cup {<<u, "duplicate">>}
    BY <1>1, <2>2, SavedFacts
  <2>4. call'[w] = c
    BY <1>1, <1>5, <2>1, <2>2 DEF SaveArticle, TypeOK
  <2>5. \A l \in c.links : l[1] = u \/ l \in call[w].links
    BY <2>3
  <2>6. \A l, m \in c.links : l[1] = m[1] => l = m
    <3>1. PICK action : c.links = {l \in call[w].links : l[1] # u} \cup {<<u, action>>}
      BY <2>3
    <3>2. <<u, action>>[1] = u
      OBVIOUS
    <3> QED
      BY <1>1, <3>1, <3>2 DEF Reported
  <2>7. u \in c.new \/ rows[u] # NoRow
    BY <2>1, <2>3 DEF IsNew
  <2>8. \A l \in c.links : l[1] \in c.new \/ rows[l[1]] # NoRow
    <3>1. \A l \in call[w].links : l[1] \in c.new \/ rows[l[1]] # NoRow
      BY <1>1, <2>3 DEF Reported
    <3> QED
      BY <2>5, <2>7, <3>1
  <2> QED
    BY <1>1, <2>3, <2>4, <2>6, <2>8, StayUnlinked DEF Reported
<1> QED
  BY <1>2, <1>3, <1>4, <1>5

\* The steps of w from the commit on.
LEMMA ClosingReport ==
  ASSUME ReportInv, NEW w \in Writer,
         Commit(w) \/ CommitFails(w) \/ IndexRows(w) \/ MarkSuccess(w) \/ Crash(w)
  PROVE  Reported(w)' /\ Unlinked(w)'
<1>1. /\ call[w] \in Call /\ RunState(w) /\ OpenTransaction(w) /\ Unlinked(w) /\ Reported(w)
      /\ TypeOK /\ IInv
  BY DEF ReportInv, IInv, TypeOK, Local
<1>2. CASE Commit(w) \/ CommitFails(w)
  <2>1. /\ AtEnd(w) /\ pc[w] = "save" /\ pc'[w] \in {"index", "raised"}
        /\ call'[w] = RolledBack(call[w])
    BY <1>1, <1>2 DEF Commit, CommitFails, AtEnd, TypeOK
  <2>2. call'[w].source = call[w].source /\ call'[w].links = {}
    BY <1>1, <2>1, RolledBackFacts
  <2>3. ASSUME NEW n \in 1 .. Sources, n > call[w].source
        PROVE  links'[<<w, n>>] = {}
    <3>1. <<w, n>> \in Run /\ <<w, n>> # RunOf(w)
      BY <1>1, <2>3 DEF Run, RunOf, Call
    <3>2. CASE Durable(w)
      BY <1>1, <2>1, <2>3, <3>1, <3>2, DurableFacts DEF Unlinked
    <3>3. CASE links' = links
      BY <1>1, <2>3, <3>3 DEF Unlinked
    <3> QED
      BY <1>2, <3>2, <3>3 DEF Commit, CommitFails
  <2>4. Unlinked(w)'
    BY <2>1, <2>2, <2>3 DEF Unlinked
  <2> QED
    BY <2>2, <2>4, EmptyReport
<1>3. CASE IndexRows(w) \/ MarkSuccess(w)
  <2>1. /\ call' = call /\ links' = links /\ rows' = rows
        /\ pc[w] \in {"index", "mark"} /\ pc'[w] \in {"mark", "idle"}
    BY <1>1, <1>3 DEF IndexRows, MarkSuccess, TypeOK
  <2>2. call[w].links = {}
    BY <1>1, <2>1 DEF OpenTransaction
  <2> QED
    BY <1>1, <2>1, <2>2, EmptyReport, StayUnlinked
<1>4. CASE Crash(w)
  <2>1. call'[w] = RolledBack(call[w]) /\ pc'[w] = "dead" /\ links' = links
    BY <1>1, <1>4 DEF Crash, TypeOK
  <2>2. call'[w].source = call[w].source /\ call'[w].links = {}
    BY <1>1, <2>1, RolledBackFacts
  <2> QED
    BY <1>1, <2>1, <2>2, EmptyReport, StayUnlinked
<1> QED
  BY <1>2, <1>3, <1>4

\* It holds at the start, and every step keeps it.
LEMMA InitReport == Init => ReportInv
<1> SUFFICES ASSUME Init PROVE ReportInv
  OBVIOUS
<1>1. IInv
  BY InitInv
<1>2. ASSUME NEW w \in Writer PROVE Reported(w) /\ Unlinked(w)
  BY DEF Init, Reported, Unlinked, NoCall, Run
<1> QED
  BY <1>1, <1>2 DEF ReportInv

LEMMA StepReport == ReportInv /\ [Next]_vars => ReportInv'
<1> SUFFICES ASSUME ReportInv, [Next]_vars PROVE ReportInv'
  OBVIOUS
<1>1. IInv'
  BY StepInv DEF ReportInv
<1>2. CASE UNCHANGED vars
  BY <1>1, <1>2 DEF vars, ReportInv, Reported, Unlinked, RunOf
<1>3. ASSUME NEW w \in Writer, Step(w) \/ FailArticle(w) \/ CommitFails(w) \/ Crash(w)
      PROVE  ReportInv'
  <2>1. Reported(w)' /\ Unlinked(w)'
    BY <1>3, OpeningReport, SavingReport, ClosingReport DEF Step
  <2>2. ASSUME NEW o \in Writer, o # w PROVE Reported(o)' /\ Unlinked(o)'
    <3>1. Framed(o)
      BY <1>3, <2>2, QuietSteps, SaveStep, DropSteps, EndSteps DEF Step, Kept, ReportInv
    <3> QED
      BY <1>3, <3>1, RowsStay, ReportFramed DEF ReportInv, IInv
  <2> QED
    BY <1>1, <2>1, <2>2 DEF ReportInv
<1> QED
  BY <1>2, <1>3 DEF Next

-----------------------------------------------------------------------------
(* The refinement *)

\* A commit registers the batch of its writer's run, whatever the run becomes.
LEMMA CommitRegisters ==
  ASSUME ReportInv, NEW w \in Writer, AtEnd(w), Durable(w), vdb' = vdb,
         \/ runs' = runs
         \/ runs' = [runs EXCEPT ![RunOf(w)].status = "failed"]
  PROVE  Ledger!Next
<1>1. /\ call[w] \in Call /\ RunState(w) /\ OpenTransaction(w) /\ Unlinked(w) /\ Reported(w)
      /\ TypeOK /\ pc[w] = "save" /\ RunOf(w) \in Run
  BY RunOfFacts DEF ReportInv, IInv, TypeOK, Local, AtEnd
<1>2. PICK r, new, report : r = RunOf(w) /\ new = call[w].new /\ report = call[w].links
  OBVIOUS
<1>3. r \in Run /\ runs[r].status = "running" /\ links[r] = {}
  BY <1>1, <1>2 DEF RunState, Active, Unlinked
<1>4. /\ new \in SUBSET (Url \ Ledger!Stored)
      /\ report \in SUBSET (Url \X {"inserted", "duplicate"})
  BY <1>1, <1>2 DEF OpenTransaction, Ledger!Stored, Call
<1>5. Ledger!Honest(report, new)
  <2>1. \A l \in report : l[1] \in Url
    BY <1>4
  <2> QED
    BY <1>1, <1>2, <2>1 DEF Ledger!Honest, Ledger!Stored, OpenTransaction, Reported
<1>6. /\ rows' = [u \in Url |-> IF u \in new THEN r ELSE rows[u]]
      /\ links' = [links EXCEPT ![r] = report]
  <2>1. links' = [links EXCEPT ![r] = links[r] \cup report]
    BY <1>2 DEF Durable
  <2> QED
    BY <1>2, <1>3, <2>1 DEF Durable
<1>7. PICK s : s = [q \in Run |-> runs[q].status]
  OBVIOUS
<1>8. \/ [q \in Run |-> runs'[q].status] = s
      \/ [q \in Run |-> runs'[q].status] = [s EXCEPT ![r] = "failed"]
  <2>1. CASE runs' = runs
    BY <1>7, <2>1
  <2>2. CASE runs' = [runs EXCEPT ![r].status = "failed"]
    <3>1. runs'[r].status = "failed" /\ \A q \in Run : q # r => runs'[q] = runs[q]
      BY <1>1, <1>3, <2>2 DEF TypeOK, RunRow
    <3> QED
      BY <1>3, <1>7, <3>1
  <2> QED
    BY <1>2, <2>1, <2>2
<1>9. s[r] = "running"
  BY <1>3, <1>7
<1>10. Ledger!Register(r)
  BY <1>3, <1>4, <1>5, <1>6, <1>7, <1>8, <1>9 DEF Ledger!Register
<1> QED
  BY <1>3, <1>10 DEF Ledger!Next

\* A run that only changes its status is opened or settled.
LEMMA StatusStep ==
  ASSUME TypeOK, NEW r \in Run, UNCHANGED <<rows, links, vdb>>,
         NEW row \in RunRow, runs' = [runs EXCEPT ![r] = row],
         \/ runs[r].status = "none" /\ row.status = "running"
         \/ runs[r].status = "running" /\ row.status \in {"success", "failed"}
  PROVE  Ledger!Next
<1>1. PICK s : s = [q \in Run |-> runs[q].status]
  OBVIOUS
<1>2. runs'[r] = row /\ \A q \in Run : q # r => runs'[q] = runs[q]
  BY DEF TypeOK
<1>3. [q \in Run |-> runs'[q].status] = [s EXCEPT ![r] = row.status]
  BY <1>1, <1>2
<1>4. s[r] = runs[r].status
  BY <1>1
<1>5. Ledger!Open(r) \/ Ledger!Settle(r)
  BY <1>1, <1>3, <1>4 DEF Ledger!Open, Ledger!Settle
<1> QED
  BY <1>5 DEF Ledger!Next

\* Every step of a writer is a step of the ledger, or none.
LEMMA StepImplements ==
  ReportInv /\ [Next]_vars => [Ledger!Next]_(Ledger!vars)
<1> SUFFICES ASSUME ReportInv, [Next]_vars PROVE [Ledger!Next]_(Ledger!vars)
  OBVIOUS
<1>1. ASSUME UNCHANGED <<rows, links, runs, vdb>> PROVE UNCHANGED Ledger!vars
  BY <1>1 DEF Ledger!vars
<1>2. CASE UNCHANGED vars
  BY <1>1, <1>2 DEF vars
<1>3. ASSUME NEW w \in Writer, Step(w) \/ FailArticle(w) \/ CommitFails(w) \/ Crash(w)
      PROVE  [Ledger!Next]_(Ledger!vars)
  <2>1. TypeOK /\ RunState(w) /\ call[w] \in Call
    BY DEF ReportInv, IInv, Local, TypeOK
  <2>2. CASE StartSource(w)
    <3>1. PICK r : r = <<w, call[w].source + 1>>
      OBVIOUS
    <3>2. r \in Run /\ runs[r].status = "none" /\ runs[r] \in RunRow
      <4>1. call[w].source + 1 \in 1 .. Sources /\ call[w].source + 1 > call[w].source
        BY <2>1, <2>2, StoreAssumption DEF StartSource, Call
      <4> QED
        BY <2>1, <3>1, <4>1 DEF RunState, Run, TypeOK
    <3>3. PICK row : row = [runs[r] EXCEPT !.status = "running"]
      OBVIOUS
    <3>4. row \in RunRow /\ row.status = "running"
      BY <3>2, <3>3 DEF RunRow
    <3>5. runs' = [runs EXCEPT ![r] = row] /\ UNCHANGED <<rows, links, vdb>>
      BY <2>2, <3>1, <3>3 DEF StartSource
    <3> QED
      BY <2>1, <3>2, <3>4, <3>5, StatusStep
  <2>3. CASE Commit(w)
    BY <2>3, CommitRegisters DEF Commit
  <2>4. CASE CommitFails(w)
    <3>1. PICK r : r = RunOf(w)
      OBVIOUS
    <3>2. /\ r \in Run /\ runs[r] \in RunRow /\ runs[r].status = "running" /\ AtEnd(w)
      BY <2>1, <2>4, <3>1, RunOfFacts DEF CommitFails, AtEnd, RunState, Active, TypeOK
    <3>3. CASE Durable(w)
      BY <2>4, <3>2, <3>3, CommitRegisters DEF CommitFails
    <3>4. CASE UNCHANGED <<rows, links>>
      <4>1. PICK row : row = [runs[r] EXCEPT !.status = "failed"]
        OBVIOUS
      <4>2. row \in RunRow /\ row.status = "failed"
        BY <3>2, <4>1 DEF RunRow
      <4>3. runs' = [runs EXCEPT ![r] = row] /\ UNCHANGED <<rows, links, vdb>>
        BY <2>4, <3>1, <3>4, <4>1 DEF CommitFails
      <4> QED
        BY <2>1, <3>2, <4>2, <4>3, StatusStep
    <3> QED
      BY <2>4, <3>3, <3>4 DEF CommitFails
  <2>5. CASE IndexRows(w)
    <3>1. call[w].ids \subseteq Url
      BY <2>1 DEF Call
    <3>2. \/ vdb' = vdb \cup {u \in call[w].ids : rows[u] # NoRow}
          \/ vdb' = vdb \cup {}
      BY <2>5 DEF IndexRows
    <3>3. \E S \in SUBSET Ledger!Stored : vdb' = vdb \cup S
      BY <3>1, <3>2 DEF Ledger!Stored
    <3>4. Ledger!Index
      BY <2>5, <3>3 DEF IndexRows, Ledger!Index
    <3> QED
      BY <3>4 DEF Ledger!Next
  <2>6. CASE MarkSuccess(w)
    <3>1. PICK r : r = RunOf(w)
      OBVIOUS
    <3>2. r \in Run /\ runs[r].status = "running"
      BY <2>1, <2>6, <3>1, RunOfFacts DEF MarkSuccess, RunState, Active
    <3>3. PICK row : row = [status |-> "success", inserted |-> call[w].inserted,
                            skipped |-> Len(call[w].batch) - call[w].inserted]
      OBVIOUS
    <3>4. row \in RunRow /\ row.status = "success"
      <4>1. Len(call[w].batch) \in Nat /\ call[w].inserted \in Nat
        BY <2>1 DEF Call, Batch
      <4> QED
        BY <3>3, <4>1 DEF RunRow
    <3>5. runs' = [runs EXCEPT ![r] = row] /\ UNCHANGED <<rows, links, vdb>>
      BY <2>6, <3>1, <3>3 DEF MarkSuccess
    <3> QED
      BY <2>1, <3>2, <3>4, <3>5, StatusStep
  <2>7. CASE \/ FilterArticle(w) \/ StartSave(w) \/ SkipInvalid(w) \/ LegacyFallback(w)
             \/ SaveArticle(w) \/ DeadlockVictim(w) \/ FailArticle(w) \/ Crash(w)
    BY <1>1, <2>7 DEF FilterArticle, StartSave, SkipInvalid, LegacyFallback, SaveArticle,
       DeadlockVictim, FailArticle, Crash
  <2> QED
    BY <1>3, <2>2, <2>3, <2>4, <2>5, <2>6, <2>7 DEF Step
<1> QED
  BY <1>2, <1>3 DEF Next

\* Writers whose transactions overlap, wait, are rolled back or die store
\* their batches as if each were registered in one step.
THEOREM Implementation == Spec => ImplementsLedger
<1>1. Init => Ledger!Init
  BY DEF Init, Ledger!Init
<1> QED
  BY <1>1, InitReport, StepReport, StepImplements, PTL DEF Spec, ImplementsLedger, Ledger!Spec

-----------------------------------------------------------------------------
(* No writer waits for ever *)

\* w got through its sources, or an exception or a crash stopped it.
Returned(w) ==
  \/ pc[w] \in {"raised", "dead"}
  \/ pc[w] = "idle" /\ call[w].source = Sources

\* The guards of Step(w).
CanStep(w) ==
  \/ pc[w] = "idle" /\ call[w].source < Sources /\ Found # {}
  \/ pc[w] \in {"filter", "index", "mark"}
  \/ AtEnd(w)
  \/ Saving(w) /\ (Current(w) \in Invalid \/ legacy # call[w].fallback \/ ~Blocked(w))
  \/ InCycle(w)

\* As long as a writer has not returned, some writer can go on: whoever waits
\* waits, in the end, for a writer that is at work, or for itself.
NoWaitForever == (\A w \in Writer : Returned(w)) \/ \E w \in Writer : CanStep(w)

\* What is left of the sources of w, and of the call it is in.
SourcesLeft(w) ==
  IF pc[w] \in {"raised", "dead"} THEN 0
  ELSE IF pc[w] = "idle" THEN 2 * (Sources - call[w].source)
       ELSE 2 * (Sources - call[w].source) + 1

CallLeft(w) ==
  LET c == call[w]
  IN  CASE pc[w] = "filter" -> 4 + 3 * Len(c.found) + 2 * Len(c.batch)
        [] pc[w] = "save"   -> 5 + 2 * (Len(c.batch) - c.pos) - (IF c.fallback THEN 1 ELSE 0)
        [] pc[w] = "index"  -> 1
        [] OTHER            -> 0

WorkCounted == \A w \in Writer : SourcesLeft(w) \in Nat /\ CallLeft(w) \in Nat

\* w has less to do than before.
Closer(w) ==
  \/ SourcesLeft(w)' < SourcesLeft(w)
  \/ SourcesLeft(w)' = SourcesLeft(w) /\ CallLeft(w)' < CallLeft(w)

\* Every step, a failure or a crash as well, leaves its writer less to do and
\* the others as much as before: nothing is tried twice.
WorkShrinks ==
  [][\E w \in Writer :
       /\ Closer(w)
       /\ \A o \in Writer : o # w => pc'[o] = pc[o] /\ call'[o] = call[o]]_vars

\* An open transaction is in a save, on an article or behind the last one, and
\* only a legacy schema makes it repeat the INSERT.
Within(w) ==
  /\ pc[w] # "save" => call[w].locked = {}
  /\ pc[w] = "save" => call[w].pos <= Len(call[w].batch) + 1
  /\ call[w].fallback => legacy

WorkInv == IInv /\ \A w \in Writer : Within(w)

\* What an action of w leaves of the others' calls.
LEMMA OneMoves ==
  ASSUME TypeOK, NEW w \in Writer, Step(w) \/ FailArticle(w) \/ CommitFails(w) \/ Crash(w)
  PROVE  \A o \in Writer : o # w => pc'[o] = pc[o] /\ call'[o] = call[o]
BY DEF TypeOK, Step, StartSource, FilterArticle, StartSave, SkipInvalid, LegacyFallback,
   SaveArticle, DeadlockVictim, Commit, IndexRows, MarkSuccess, FailArticle, CommitFails, Crash,
   DropTransaction

\* The call after an article, whatever became of it.
LEMMA ArticleDone ==
  ASSUME TypeOK, NEW w \in Writer,
         SkipInvalid(w) \/ SaveArticle(w) \/ DeadlockVictim(w) \/ FailArticle(w)
  PROVE  /\ Saving(w) /\ pc'[w] = "save"
         /\ call'[w].source = call[w].source /\ call'[w].batch = call[w].batch
         /\ call'[w].pos = call[w].pos + 1
         /\ call'[w].fallback => call[w].fallback
<1>1. call[w] \in Call /\ pc' = pc
  BY DEF TypeOK, SkipInvalid, SaveArticle, DeadlockVictim, FailArticle
<1>2. Saving(w) /\ pc[w] = "save"
  BY DEF SkipInvalid, SaveArticle, DeadlockVictim, FailArticle, InCycle, WaitsFor, Saving
<1>3. CASE SkipInvalid(w)
  BY <1>1, <1>2, <1>3 DEF SkipInvalid, TypeOK, Call
<1>4. CASE SaveArticle(w)
  <2>1. PICK u \in Url, isNew \in BOOLEAN : u = Current(w) /\ isNew = IsNew(w)
    BY <1>2, CurrentFacts DEF IsNew
  <2>2. call'[w] = Saved(call[w], u, isNew)
    BY <1>4, <2>1 DEF SaveArticle, TypeOK
  <2>3. Saved(call[w], u, isNew).fallback = FALSE
    BY <1>1 DEF Saved, Call
  <2> QED
    BY <1>1, <1>2, <2>2, <2>3, SavedFacts
<1>5. CASE DeadlockVictim(w) \/ FailArticle(w)
  <2>1. PICK counted \in {0, 1} : DropTransaction(w, counted)
    BY <1>5 DEF DeadlockVictim, FailArticle
  <2>2. call'[w] = Dropped(call[w], counted)
    BY <2>1 DEF DropTransaction, TypeOK
  <2>3. Dropped(call[w], counted).fallback = FALSE
    BY <1>1, RolledBackFacts DEF Dropped, Call
  <2> QED
    BY <1>1, <1>2, <2>2, <2>3, DroppedFacts
<1> QED
  BY <1>3, <1>4, <1>5

\* The legacy INSERT: the same article again, without the column.
LEMMA FallbackFacts ==
  ASSUME TypeOK, NEW w \in Writer, LegacyFallback(w)
  PROVE  /\ Saving(w) /\ pc'[w] = "save" /\ legacy /\ ~call[w].fallback /\ call'[w].fallback
         /\ call'[w].source = call[w].source /\ call'[w].batch = call[w].batch
         /\ call'[w].pos = call[w].pos
<1>1. call[w] \in Call /\ call'[w] = [RolledBack(call[w]) EXCEPT !.fallback = TRUE]
  BY DEF TypeOK, LegacyFallback
<1> QED
  BY <1>1, RolledBackFacts DEF LegacyFallback, Saving, Call

\* The call after the transaction of w ended.
LEMMA EndedFacts ==
  ASSUME TypeOK, NEW w \in Writer, Commit(w) \/ CommitFails(w) \/ Crash(w)
  PROVE  /\ call'[w] = RolledBack(call[w]) /\ call'[w].source = call[w].source
         /\ call'[w].locked = {} /\ call'[w].fallback = call[w].fallback
         /\ pc'[w] = IF Commit(w) THEN "index" ELSE IF CommitFails(w) THEN "raised" ELSE "dead"
<1>1. call[w] \in Call /\ call'[w] = RolledBack(call[w])
  BY DEF TypeOK, Commit, CommitFails, Crash
<1>2. /\ Commit(w) => pc'[w] = "index"
      /\ CommitFails(w) => pc'[w] = "raised"
      /\ Crash(w) => pc'[w] = "dead"
  BY DEF TypeOK, Commit, CommitFails, Crash
<1> QED
  BY <1>1, <1>2, RolledBackFacts DEF RolledBack, Call

\* The call of the next source.
LEMMA OpenedFacts ==
  ASSUME TypeOK, NEW w \in Writer, StartSource(w)
  PROVE  /\ call'[w].source = call[w].source + 1 /\ call'[w].pos = 1
         /\ call'[w].locked = {} /\ ~call'[w].fallback
         /\ pc[w] = "idle" /\ pc'[w] = "filter" /\ call[w].source < Sources
<1>1. PICK found \in Found : call'[w] = NewCall(call[w].source + 1, found)
  BY DEF StartSource, TypeOK
<1>2. call[w].source + 1 \in 0 .. Sources
  BY StoreAssumption DEF StartSource, TypeOK, Call
<1>3. NewCall(call[w].source + 1, found) \in Call
  BY <1>2, NewCallFacts
<1> QED
  BY <1>1, <1>2, <1>3, NewCallFacts DEF StartSource, TypeOK, NewCall, NoCall

\* One article less to filter, and at most one more to save.
LEMMA FilterFacts ==
  ASSUME TypeOK, NEW w \in Writer, FilterArticle(w)
  PROVE  /\ call'[w].source = call[w].source /\ call'[w].locked = call[w].locked
         /\ call'[w].fallback = call[w].fallback /\ pc'[w] = "filter" /\ pc[w] = "filter"
         /\ Len(call[w].found) \in Nat \ {0} /\ Len(call'[w].found) = Len(call[w].found) - 1
         /\ Len(call[w].batch) \in Nat
         /\ Len(call'[w].batch) \in {Len(call[w].batch), Len(call[w].batch) + 1}
<1>1. call[w] \in Call /\ call[w].found \in Seq(Url) /\ call[w].batch \in Seq(Url)
      /\ call[w].found # <<>>
  BY DEF TypeOK, Call, Batch, FilterArticle
<1>2. PICK u : u = Head(call[w].found)
  OBVIOUS
<1>3. u \in Url /\ Len(Tail(call[w].found)) = Len(call[w].found) - 1
      /\ Len(call[w].found) \in Nat \ {0}
  BY <1>1, <1>2
<1>4. Len(call[w].batch) \in Nat /\ Len(Append(call[w].batch, u)) = Len(call[w].batch) + 1
  BY <1>1, <1>3
<1>5. CASE call' = [call EXCEPT ![w].found = Tail(@)]
  <2>1. call'[w] = [call[w] EXCEPT !.found = Tail(call[w].found)]
    BY <1>5 DEF TypeOK
  <2> QED
    BY <1>1, <1>3, <1>4, <2>1 DEF Call, FilterArticle
<1>6. CASE call' = [call EXCEPT ![w].found = Tail(@), ![w].batch = Append(@, u)]
  <2>1. call'[w] = [call[w] EXCEPT !.found = Tail(call[w].found),
                                   !.batch = Append(call[w].batch, u)]
    BY <1>6 DEF TypeOK
  <2> QED
    BY <1>1, <1>3, <1>4, <2>1 DEF Call, FilterArticle
<1> QED
  BY <1>2, <1>5, <1>6 DEF FilterArticle

\* The bounds of an open call hold at the start, and every step keeps them.
LEMMA InitWork == Init => WorkInv
<1> SUFFICES ASSUME Init PROVE WorkInv
  OBVIOUS
<1>1. IInv
  BY InitInv
<1>2. \A w \in Writer : Within(w)
  BY DEF Init, Within, NoCall
<1> QED
  BY <1>1, <1>2 DEF WorkInv

LEMMA StepWork == WorkInv /\ [Next]_vars => WorkInv'
<1> SUFFICES ASSUME WorkInv, [Next]_vars PROVE WorkInv'
  OBVIOUS
<1>1. IInv'
  BY StepInv DEF WorkInv
<1>2. CASE UNCHANGED vars
  BY <1>1, <1>2 DEF vars, WorkInv, Within
<1>3. ASSUME NEW w \in Writer, Step(w) \/ FailArticle(w) \/ CommitFails(w) \/ Crash(w)
      PROVE  WorkInv'
  <2>1. TypeOK /\ call[w] \in Call /\ Within(w) /\ Progress(w) /\ legacy' = legacy
    <3>1. legacy' = legacy
      BY <1>3 DEF Step, StartSource, FilterArticle, StartSave, SkipInvalid, LegacyFallback,
         SaveArticle, DeadlockVictim, Commit, IndexRows, MarkSuccess, FailArticle, CommitFails, Crash
    <3> QED
      BY <3>1 DEF WorkInv, IInv, TypeOK, Local
  <2>2. call[w].pos \in Nat /\ Len(call[w].batch) \in Nat
    BY <2>1 DEF Call, Batch
  <2>3. ASSUME NEW o \in Writer, o # w PROVE Within(o)'
    BY <1>3, <2>1, <2>3, OneMoves DEF WorkInv, Within
  <2>4. Within(w)'
    <3>1. CASE StartSource(w)
      BY <2>1, <3>1, OpenedFacts DEF Within
    <3>2. CASE FilterArticle(w)
      BY <2>1, <3>2, FilterFacts DEF Within
    <3>3. CASE StartSave(w)
      BY <2>1, <2>2, <3>3 DEF Within, Progress, StartSave, TypeOK
    <3>4. CASE SkipInvalid(w) \/ SaveArticle(w) \/ DeadlockVictim(w) \/ FailArticle(w)
      BY <2>1, <2>2, <3>4, ArticleDone DEF Within, Saving
    <3>5. CASE LegacyFallback(w)
      BY <2>1, <2>2, <3>5, FallbackFacts DEF Within, Saving
    <3>6. CASE Commit(w) \/ CommitFails(w) \/ Crash(w)
      BY <2>1, <3>6, EndedFacts DEF Within
    <3>7. CASE IndexRows(w) \/ MarkSuccess(w)
      BY <2>1, <3>7 DEF Within, IndexRows, MarkSuccess, TypeOK
    <3> QED
      BY <1>3, <3>1, <3>2, <3>3, <3>4, <3>5, <3>6, <3>7 DEF Step
  <2> QED
    BY <1>1, <2>3, <2>4 DEF WorkInv
<1> QED
  BY <1>2, <1>3 DEF Next

\* The measures are numbers.
LEMMA LeftType ==
  ASSUME WorkInv, NEW w \in Writer
  PROVE  SourcesLeft(w) \in Nat /\ CallLeft(w) \in Nat
<1>1. /\ call[w] \in Call /\ Within(w)
      /\ pc[w] \in {"idle", "filter", "save", "index", "mark", "raised", "dead"}
  BY DEF WorkInv, IInv, TypeOK
<1>2. PICK n, m, p, s \in Nat : /\ n = Len(call[w].batch) /\ m = Len(call[w].found)
                                /\ p = call[w].pos /\ s = call[w].source /\ s <= Sources
  <2>1. /\ Len(call[w].batch) \in Nat /\ Len(call[w].found) \in Nat /\ call[w].pos \in Nat
        /\ call[w].source \in Nat /\ call[w].source <= Sources
    BY <1>1, StoreAssumption DEF Call, Batch
  <2> QED
    BY <2>1
<1>3. SourcesLeft(w) \in Nat
  BY <1>2, StoreAssumption DEF SourcesLeft
<1>4. CallLeft(w) \in Nat
  <2>1. CASE pc[w] = "filter"
    <3>1. CallLeft(w) = 4 + 3 * m + 2 * n
      BY <1>2, <2>1 DEF CallLeft
    <3> QED
      BY <3>1
  <2>2. CASE pc[w] = "save"
    <3>1. CallLeft(w) = 5 + 2 * (n - p) - (IF call[w].fallback THEN 1 ELSE 0)
      BY <1>2, <2>2 DEF CallLeft
    <3>2. p <= n + 1
      BY <1>1, <1>2, <2>2 DEF Within
    <3> QED
      BY <3>1, <3>2
  <2>3. CASE pc[w] \notin {"filter", "save"}
    BY <2>3 DEF CallLeft
  <2> QED
    BY <2>1, <2>2, <2>3
<1> QED
  BY <1>3, <1>4

\* Every step of a writer is one step closer to its return.
LEMMA StepShrinks ==
  ASSUME WorkInv, NEW w \in Writer,
         Step(w) \/ FailArticle(w) \/ CommitFails(w) \/ Crash(w)
  PROVE  Closer(w)
<1>1. /\ TypeOK /\ call[w] \in Call /\ RunState(w) /\ Progress(w) /\ Within(w)
      /\ pc[w] \in {"idle", "filter", "save", "index", "mark", "raised", "dead"}
  BY DEF WorkInv, IInv, TypeOK, Local
<1>2. PICK n, m, p, s \in Nat : /\ n = Len(call[w].batch) /\ m = Len(call[w].found)
                                /\ p = call[w].pos /\ s = call[w].source /\ s <= Sources
  <2>1. /\ Len(call[w].batch) \in Nat /\ Len(call[w].found) \in Nat /\ call[w].pos \in Nat
        /\ call[w].source \in Nat /\ call[w].source <= Sources
    BY <1>1, StoreAssumption DEF Call, Batch
  <2> QED
    BY <2>1
<1>3. ASSUME pc[w] \notin {"idle", "raised", "dead"}, pc'[w] \notin {"idle", "raised", "dead"},
             call'[w].source = call[w].source
      PROVE  SourcesLeft(w)' = SourcesLeft(w)
  BY <1>3 DEF SourcesLeft
<1>4. CASE StartSource(w)
  <2>1. SourcesLeft(w) = 2 * (Sources - s) /\ SourcesLeft(w)' = 2 * (Sources - (s + 1)) + 1
    BY <1>1, <1>2, <1>4, OpenedFacts DEF SourcesLeft
  <2> QED
    BY <2>1, StoreAssumption DEF Closer
<1>5. CASE FilterArticle(w)
  <2>1. SourcesLeft(w)' = SourcesLeft(w)
    BY <1>1, <1>3, <1>5, FilterFacts
  <2>2. PICK k \in Nat : /\ k = Len(call'[w].batch) /\ k \in {n, n + 1}
                         /\ Len(call'[w].found) = m - 1
    BY <1>1, <1>2, <1>5, FilterFacts
  <2>3. CallLeft(w) = 4 + 3 * m + 2 * n /\ CallLeft(w)' = 4 + 3 * (m - 1) + 2 * k
    BY <1>1, <1>2, <1>5, <2>2, FilterFacts DEF CallLeft
  <2>4. k = n \/ k = n + 1
    BY <2>2
  <2>5. 4 + 3 * (m - 1) + 2 * k < 4 + 3 * m + 2 * n
    BY <2>4
  <2> QED
    BY <2>1, <2>3, <2>5 DEF Closer
<1>6. CASE StartSave(w)
  <2>1. /\ pc[w] = "filter" /\ call' = call /\ call[w].found = <<>> /\ call[w].pos = 1
        /\ pc'[w] \in {"mark", "save"}
    BY <1>1, <1>6 DEF StartSave, TypeOK, Progress
  <2>2. CallLeft(w) = 4 + 3 * m + 2 * n
    BY <1>2, <2>1 DEF CallLeft
  <2>3. pc'[w] = "save" =>
          CallLeft(w)' = 5 + 2 * (n - 1) - (IF call[w].fallback THEN 1 ELSE 0)
    BY <1>2, <2>1 DEF CallLeft
  <2>4. pc'[w] = "mark" => CallLeft(w)' = 0
    BY DEF CallLeft
  <2>5. SourcesLeft(w)' = SourcesLeft(w)
    BY <1>3, <2>1
  <2>6. CallLeft(w)' < CallLeft(w)
    BY <2>1, <2>2, <2>3, <2>4
  <2> QED
    BY <2>5, <2>6 DEF Closer
<1>7. CASE SkipInvalid(w) \/ SaveArticle(w) \/ DeadlockVictim(w) \/ FailArticle(w)
  <2>1. /\ pc[w] = "save" /\ pc'[w] = "save" /\ call'[w].source = call[w].source
        /\ call'[w].batch = call[w].batch /\ call'[w].pos = p + 1
        /\ call'[w].fallback => call[w].fallback
    BY <1>1, <1>2, <1>7, ArticleDone DEF Saving
  <2>2. /\ CallLeft(w) = 5 + 2 * (n - p) - (IF call[w].fallback THEN 1 ELSE 0)
        /\ CallLeft(w)' = 5 + 2 * (n - (p + 1)) - (IF call'[w].fallback THEN 1 ELSE 0)
    BY <1>2, <2>1 DEF CallLeft
  <2>3. SourcesLeft(w)' = SourcesLeft(w)
    BY <1>3, <2>1
  <2>4. CallLeft(w)' < CallLeft(w)
    BY <2>2
  <2> QED
    BY <2>3, <2>4 DEF Closer
<1>8. CASE LegacyFallback(w)
  <2>1. /\ pc[w] = "save" /\ pc'[w] = "save" /\ call'[w].source = call[w].source
        /\ call'[w].batch = call[w].batch /\ call'[w].pos = p
        /\ call'[w].fallback /\ ~call[w].fallback
    BY <1>1, <1>2, <1>8, FallbackFacts DEF Saving
  <2>2. CallLeft(w) = 5 + 2 * (n - p) - 0 /\ CallLeft(w)' = 5 + 2 * (n - p) - 1
    BY <1>2, <2>1 DEF CallLeft
  <2>3. SourcesLeft(w)' = SourcesLeft(w)
    BY <1>3, <2>1
  <2>4. CallLeft(w)' < CallLeft(w)
    BY <2>2
  <2> QED
    BY <2>3, <2>4 DEF Closer
<1>9. CASE Commit(w)
  <2>1. /\ pc[w] = "save" /\ pc'[w] = "index" /\ call'[w].source = call[w].source
        /\ p <= n + 1
    BY <1>1, <1>2, <1>9, EndedFacts DEF Commit, AtEnd, Within
  <2>2. /\ CallLeft(w) = 5 + 2 * (n - p) - (IF call[w].fallback THEN 1 ELSE 0)
        /\ CallLeft(w)' = 1
    BY <1>2, <2>1 DEF CallLeft
  <2>3. SourcesLeft(w)' = SourcesLeft(w)
    BY <1>3, <2>1
  <2>4. CallLeft(w)' < CallLeft(w)
    BY <2>1, <2>2
  <2> QED
    BY <2>3, <2>4 DEF Closer
<1>10. CASE CommitFails(w) \/ Crash(w)
  <2>1. pc[w] \in Active /\ pc'[w] \in {"raised", "dead"}
    BY <1>1, <1>10 DEF CommitFails, Crash, AtEnd, Active, TypeOK
  <2>2. SourcesLeft(w)' = 0 /\ SourcesLeft(w) = 2 * (Sources - s) + 1
    BY <1>2, <2>1 DEF SourcesLeft, Active
  <2> QED
    BY <1>2, <2>2, StoreAssumption DEF Closer
<1>11. CASE IndexRows(w)
  <2>1. pc[w] = "index" /\ pc'[w] = "mark" /\ call' = call
    BY <1>1, <1>11 DEF IndexRows, TypeOK
  <2>2. CallLeft(w) = 1 /\ CallLeft(w)' = 0
    BY <2>1 DEF CallLeft
  <2>3. SourcesLeft(w)' = SourcesLeft(w)
    BY <1>3, <2>1
  <2> QED
    BY <2>2, <2>3 DEF Closer
<1>12. CASE MarkSuccess(w)
  <2>1. pc[w] = "mark" /\ pc'[w] = "idle" /\ call' = call
    BY <1>1, <1>12 DEF MarkSuccess, TypeOK
  <2>2. SourcesLeft(w) = 2 * (Sources - s) + 1 /\ SourcesLeft(w)' = 2 * (Sources - s)
    BY <1>2, <2>1 DEF SourcesLeft
  <2> QED
    BY <1>2, <2>2, StoreAssumption DEF Closer
<1> QED
  BY <1>4, <1>5, <1>6, <1>7, <1>8, <1>9, <1>10, <1>11, <1>12 DEF Step

\* Every step, failures and crashes included, brings its writer closer to its
\* return and takes nothing from the others, so no writer can go on for ever.
THEOREM WorkShrinksSafe == Spec => []WorkCounted /\ WorkShrinks
<1>1. ASSUME WorkInv, [Next]_vars
      PROVE  [\E w \in Writer :
                /\ Closer(w)
                /\ \A o \in Writer : o # w => pc'[o] = pc[o] /\ call'[o] = call[o]]_vars
  <2>1. TypeOK
    BY <1>1 DEF WorkInv, IInv
  <2>2. ASSUME NEW w \in Writer, Step(w) \/ FailArticle(w) \/ CommitFails(w) \/ Crash(w)
        PROVE  /\ Closer(w)
               /\ \A o \in Writer : o # w => pc'[o] = pc[o] /\ call'[o] = call[o]
    BY <1>1, <2>1, <2>2, StepShrinks, OneMoves
  <2> QED
    BY <1>1, <2>2 DEF Next
<1>2. WorkInv => WorkCounted
  BY LeftType DEF WorkCounted
<1> QED
  BY <1>1, <1>2, InitWork, StepWork, PTL DEF Spec, WorkShrinks

\* Among finitely many writers that all wait for one of them, some wait in a
\* cycle: a smallest such group has nobody in it that none of it waits for.
LEMMA WaitersCycle ==
  ASSUME IsFiniteSet(Writer), NEW B, B \subseteq Writer, B # {},
         \A x \in B : \E y \in B : WaitsFor(x, y)
  PROVE  \E w \in B : InCycle(w)
<1> DEFINE Closed(S) == S # {} /\ \A x \in S : \E y \in S : WaitsFor(x, y)
           T == {S \in SUBSET B : Closed(S)}
           R == StrictSubsetOrdering(Writer)
<1>1. \A S \in T : S \in FiniteSubsetsOf(Writer)
  BY FS_Subset DEF FiniteSubsetsOf
<1>2. PICK S \in T : \A Q \in T : ~(<<Q, S>> \in R)
  <2>1. IsWellFoundedOn(R, FiniteSubsetsOf(Writer))
    BY FS_StrictSubsetOrderingWellFounded
  <2>2. T \subseteq FiniteSubsetsOf(Writer) /\ T # {}
    BY <1>1
  <2> HIDE DEF T, R
  <2> QED
    BY <2>1, <2>2, WFMin
<1>3. S \subseteq B /\ Closed(S)
  OBVIOUS
<1>4. ASSUME NEW x \in S, \A y \in S : ~WaitsFor(y, x)
      PROVE  FALSE
  <2>1. PICK Q : Q = S \ {x}
    OBVIOUS
  <2>2. \A y \in S : \E z \in Q : WaitsFor(y, z)
    BY <1>3, <1>4, <2>1
  <2>3. Q \in T
    BY <1>3, <1>4, <2>1, <2>2
  <2>4. <<Q, S>> \in R
    BY <1>3, <1>4, <2>1 DEF StrictSubsetOrdering
  <2> QED
    BY <1>2, <2>3, <2>4
<1>5. \A x \in S : (\E y \in S : WaitsFor(x, y)) /\ (\E y \in S : WaitsFor(y, x))
  BY <1>3, <1>4
<1>6. PICK w \in S : w \in B
  BY <1>3
<1> QED
  BY <1>3, <1>5, <1>6 DEF InCycle

\* Who holds something uncommitted is in a save.
LEMMA WaitsForSaver ==
  ASSUME WorkInv, NEW w \in Writer, NEW o \in Writer, WaitsFor(w, o)
  PROVE  pc[o] = "save"
BY DEF WorkInv, IInv, Local, OpenTransaction, Within, WaitsFor

\* A save that cannot go on waits for another one.
LEMMA StuckWaits ==
  ASSUME WorkInv, NEW w \in Writer, pc[w] = "save", ~CanStep(w)
  PROVE  \E o \in Writer : WaitsFor(w, o)
<1>1. call[w].pos \in Nat /\ Len(call[w].batch) \in Nat
  BY DEF WorkInv, IInv, TypeOK, Call, Batch
<1>2. PICK p, n \in Nat : p = call[w].pos /\ n = Len(call[w].batch)
  BY <1>1
<1>3. p <= n
  BY <1>2 DEF CanStep, AtEnd
<1>4. Saving(w)
  BY <1>2, <1>3 DEF Saving
<1> QED
  BY <1>4 DEF CanStep, Blocked

\* Finitely many writers, of which each crawl returns something, never all
\* stand still before they returned: waiting for each other's uncommitted rows
\* ends with a writer that is at work or with the deadlock detector.
THEOREM NoWaitForeverSafe ==
  ASSUME IsFiniteSet(Writer), Found # {}
  PROVE  Spec => []NoWaitForever
<1>1. ASSUME WorkInv, NEW v \in Writer, ~Returned(v), \A w \in Writer : ~CanStep(w)
      PROVE  FALSE
  <2>1. ASSUME NEW w \in Writer
        PROVE  /\ pc[w] \in {"idle", "filter", "save", "index", "mark", "raised", "dead"}
               /\ call[w].source \in 0 .. Sources
    BY <1>1 DEF WorkInv, IInv, TypeOK, Call
  <2>2. pc[v] = "save"
    <3>1. PICK s \in Nat : s = call[v].source /\ s <= Sources
      BY <2>1, StoreAssumption
    <3>2. s # Sources => s < Sources
      BY <3>1, StoreAssumption
    <3> QED
      BY <1>1, <2>1, <3>1, <3>2 DEF Returned, CanStep
  <2>3. PICK B : B = {w \in Writer : pc[w] = "save"}
    OBVIOUS
  <2>4. \A x \in B : \E y \in B : WaitsFor(x, y)
    BY <1>1, <2>3, StuckWaits, WaitsForSaver
  <2>5. PICK w \in B : InCycle(w)
    BY <2>2, <2>3, <2>4, WaitersCycle
  <2> QED
    BY <1>1, <2>3, <2>5 DEF CanStep
<1>2. WorkInv => NoWaitForever
  BY <1>1 DEF NoWaitForever
<1> QED
  BY <1>2, InitWork, StepWork, PTL DEF Spec

=============================================================================
