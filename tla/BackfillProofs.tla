--------------------------- MODULE BackfillProofs ---------------------------
(***************************************************************************)
(* Proofs about Backfill for every value of its constants: its type        *)
(* invariant, the coverage of the stored cursor, its range, that it        *)
(* implements BackfillCoverage, that the windows of a full run reach the   *)
(* end, that only crashes leave a run open, and that every call ends.      *)
(*                                                                         *)
(* CursorCovered is not inductive: update_cursor stores what a runner holds *)
(* in memory.  IInv adds that the local cursor of every runner is covered  *)
(* too, that the run a runner works on is its own, and what has been done  *)
(* to that run at each point of _run_window.                               *)
(***************************************************************************)
EXTENDS Backfill, FiniteSetTheorems, TLAPS

\* A runner that holds a row of crawl_runs.
Holding == InWindow \cup {"advance"}

\* A cursor, stored or local, of a source whose backfill has begun.
GoodCursor(s, d) ==
  /\ cursor[s] # NoRow /\ origin[s] # NoRow
  /\ d <= origin[s]
  /\ d >= Until[s] \/ d = origin[s]
  /\ CoveredFrom(s, d)

CursorInv ==
  \A s \in Source : cursor[s] # NoRow => GoodCursor(s, cursor[s])

LoopInv ==
  \A r \in Runner : pc[r] \in InLoop => GoodCursor(job[r].src, job[r].cur)

\* What holds of the run a runner works on.
HeldRun(r) ==
  LET run == runs[job[r].rid] IN
  /\ job[r].rid \in 1 .. Len(runs)
  /\ run.src = job[r].src /\ run.end = job[r].cur
  /\ run.start < run.end /\ run.start >= Until[run.src]
  /\ pc[r] \in InWindow => run.status = "running"
  /\ pc[r] \in {"post", "mark"} /\ run.src \in StrictSource => run.missed = {}
  /\ pc[r] = "mark" /\ Mode # "none" => run.stage = "preprocessed"
  /\ pc[r] = "advance" => Complete(run)

HeldInv == \A r \in Runner : pc[r] \in Holding => HeldRun(r)

DistinctRuns ==
  \A q, r \in Runner :
    pc[q] \in Holding /\ pc[r] \in Holding /\ q # r => job[q].rid # job[r].rid

IInv == TypeOK /\ CursorInv /\ LoopInv /\ HeldInv /\ DistinctRuns

-----------------------------------------------------------------------------
(* Facts about the data *)

\* Days are natural numbers, closed downwards.
LEMMA DayFacts ==
  /\ Day \subseteq Nat
  /\ \A d \in Day : \A e \in Nat : e <= d => e \in Day
  /\ InitialDate \subseteq Day
BY ConfigAssumption DEF Day

\* The window below a cursor that is above until_date starts strictly below
\* the cursor and not below until_date.
LEMMA WindowStartFacts ==
  ASSUME NEW s \in Source, NEW c \in Day, c > Until[s]
  PROVE  /\ WindowStart(s, c) \in Day
         /\ WindowStart(s, c) < c
         /\ WindowStart(s, c) >= Until[s]
BY ConfigAssumption, DayFacts DEF WindowStart

\* The number of windows to the end is a natural number.
LEMMA ToEndWindowsType ==
  ASSUME NEW s \in Source, NEW c \in Day
  PROVE  ToEndWindows(s, c) \in Nat
BY ConfigAssumption, DayFacts DEF ToEndWindows

LEMMA NoJobType == NoJob \in Job
<1>1. (CHOOSE s \in Source : TRUE) \in Source
  BY ConfigAssumption
<1>2. PICK d \in InitialDate : d \in Nat
  BY ConfigAssumption
<1>3. 0 \in Day
  BY <1>2 DEF Day
<1>. QED
  BY <1>1, <1>3 DEF NoJob, Job

\* Replacing one row of crawl_runs by a row.
LEMMA UpdateRow ==
  ASSUME NEW rs \in Seq(RunRow), NEW i \in 1 .. Len(rs), NEW row \in RunRow
  PROVE  /\ [rs EXCEPT ![i] = row] \in Seq(RunRow)
         /\ Len([rs EXCEPT ![i] = row]) = Len(rs)
OBVIOUS

\* The updates of a row of crawl_runs yield rows.
LEMMA RowUpdates ==
  ASSUME NEW row \in RunRow
  PROVE  /\ \A m \in SUBSET Company : [row EXCEPT !.missed = m] \in RunRow
         /\ [row EXCEPT !.stage = "preprocessed"] \in RunRow
         /\ [row EXCEPT !.status = "success"] \in RunRow
         /\ [row EXCEPT !.status = "failed"] \in RunRow
BY DEF RunRow

\* Initially everything holds.
LEMMA InitIInv == Init => IInv
BY NoJobType DEF Init, IInv, TypeOK, CursorInv, LoopInv, HeldInv, DistinctRuns,
   InLoop, InWindow, Holding, Location

\* The run a runner holds is a row of the table, and the job is typed.
LEMMA HeldRunType ==
  ASSUME TypeOK, HeldInv, NEW r \in Runner, pc[r] \in Holding
  PROVE  /\ job[r].rid \in 1 .. Len(runs) /\ job[r].rid \in DOMAIN runs
         /\ runs[job[r].rid] \in RunRow
         /\ runs[job[r].rid].start \in Day /\ runs[job[r].rid].end \in Day
<1>1. job[r].rid \in 1 .. Len(runs) /\ runs[job[r].rid] \in RunRow
  BY DEF TypeOK, HeldInv, HeldRun
<1>. QED
  BY <1>1 DEF RunRow, TypeOK

LEMMA JobType ==
  ASSUME TypeOK, NEW r \in Runner
  PROVE  /\ job[r].src \in Source /\ job[r].cur \in Day
         /\ job[r].left \in Nat /\ job[r].rid \in Nat
BY DEF TypeOK, Job

-----------------------------------------------------------------------------
(* What a step does to the days that are done *)

\* The complete runs stay, with their windows.
RunsKept ==
  \A i \in DOMAIN runs : Complete(runs[i]) =>
    /\ i \in DOMAIN runs'
    /\ runs'[i].src = runs[i].src
    /\ runs'[i].start = runs[i].start /\ runs'[i].end = runs[i].end
    /\ Complete(runs'[i])

LEMMA DoneGrows ==
  ASSUME RunsKept, NEW s \in Source
  PROVE  Done(s) \subseteq Done(s)'
<1>. SUFFICES ASSUME NEW d \in Done(s) PROVE d \in Done(s)'
  OBVIOUS
<1>1. PICK i \in DOMAIN runs : runs[i].src = s /\ Complete(runs[i]) /\ d \in runs[i].start .. runs[i].end
  BY DEF Done
<1>. QED
  BY <1>1 DEF Done, RunsKept

\* A good cursor stays good while the rows of the source stay and done days
\* stay done.
LEMMA GoodStays ==
  ASSUME NEW s \in Source, NEW d \in Day, GoodCursor(s, d),
         cursor'[s] # NoRow, origin'[s] = origin[s], Done(s) \subseteq Done(s)'
  PROVE  GoodCursor(s, d)'
BY DEF GoodCursor, CoveredFrom

\* Every step keeps the complete runs.
LEMMA StepKeepsRuns ==
  ASSUME IInv, [Next]_vars
  PROVE  RunsKept
<1>. USE DEF IInv, TypeOK
<1>1. ASSUME UNCHANGED runs PROVE RunsKept
  BY <1>1 DEF RunsKept
<1>2. ASSUME NEW r \in Runner, OpenWindow(r) PROVE RunsKept
  BY <1>2 DEF OpenWindow, RunsKept
<1>3. ASSUME NEW r \in Runner, pc[r] \in InWindow, NEW row,
             runs' = [runs EXCEPT ![job[r].rid] = row]
      PROVE  RunsKept
  <2>1. job[r].rid \in 1 .. Len(runs) /\ ~ Complete(runs[job[r].rid])
    BY <1>3 DEF HeldInv, HeldRun, Holding, Complete
  <2>. QED
    BY <1>3, <2>1 DEF RunsKept
<1>4. ASSUME NEW r \in Runner, Crawl(r) PROVE RunsKept
  <2>1. PICK m \in SUBSET Company : runs' = [runs EXCEPT ![job[r].rid] = [@ EXCEPT !.missed = m]]
    BY <1>4 DEF Crawl
  <2>. QED
    BY <1>3, <1>4, <2>1 DEF Crawl, InWindow
<1>5. ASSUME NEW r \in Runner, Postprocess(r) PROVE RunsKept
  BY <1>3, <1>5 DEF Postprocess, InWindow
<1>6. ASSUME NEW r \in Runner, MarkSuccess(r) PROVE RunsKept
  BY <1>3, <1>6 DEF MarkSuccess, InWindow
<1>7. ASSUME NEW r \in Runner, MarkFailed(r) PROVE RunsKept
  BY <1>3, <1>7 DEF MarkFailed, InWindow
<1>. QED
  BY <1>1, <1>2, <1>4, <1>5, <1>6, <1>7
  DEF Next, Step, LoadCursor, CreateCursor, CreateCursorConflict, FinishSource,
      WindowRaises, Advance, Crash, vars

-----------------------------------------------------------------------------
(* Every step preserves the type invariant *)

LEMMA StepTypeOK ==
  ASSUME IInv, [Next]_vars
  PROVE  TypeOK'
<1>. USE DEF IInv, TypeOK
<1>1. ASSUME NEW r \in Runner, Return(r)
      PROVE  pc' \in [Runner -> Location] /\ job' \in [Runner -> Job]
  BY <1>1, NoJobType DEF Return, Location
<1>2. ASSUME NEW r \in Runner, pc[r] \in Holding
      PROVE  job[r].rid \in 1 .. Len(runs) /\ runs[job[r].rid] \in RunRow
  BY <1>2, HeldRunType
<1>3. ASSUME NEW r \in Runner, NEW s \in Source, LoadCursor(r, s) PROVE TypeOK'
  <2>1. PICK e \in BOOLEAN, n \in Override \cup {WindowsPerRun[s]}, d \in InitialDate :
          job' = [job EXCEPT ![r] =
                    [src   |-> s,
                     cur   |-> IF cursor[s] = NoRow THEN d ELSE cursor[s],
                     left  |-> IF e THEN ToEndWindows(s, IF cursor[s] = NoRow THEN d ELSE cursor[s]) ELSE n,
                     toEnd |-> e,
                     rid   |-> 0]]
    BY <1>3 DEF LoadCursor
  <2>2. (IF cursor[s] = NoRow THEN d ELSE cursor[s]) \in Day
    BY DayFacts
  <2>3. ToEndWindows(s, IF cursor[s] = NoRow THEN d ELSE cursor[s]) \in Nat /\ n \in Nat
    BY <2>2, ToEndWindowsType, ConfigAssumption
  <2>4. job' \in [Runner -> Job]
    BY <2>1, <2>2, <2>3 DEF Job
  <2>. QED
    BY <1>3, <2>4 DEF LoadCursor, Goto, Location, InLoop
<1>4. ASSUME NEW r \in Runner, CreateCursor(r) PROVE TypeOK'
  <2>1. pc' \in [Runner -> Location] /\ job' \in [Runner -> Job]
    BY <1>1, <1>4 DEF CreateCursor, Goto, Location, InLoop
  <2>. QED
    BY <1>4, <2>1 DEF CreateCursor, Job
<1>5. ASSUME NEW r \in Runner, CreateCursorConflict(r) \/ FinishSource(r) \/ Crash(r) PROVE TypeOK'
  BY <1>1, <1>5 DEF CreateCursorConflict, FinishSource, Crash
<1>6. ASSUME NEW r \in Runner, OpenWindow(r) PROVE TypeOK'
  <2>1. WindowStart(job[r].src, job[r].cur) \in Day
    BY <1>6, WindowStartFacts DEF OpenWindow, Job
  <2>2. runs' \in Seq(RunRow)
    BY <1>6, <2>1 DEF OpenWindow, RunRow, Job
  <2>3. job' \in [Runner -> Job]
    <3>1. job[r].left - 1 \in Nat /\ Len(runs) + 1 \in Nat
      BY <1>6 DEF OpenWindow, Job
    <3>. QED
      BY <1>6, <3>1 DEF OpenWindow, Job
  <2>. QED
    BY <1>6, <2>2, <2>3 DEF OpenWindow, Goto, Location, InLoop, InWindow
<1>7. ASSUME NEW r \in Runner, Crawl(r) PROVE TypeOK'
  <2>1. PICK m \in SUBSET Company : runs' = [runs EXCEPT ![job[r].rid] = [@ EXCEPT !.missed = m]]
    BY <1>7 DEF Crawl
  <2>2. runs' \in Seq(RunRow)
    BY <1>2, <1>7, <2>1, RowUpdates, UpdateRow DEF Crawl, Holding, InWindow
  <2>. QED
    BY <1>7, <2>2 DEF Crawl, Failure, Goto, Location, InLoop, InWindow
<1>8. ASSUME NEW r \in Runner, Postprocess(r) PROVE TypeOK'
  BY <1>2, <1>8, RowUpdates, UpdateRow DEF Postprocess, Holding, InWindow, Goto, Location, InLoop
<1>9. ASSUME NEW r \in Runner, MarkSuccess(r) PROVE TypeOK'
  BY <1>2, <1>9, RowUpdates, UpdateRow DEF MarkSuccess, Holding, InWindow, Goto, Location, InLoop
<1>10. ASSUME NEW r \in Runner, MarkFailed(r) PROVE TypeOK'
  <2>1. runs' \in Seq(RunRow)
    BY <1>2, <1>10, RowUpdates, UpdateRow DEF MarkFailed, Holding, InWindow
  <2>. QED
    BY <1>1, <1>10, <2>1 DEF MarkFailed
<1>11. ASSUME NEW r \in Runner, WindowRaises(r) PROVE TypeOK'
  BY <1>11 DEF WindowRaises, Failure, Goto, Location, InLoop, InWindow
<1>12. ASSUME NEW r \in Runner, Advance(r) PROVE TypeOK'
  <2>1. runs[job[r].rid].start \in Day
    BY <1>2, <1>12 DEF Advance, Holding, RunRow
  <2>2. job' \in [Runner -> Job]
    BY <1>12, <2>1 DEF Advance, Job
  <2>3. cursor' \in [Source -> Day \cup {NoRow}]
    BY <1>12, <2>1 DEF Advance
  <2>. QED
    BY <1>12, <2>2, <2>3 DEF Advance, Goto, Location, InLoop
<1>13. ASSUME UNCHANGED vars PROVE TypeOK'
  BY <1>13 DEF vars
<1>. QED
  BY <1>3, <1>4, <1>5, <1>6, <1>7, <1>8, <1>9, <1>10, <1>11, <1>12, <1>13 DEF Next, Step

-----------------------------------------------------------------------------
(* Every step preserves the coverage of the cursors *)

\* A row of crawl_cursors is never removed, and its origin never changes.
LEMMA RowsStay ==
  ASSUME IInv, [Next]_vars, NEW s \in Source, cursor[s] # NoRow
  PROVE  cursor'[s] # NoRow /\ origin'[s] = origin[s]
<1>. USE DEF IInv, TypeOK
<1>1. ASSUME NEW r \in Runner, CreateCursor(r) PROVE cursor'[s] # NoRow /\ origin'[s] = origin[s]
  BY <1>1 DEF CreateCursor
<1>2. ASSUME NEW r \in Runner, Advance(r) PROVE cursor'[s] # NoRow /\ origin'[s] = origin[s]
  <2>1. runs[job[r].rid].start \in Day
    BY <1>2, HeldRunType DEF Advance, Holding
  <2>2. runs[job[r].rid].start # NoRow
    BY <2>1, DayFacts, ConfigAssumption
  <2>. QED
    BY <1>2, <2>2 DEF Advance
<1>. QED
  BY <1>1, <1>2
  DEF Next, Step, LoadCursor, CreateCursorConflict, OpenWindow, FinishSource, Crawl,
      Postprocess, MarkSuccess, WindowRaises, MarkFailed, Crash, vars

\* Every good cursor stays good.
LEMMA StepKeepsGood ==
  ASSUME IInv, [Next]_vars, NEW s \in Source, NEW d \in Day, GoodCursor(s, d)
  PROVE  GoodCursor(s, d)'
BY RowsStay, StepKeepsRuns, DoneGrows, GoodStays DEF GoodCursor

\* The start of a window that succeeded is a good cursor: the window reaches
\* up to the local cursor, and from there everything is covered.
LEMMA WindowExtendsCoverage ==
  ASSUME IInv, NEW r \in Runner, pc[r] = "advance"
  PROVE  GoodCursor(job[r].src, runs[job[r].rid].start)
<1>. DEFINE s == job[r].src
            run == runs[job[r].rid]
<1>1. /\ job[r].rid \in DOMAIN runs /\ run.src = s /\ run.end = job[r].cur
      /\ run.start < run.end /\ run.start >= Until[s] /\ Complete(run)
  BY DEF IInv, TypeOK, HeldInv, HeldRun, Holding
<1>2. GoodCursor(s, job[r].cur)
  BY DEF IInv, LoopInv, InLoop
<1>3. s \in Source /\ job[r].cur \in Nat /\ run.start \in Nat /\ origin[s] \in Nat /\ Until[s] \in Nat
  <2>1. s \in Source /\ job[r].cur \in Day /\ run.start \in Day /\ origin[s] \in Day
    BY <1>1, <1>2, HeldRunType, JobType DEF IInv, TypeOK, Holding, GoodCursor
  <2>. QED
    BY <2>1, DayFacts, ConfigAssumption
<1>4. run.start .. run.end \subseteq Done(s)
  BY <1>1 DEF Done
<1>5. ASSUME NEW d \in run.start .. origin[s] PROVE d \in Done(s)
  <2>1. CASE d <= run.end
    BY <1>1, <1>3, <1>4, <2>1
  <2>2. CASE d > run.end
    <3>1. d \in job[r].cur .. origin[s] /\ job[r].cur < origin[s]
      BY <1>1, <1>3, <2>2
    <3>. QED
      BY <1>2, <3>1 DEF GoodCursor, CoveredFrom
  <2>. QED
    BY <1>1, <1>3, <2>1, <2>2
<1>6. run.start <= origin[s]
  BY <1>1, <1>2, <1>3 DEF GoodCursor
<1>. QED
  BY <1>1, <1>2, <1>5, <1>6 DEF GoodCursor, CoveredFrom

LEMMA StepCursorInv ==
  ASSUME IInv, [Next]_vars
  PROVE  CursorInv'
<1>. SUFFICES ASSUME NEW s \in Source, cursor'[s] # NoRow PROVE GoodCursor(s, cursor[s])'
  BY DEF CursorInv
<1>. USE DEF IInv, TypeOK
<1>1. CASE cursor[s] # NoRow /\ cursor'[s] = cursor[s]
  <2>1. cursor[s] \in Day /\ GoodCursor(s, cursor[s])
    BY <1>1 DEF CursorInv
  <2>2. PICK d \in Day : d = cursor[s]
    BY <2>1
  <2>3. GoodCursor(s, d)'
    BY <2>1, <2>2, StepKeepsGood
  <2>. QED
    BY <1>1, <2>2, <2>3 DEF GoodCursor, CoveredFrom
<1>2. ASSUME NEW r \in Runner, CreateCursor(r), cursor'[s] # cursor[s] PROVE GoodCursor(s, cursor[s])'
  <2>1. s = job[r].src /\ cursor'[s] = job[r].cur /\ origin'[s] = job[r].cur
    BY <1>2 DEF CreateCursor
  <2>2. job[r].cur \in Nat
    BY DayFacts DEF Job
  <2>3. job[r].cur # NoRow
    BY <2>2, ConfigAssumption
  <2>. QED
    BY <2>1, <2>2, <2>3 DEF GoodCursor, CoveredFrom
<1>3. ASSUME NEW r \in Runner, Advance(r), cursor'[s] # cursor[s] PROVE GoodCursor(s, cursor[s])'
  <2>1. s = job[r].src /\ cursor'[s] = runs[job[r].rid].start /\ pc[r] = "advance"
    BY <1>3 DEF Advance
  <2>2. runs[job[r].rid].start \in Day
    BY <2>1, HeldRunType DEF Holding
  <2>3. GoodCursor(s, runs[job[r].rid].start)
    BY <2>1, WindowExtendsCoverage
  <2>4. PICK d \in Day : d = runs[job[r].rid].start
    BY <2>2
  <2>5. GoodCursor(s, d)'
    BY <2>3, <2>4, StepKeepsGood
  <2>. QED
    BY <2>1, <2>4, <2>5 DEF GoodCursor, CoveredFrom
<1>4. CASE cursor'[s] = cursor[s]
  BY <1>1, <1>4
<1>. QED
  BY <1>2, <1>3, <1>4
  DEF Next, Step, LoadCursor, CreateCursorConflict, OpenWindow, FinishSource, Crawl,
      Postprocess, MarkSuccess, WindowRaises, MarkFailed, Crash, vars

\* The local cursor of every runner in its loop stays good.
LEMMA StepLoopInv ==
  ASSUME IInv, [Next]_vars
  PROVE  LoopInv'
<1>. SUFFICES ASSUME NEW q \in Runner, pc'[q] \in InLoop
              PROVE  GoodCursor(job[q].src, job[q].cur)'
  BY DEF LoopInv
<1>. USE DEF IInv, TypeOK
<1>1. CASE pc[q] \in InLoop /\ job'[q].src = job[q].src /\ job'[q].cur = job[q].cur
  <2>1. PICK s \in Source, d \in Day : s = job[q].src /\ d = job[q].cur
    BY JobType
  <2>2. GoodCursor(s, d)'
    BY <1>1, <2>1, StepKeepsGood DEF LoopInv
  <2>. QED
    BY <1>1, <2>1, <2>2 DEF GoodCursor, CoveredFrom
<1>2. ASSUME NEW s \in Source, LoadCursor(q, s) PROVE GoodCursor(job[q].src, job[q].cur)'
  <2>1. cursor[s] # NoRow
    BY <1>2 DEF LoadCursor, Goto, InLoop, InWindow
  <2>2. job'[q].src = s /\ job'[q].cur = cursor[s]
    BY <1>2, <2>1 DEF LoadCursor
  <2>3. PICK d \in Day : d = cursor[s]
    BY <2>1
  <2>4. GoodCursor(s, d)'
    BY <2>1, <2>3, StepKeepsGood DEF CursorInv
  <2>. QED
    BY <2>2, <2>3, <2>4 DEF GoodCursor, CoveredFrom
<1>3. ASSUME CreateCursor(q) PROVE GoodCursor(job[q].src, job[q].cur)'
  <2>1. pc'[q] # "idle"
    BY DEF InLoop, InWindow
  <2>2. UNCHANGED job
    BY <1>3, <2>1 DEF CreateCursor, Return
  <2>3. job[q].src \in Source /\ job[q].cur \in Nat
    BY JobType, DayFacts
  <2>4. job[q].cur # NoRow
    BY <2>3, ConfigAssumption
  <2>5. cursor'[job[q].src] = job[q].cur /\ origin'[job[q].src] = job[q].cur
    BY <1>3, <2>3 DEF CreateCursor
  <2>. QED
    BY <2>2, <2>3, <2>4, <2>5 DEF GoodCursor, CoveredFrom
<1>4. ASSUME Advance(q) PROVE GoodCursor(job[q].src, job[q].cur)'
  <2>1. pc[q] = "advance"
    BY <1>4 DEF Advance
  <2>2. job'[q].src = job[q].src /\ job'[q].cur = runs[job[q].rid].start
    BY <1>4 DEF Advance, Job
  <2>3. PICK s \in Source, d \in Day : s = job[q].src /\ d = runs[job[q].rid].start
    BY <2>1, JobType, HeldRunType DEF Holding
  <2>4. GoodCursor(s, d)'
    BY <2>1, <2>3, WindowExtendsCoverage, StepKeepsGood
  <2>. QED
    BY <2>2, <2>3, <2>4 DEF GoodCursor, CoveredFrom
<1>5. ASSUME OpenWindow(q)
      PROVE  pc[q] \in InLoop /\ job'[q].src = job[q].src /\ job'[q].cur = job[q].cur
  BY <1>5 DEF OpenWindow, InLoop, Job
<1>6. ASSUME Crawl(q) \/ Postprocess(q) \/ MarkSuccess(q) \/ WindowRaises(q)
      PROVE  pc[q] \in InLoop /\ UNCHANGED job
  BY <1>6 DEF Crawl, Postprocess, MarkSuccess, WindowRaises, InLoop, InWindow
<1>7. ASSUME CreateCursorConflict(q) \/ FinishSource(q) \/ MarkFailed(q) \/ Crash(q)
      PROVE  FALSE
  BY <1>7 DEF CreateCursorConflict, FinishSource, MarkFailed, Crash, Return, InLoop, InWindow
<1>8. ASSUME NEW r \in Runner, r # q, (\E s \in Source : LoadCursor(r, s)) \/ Step(r) \/ WindowRaises(r) \/ Crash(r)
      PROVE  pc'[q] = pc[q] /\ job'[q] = job[q]
  BY <1>8
  DEF Step, LoadCursor, CreateCursor, CreateCursorConflict, OpenWindow, FinishSource, Crawl,
      Postprocess, MarkSuccess, WindowRaises, MarkFailed, Advance, Crash, Return, Goto
<1>9. CASE UNCHANGED vars
  BY <1>1, <1>9 DEF vars
<1>. QED
  BY <1>1, <1>2, <1>3, <1>4, <1>5, <1>6, <1>7, <1>8, <1>9 DEF Next, Step

-----------------------------------------------------------------------------
(* Every step preserves what is known of the runs held *)

\* A step of one runner leaves the run another one holds alone.
LEMMA OthersRun ==
  ASSUME IInv, NEW q \in Runner, NEW r \in Runner, r # q, pc[q] \in Holding,
         (\E s \in Source : LoadCursor(r, s)) \/ Step(r) \/ WindowRaises(r) \/ Crash(r)
  PROVE  /\ pc'[q] = pc[q] /\ job'[q] = job[q]
         /\ runs'[job[q].rid] = runs[job[q].rid]
         /\ job[q].rid \in 1 .. Len(runs')
<1>. USE DEF IInv, TypeOK
<1>1. pc'[q] = pc[q] /\ job'[q] = job[q]
  BY DEF Step, LoadCursor, CreateCursor, CreateCursorConflict, OpenWindow, FinishSource, Crawl,
         Postprocess, MarkSuccess, WindowRaises, MarkFailed, Advance, Crash, Return, Goto
<1>2. job[q].rid \in 1 .. Len(runs)
  BY HeldRunType
<1>3. CASE UNCHANGED runs
  BY <1>1, <1>2, <1>3
<1>4. CASE OpenWindow(r)
  BY <1>1, <1>2, <1>4 DEF OpenWindow
<1>5. ASSUME pc[r] \in InWindow, NEW row, runs' = [runs EXCEPT ![job[r].rid] = row]
      PROVE  runs'[job[q].rid] = runs[job[q].rid] /\ job[q].rid \in 1 .. Len(runs')
  <2>1. job[r].rid # job[q].rid
    BY <1>5 DEF DistinctRuns, Holding
  <2>. QED
    BY <1>2, <1>5, <2>1
<1>6. CASE Crawl(r)
  <2>1. PICK m \in SUBSET Company : runs' = [runs EXCEPT ![job[r].rid] = [@ EXCEPT !.missed = m]]
    BY <1>6 DEF Crawl
  <2>. QED
    BY <1>1, <1>5, <1>6, <2>1 DEF Crawl, InWindow
<1>7. CASE Postprocess(r)
  BY <1>1, <1>5, <1>7 DEF Postprocess, InWindow
<1>8. CASE MarkSuccess(r)
  BY <1>1, <1>5, <1>8 DEF MarkSuccess, InWindow
<1>9. CASE MarkFailed(r)
  BY <1>1, <1>5, <1>9 DEF MarkFailed, InWindow
<1>. QED
  BY <1>3, <1>4, <1>6, <1>7, <1>8, <1>9
  DEF Step, LoadCursor, CreateCursor, CreateCursorConflict, FinishSource, WindowRaises, Advance, Crash

LEMMA StepHeldInv ==
  ASSUME IInv, [Next]_vars
  PROVE  HeldInv'
<1>. SUFFICES ASSUME NEW q \in Runner, pc'[q] \in Holding
              PROVE  HeldRun(q)'
  BY DEF HeldInv
<1>. USE DEF IInv, TypeOK
<1>1. CASE UNCHANGED vars
  BY <1>1 DEF vars, HeldInv, HeldRun
<1>2. ASSUME NEW r \in Runner, r # q,
             (\E s \in Source : LoadCursor(r, s)) \/ Step(r) \/ WindowRaises(r) \/ Crash(r)
      PROVE  HeldRun(q)'
  <2>1. pc[q] \in Holding
    BY <1>2 DEF Step, LoadCursor, CreateCursor, CreateCursorConflict, OpenWindow, FinishSource,
       Crawl, Postprocess, MarkSuccess, WindowRaises, MarkFailed, Advance, Crash, Return, Goto
  <2>. QED
    BY <1>2, <2>1, OthersRun DEF HeldInv, HeldRun
<1>3. CASE OpenWindow(q)
  <2>1. job[q].src \in Source /\ job[q].cur \in Day /\ job[q].cur > Until[job[q].src]
    BY <1>3, JobType DEF OpenWindow
  <2>2. pc'[q] = "crawl" /\ job'[q].rid = Len(runs) + 1 /\ job'[q].src = job[q].src /\ job'[q].cur = job[q].cur
    BY <1>3 DEF OpenWindow, Goto, Job
  <2>3. /\ Len(runs') = Len(runs) + 1
        /\ runs'[Len(runs) + 1] = [src    |-> job[q].src,
                                   start  |-> WindowStart(job[q].src, job[q].cur),
                                   end    |-> job[q].cur,
                                   status |-> "running",
                                   missed |-> {},
                                   stage  |-> "collecting"]
    BY <1>3 DEF OpenWindow
  <2>4. WindowStart(job[q].src, job[q].cur) < job[q].cur /\ WindowStart(job[q].src, job[q].cur) >= Until[job[q].src]
    BY <2>1, WindowStartFacts
  <2>. QED
    BY <2>2, <2>3, <2>4 DEF HeldRun
<1>4. CASE Crawl(q)
  <2>1. pc[q] = "crawl" /\ HeldRun(q) /\ job' = job
    BY <1>4 DEF Crawl, HeldInv, Holding, InWindow
  <2>2. PICK m \in SUBSET Company :
          /\ runs' = [runs EXCEPT ![job[q].rid].missed = m]
          /\ m # {} /\ job[q].src \in StrictSource => pc'[q] = "fail"
          /\ pc'[q] = "mark" => Mode = "none"
          /\ pc'[q] \in {"fail", "mark", "post"}
    BY <1>4 DEF Crawl, Goto
  <2>3. runs[job[q].rid] \in RunRow
    BY <2>1, HeldRunType DEF Holding, InWindow
  <2>4. Len(runs') = Len(runs) /\ runs'[job[q].rid] = [runs[job[q].rid] EXCEPT !.missed = m]
    <3>1. job[q].rid \in 1 .. Len(runs) /\ runs \in Seq(RunRow)
      BY <2>1 DEF HeldRun, IInv, TypeOK
    <3>2. PICK i, row : i = job[q].rid /\ row = [runs[i] EXCEPT !.missed = m]
      OBVIOUS
    <3>3. runs' = [runs EXCEPT ![i] = row]
      BY <2>2, <3>2
    <3>4. Len(runs') = Len(runs) /\ runs'[i] = row
      BY <3>1, <3>2, <3>3
    <3>. QED
      BY <3>2, <3>4
  <2>5. /\ runs'[job[q].rid].missed = m
        /\ runs'[job[q].rid].src = runs[job[q].rid].src
        /\ runs'[job[q].rid].start = runs[job[q].rid].start
        /\ runs'[job[q].rid].end = runs[job[q].rid].end
        /\ runs'[job[q].rid].status = runs[job[q].rid].status
    BY <2>3, <2>4 DEF RunRow
  <2>. QED
    BY <2>1, <2>2, <2>4, <2>5 DEF HeldRun, InWindow
<1>5. CASE Postprocess(q)
  <2>1. pc[q] = "post" /\ pc'[q] = "mark" /\ HeldRun(q) /\ job' = job
    BY <1>5 DEF Postprocess, Goto, HeldInv, Holding, InWindow
  <2>2. runs[job[q].rid] \in RunRow
    BY <2>1, HeldRunType DEF Holding, InWindow
  <2>3. Len(runs') = Len(runs) /\ runs'[job[q].rid] = [runs[job[q].rid] EXCEPT !.stage = "preprocessed"]
    <3>1. runs' = [runs EXCEPT ![job[q].rid].stage = "preprocessed"]
      BY <1>5 DEF Postprocess
    <3>2. job[q].rid \in 1 .. Len(runs)
      BY <2>1 DEF HeldRun
    <3>. QED
      BY <3>1, <3>2
  <2>. QED
    BY <2>1, <2>2, <2>3 DEF HeldRun, InWindow, RunRow
<1>6. CASE MarkSuccess(q)
  <2>1. pc[q] = "mark" /\ pc'[q] = "advance" /\ HeldRun(q) /\ job' = job
    BY <1>6 DEF MarkSuccess, Goto, HeldInv, Holding, InWindow
  <2>2. runs[job[q].rid] \in RunRow
    BY <2>1, HeldRunType DEF Holding, InWindow
  <2>3. Len(runs') = Len(runs) /\ runs'[job[q].rid] = [runs[job[q].rid] EXCEPT !.status = "success"]
    <3>1. runs' = [runs EXCEPT ![job[q].rid].status = "success"]
      BY <1>6 DEF MarkSuccess
    <3>2. job[q].rid \in 1 .. Len(runs)
      BY <2>1 DEF HeldRun
    <3>. QED
      BY <3>1, <3>2
  <2>. QED
    BY <2>1, <2>2, <2>3 DEF HeldRun, InWindow, RunRow, Complete
<1>7. CASE WindowRaises(q)
  <2>1. pc[q] \in InWindow /\ pc'[q] = "fail" /\ HeldRun(q) /\ job' = job /\ runs' = runs
    BY <1>7 DEF WindowRaises, Goto, HeldInv, Holding, InWindow
  <2>. QED
    BY <2>1 DEF HeldRun
<1>8. ASSUME (\E s \in Source : LoadCursor(q, s)) \/ CreateCursor(q) \/ CreateCursorConflict(q)
               \/ FinishSource(q) \/ MarkFailed(q) \/ Advance(q) \/ Crash(q)
      PROVE  FALSE
  BY <1>8 DEF LoadCursor, CreateCursor, CreateCursorConflict, FinishSource, MarkFailed, Advance,
     Crash, Return, Goto, Holding, InWindow
<1>. QED
  BY <1>1, <1>2, <1>3, <1>4, <1>5, <1>6, <1>7, <1>8 DEF Next, Step

\* No two runners hold the same run: a run is new when a runner opens it.
LEMMA StepDistinctRuns ==
  ASSUME IInv, [Next]_vars
  PROVE  DistinctRuns'
<1>. USE DEF IInv, TypeOK
<1>1. CASE UNCHANGED vars
  BY <1>1 DEF vars, DistinctRuns
<1>2. SUFFICES ASSUME NEW r \in Runner,
                      (\E s \in Source : LoadCursor(r, s)) \/ Step(r) \/ WindowRaises(r) \/ Crash(r)
               PROVE  DistinctRuns'
  BY <1>1 DEF Next
<1>3. ASSUME NEW q \in Runner, q # r, pc'[q] \in Holding
      PROVE  /\ pc[q] \in Holding /\ job'[q].rid = job[q].rid
             /\ job[q].rid \in 1 .. Len(runs)
  <2>1. pc[q] \in Holding
    BY <1>2, <1>3 DEF Step, LoadCursor, CreateCursor, CreateCursorConflict, OpenWindow, FinishSource,
       Crawl, Postprocess, MarkSuccess, WindowRaises, MarkFailed, Advance, Crash, Return, Goto
  <2>. QED
    BY <1>2, <1>3, <2>1, OthersRun, HeldRunType
<1>4. ASSUME pc'[r] \in Holding
      PROVE  \/ job'[r].rid = Len(runs) + 1
             \/ pc[r] \in Holding /\ job'[r].rid = job[r].rid
  <2>1. CASE OpenWindow(r)
    BY <2>1 DEF OpenWindow
  <2>2. CASE Crawl(r) \/ Postprocess(r) \/ MarkSuccess(r) \/ WindowRaises(r)
    BY <2>2 DEF Crawl, Postprocess, MarkSuccess, WindowRaises, Holding, InWindow
  <2>3. ASSUME (\E s \in Source : LoadCursor(r, s)) \/ CreateCursor(r) \/ CreateCursorConflict(r)
               \/ FinishSource(r) \/ MarkFailed(r) \/ Advance(r) \/ Crash(r)
        PROVE  FALSE
    BY <1>4, <2>3 DEF LoadCursor, CreateCursor, CreateCursorConflict, FinishSource, MarkFailed, Advance,
       Crash, Return, Goto, Holding, InWindow
  <2>. QED
    BY <1>2, <1>4, <2>1, <2>2, <2>3 DEF Step
<1>. QED
  BY <1>3, <1>4 DEF DistinctRuns

-----------------------------------------------------------------------------
(* The theorems *)

\* The inductive invariant holds in every reachable state.
LEMMA Invariance == Spec => []IInv
<1>1. IInv /\ [Next]_vars => IInv'
  BY StepTypeOK, StepCursorInv, StepLoopInv, StepHeldInv, StepDistinctRuns DEF IInv
<1>. QED
  BY InitIInv, <1>1, PTL DEF Spec

\* Every variable keeps its type, for any set of runners, sources and dates.
THEOREM TypeCorrect == Spec => []TypeOK
<1>1. IInv => TypeOK
  BY DEF IInv
<1>. QED
  BY Invariance, <1>1, PTL

\* However many runners work on a source, and wherever they die, the stored
\* cursor never passes a day that no complete run covers.
THEOREM CoverageSafe == Spec => []CursorCovered
<1>1. IInv => CursorCovered
  BY DEF IInv, CursorInv, GoodCursor, CursorCovered
<1>. QED
  BY Invariance, <1>1, PTL

\* The stored cursor never leaves the range between until_date and the date the
\* backfill of the source began.
THEOREM RangeSafe == Spec => []CursorInRange
<1>1. IInv => CursorInRange
  BY DEF IInv, CursorInv, GoodCursor, CursorInRange
<1>. QED
  BY Invariance, <1>1, PTL

-----------------------------------------------------------------------------
(* Backfill implements BackfillCoverage *)

\* No run becomes complete.
NoNewComplete ==
  \A i \in DOMAIN runs' : Complete(runs'[i]) =>
    /\ i \in DOMAIN runs
    /\ runs'[i].src = runs[i].src
    /\ runs'[i].start = runs[i].start /\ runs'[i].end = runs[i].end
    /\ Complete(runs[i])

LEMMA DoneSame ==
  ASSUME RunsKept, NoNewComplete, NEW s \in Source
  PROVE  Done(s)' = Done(s)
<1>1. Done(s)' \subseteq Done(s)
  <2>. SUFFICES ASSUME NEW d \in Done(s)' PROVE d \in Done(s)
    OBVIOUS
  <2>1. PICK i \in DOMAIN runs' :
          runs'[i].src = s /\ Complete(runs'[i]) /\ d \in runs'[i].start .. runs'[i].end
    BY DEF Done
  <2>. QED
    BY <2>1 DEF Done, NoNewComplete
<1>. QED
  BY <1>1, DoneGrows

\* Only mark_crawl_run_success completes a run.
LEMMA OthersCompleteNothing ==
  ASSUME IInv, [Next]_vars, \A r \in Runner : ~ MarkSuccess(r)
  PROVE  NoNewComplete
<1>. USE DEF IInv, TypeOK
<1>1. CASE UNCHANGED runs
  BY <1>1 DEF NoNewComplete
<1>2. ASSUME NEW r \in Runner, OpenWindow(r) PROVE NoNewComplete
  BY <1>2 DEF OpenWindow, NoNewComplete, Complete
<1>3. ASSUME NEW r \in Runner, pc[r] \in InWindow, NEW row, row.status # "success",
             runs' = [runs EXCEPT ![job[r].rid] = row]
      PROVE  NoNewComplete
  BY <1>3 DEF NoNewComplete, Complete
<1>4. ASSUME NEW r \in Runner, pc[r] \in InWindow
      PROVE  runs[job[r].rid].status = "running" /\ runs[job[r].rid] \in RunRow
  BY <1>4, HeldRunType DEF HeldInv, HeldRun, Holding
<1>5. ASSUME NEW r \in Runner, Crawl(r) PROVE NoNewComplete
  <2>1. PICK m \in SUBSET Company : runs' = [runs EXCEPT ![job[r].rid] = [@ EXCEPT !.missed = m]]
    BY <1>5 DEF Crawl
  <2>2. pc[r] \in InWindow /\ [runs[job[r].rid] EXCEPT !.missed = m].status # "success"
    BY <1>4, <1>5 DEF Crawl, InWindow, RunRow
  <2>. QED
    BY <1>3, <2>1, <2>2
<1>6. ASSUME NEW r \in Runner, Postprocess(r) PROVE NoNewComplete
  <2>1. pc[r] \in InWindow /\ [runs[job[r].rid] EXCEPT !.stage = "preprocessed"].status # "success"
    BY <1>4, <1>6 DEF Postprocess, InWindow, RunRow
  <2>. QED
    BY <1>3, <1>6, <2>1 DEF Postprocess
<1>7. ASSUME NEW r \in Runner, MarkFailed(r) PROVE NoNewComplete
  <2>1. pc[r] \in InWindow /\ [runs[job[r].rid] EXCEPT !.status = "failed"].status # "success"
    BY <1>4, <1>7 DEF MarkFailed, InWindow, RunRow
  <2>. QED
    BY <1>3, <1>7, <2>1 DEF MarkFailed
<1>. QED
  BY <1>1, <1>2, <1>5, <1>6, <1>7
  DEF Next, Step, LoadCursor, CreateCursor, CreateCursorConflict, FinishSource,
      WindowRaises, Advance, Crash, vars

\* A successful window adds its days and no others.
LEMMA WindowAddsDays ==
  ASSUME IInv, NEW r \in Runner, MarkSuccess(r), NEW s \in Source
  PROVE  Done(s)' = IF s = job[r].src
                    THEN Done(s) \cup (runs[job[r].rid].start .. runs[job[r].rid].end)
                    ELSE Done(s)
<1>. DEFINE i == job[r].rid
<1>1. pc[r] = "mark" /\ HeldRun(r) /\ runs[i] \in RunRow /\ i \in DOMAIN runs
  BY HeldRunType DEF MarkSuccess, IInv, HeldInv, Holding, InWindow
<1>2. DOMAIN runs' = DOMAIN runs /\ runs' = [runs EXCEPT ![i] = [@ EXCEPT !.status = "success"]]
  BY DEF MarkSuccess, IInv, TypeOK
<1>3. /\ runs'[i].src = job[r].src /\ runs'[i].start = runs[i].start /\ runs'[i].end = runs[i].end
      /\ Complete(runs'[i]) /\ ~ Complete(runs[i])
  <2>1. runs'[i] = [runs[i] EXCEPT !.status = "success"]
    BY <1>1, <1>2
  <2>. QED
    BY <1>1, <2>1 DEF HeldRun, RunRow, Complete, InWindow
<1>4. \A k \in DOMAIN runs : k # i => runs'[k] = runs[k]
  BY <1>2
<1>5. ASSUME NEW d
      PROVE  d \in Done(s)' <=> d \in Done(s) \/ (s = job[r].src /\ d \in runs[i].start .. runs[i].end)
  <2>1. d \in Done(s)' <=> \E k \in DOMAIN runs : runs'[k].src = s /\ Complete(runs'[k]) /\ d \in runs'[k].start .. runs'[k].end
    BY <1>2 DEF Done
  <2>2. d \in Done(s) <=> \E k \in DOMAIN runs : runs[k].src = s /\ Complete(runs[k]) /\ d \in runs[k].start .. runs[k].end
    BY DEF Done
  <2>. QED
    BY <1>1, <1>3, <1>4, <2>1, <2>2
<1>. QED
  BY <1>5

\* Every step of the backfill is a step of its promise, or leaves it alone.
LEMMA StepRefines ==
  ASSUME IInv, [Next]_vars
  PROVE  [Coverage!Next]_(Coverage!vars)
<1>. USE DEF IInv, TypeOK
<1>1. ASSUME NEW r \in Runner, MarkSuccess(r) PROVE Coverage!Next
  <2>1. PICK s \in Source, lo \in Day, hi \in Day :
          s = job[r].src /\ lo = runs[job[r].rid].start /\ hi = runs[job[r].rid].end
    BY <1>1, JobType, HeldRunType DEF MarkSuccess, Holding, InWindow
  <2>2. lo < hi /\ hi = job[r].cur
    BY <1>1, <2>1 DEF MarkSuccess, HeldInv, HeldRun, Holding, InWindow
  <2>3. GoodCursor(s, hi)
    BY <1>1, <2>1, <2>2 DEF MarkSuccess, LoopInv, InLoop, InWindow
  <2>4. [t \in Source |-> Done(t)]' = [[t \in Source |-> Done(t)] EXCEPT ![s] = @ \cup (lo .. hi)]
    BY <1>1, <2>1, WindowAddsDays
  <2>5. UNCHANGED <<cursor, origin>>
    BY <1>1 DEF MarkSuccess
  <2>6. Coverage!DoWindow(s)
    BY <2>2, <2>3, <2>4, <2>5 DEF Coverage!DoWindow, GoodCursor, CoveredFrom
  <2>. QED
    BY <2>6 DEF Coverage!Next
<1>2. ASSUME \A r \in Runner : ~ MarkSuccess(r)
      PROVE  UNCHANGED [s \in Source |-> Done(s)]
  BY <1>2, OthersCompleteNothing, StepKeepsRuns, DoneSame
<1>3. ASSUME NEW r \in Runner, CreateCursor(r), \A q \in Runner : ~ MarkSuccess(q) PROVE Coverage!Next
  <2>1. PICK s \in Source, d \in Day : s = job[r].src /\ d = job[r].cur
    BY JobType
  <2>2. Coverage!Begin(s)
    BY <1>2, <1>3, <2>1 DEF CreateCursor, Coverage!Begin
  <2>. QED
    BY <2>2 DEF Coverage!Next
<1>4. ASSUME NEW r \in Runner, Advance(r), \A q \in Runner : ~ MarkSuccess(q) PROVE Coverage!Next
  <2>1. pc[r] = "advance"
    BY <1>4 DEF Advance
  <2>2. PICK s \in Source, d \in Day : s = job[r].src /\ d = runs[job[r].rid].start
    BY <2>1, JobType, HeldRunType DEF Holding
  <2>3. GoodCursor(s, d) /\ GoodCursor(s, job[r].cur) /\ d < job[r].cur
    BY <2>1, <2>2, WindowExtendsCoverage DEF LoopInv, InLoop, HeldInv, HeldRun, Holding
  <2>4. d \in Nat /\ origin[s] \in Nat /\ job[r].cur \in Nat
    BY <2>2, <2>3, DayFacts, JobType DEF GoodCursor
  <2>5. d < origin[s] /\ d .. origin[s] \subseteq Done(s) /\ cursor[s] # NoRow
    BY <2>3, <2>4 DEF GoodCursor, CoveredFrom
  <2>6. cursor' = [cursor EXCEPT ![s] = d] /\ origin' = origin
    BY <1>4, <2>2 DEF Advance
  <2>7. Coverage!Move(s)
    BY <1>2, <1>4, <2>5, <2>6 DEF Coverage!Move
  <2>. QED
    BY <2>7 DEF Coverage!Next
<1>5. ASSUME UNCHANGED <<cursor, origin>>, \A q \in Runner : ~ MarkSuccess(q)
      PROVE  UNCHANGED Coverage!vars
  BY <1>2, <1>5 DEF Coverage!vars
<1>. QED
  BY <1>1, <1>3, <1>4, <1>5
  DEF Next, Step, LoadCursor, CreateCursorConflict, OpenWindow, FinishSource, Crawl,
      Postprocess, WindowRaises, MarkFailed, Crash, vars

\* The detailed backfill implements its promise: whatever the runners do, days
\* get done in windows that join what is done, and the frontier only stands
\* where everything later is done.
THEOREM Refinement == Spec => ImplementsCoverage
<1>1. Init => Coverage!Init
  BY DEF Init, Coverage!Init, Done
<1>2. IInv /\ [Next]_vars => [Coverage!Next]_(Coverage!vars)
  BY StepRefines
<1>. QED
  BY Invariance, <1>1, <1>2, PTL DEF Spec, ImplementsCoverage, Coverage!Spec

-----------------------------------------------------------------------------
(* --run-to-end opens enough windows *)

\* n windows lead from cursor date c of source s down to until_date.
Reaches(s, c, n) == c - Until[s] <= n * WindowDays[s]

\* The rounded up quotient is enough.
LEMMA ToEndReaches ==
  ASSUME NEW s \in Source, NEW c \in Day
  PROVE  Reaches(s, c, ToEndWindows(s, c))
<1>1. c \in Nat /\ Until[s] \in Nat /\ WindowDays[s] \in Nat \ {0}
  BY ConfigAssumption, DayFacts
<1>2. CASE c <= Until[s]
  BY <1>1, <1>2 DEF Reaches, ToEndWindows
<1>3. CASE c > Until[s]
  <2>1. PICK W \in Nat \ {0}, a \in Nat : W = WindowDays[s] /\ a = c - Until[s] + W - 1
    BY <1>1, <1>3
  <2>2. PICK q \in Int : q = a \div W
    BY <2>1
  <2>3. a < q * W + W
    BY <2>1, <2>2
  <2>4. c - Until[s] <= q * W
    <3>1. PICK p \in Int : p = q * W
      BY <2>1, <2>2
    <3>2. c - Until[s] + W - 1 < p + W
      BY <2>1, <2>3, <3>1
    <3> QED
      BY <1>1, <2>1, <3>1, <3>2
  <2>. QED
    BY <1>1, <1>3, <2>1, <2>2, <2>4 DEF Reaches, ToEndWindows
<1>. QED
  BY <1>1, <1>2, <1>3

\* A window uses up one of them.
LEMMA WindowReaches ==
  ASSUME NEW s \in Source, NEW c \in Day, NEW n \in Nat, Reaches(s, c, n + 1)
  PROVE  Reaches(s, WindowStart(s, c), n)
<1>1. PICK W \in Nat \ {0}, u \in Nat, x \in Nat : W = WindowDays[s] /\ u = Until[s] /\ x = c
  BY ConfigAssumption, DayFacts
<1>2. (n + 1) * W = n * W + W
  BY <1>1
<1>3. PICK p \in Nat : p = n * W
  BY <1>1
<1>4. x - u <= p + W
  BY <1>1, <1>2, <1>3 DEF Reaches
<1>5. (IF x - W >= u THEN x - W ELSE u) - u <= p
  BY <1>1, <1>3, <1>4
<1>. QED
  BY <1>1, <1>3, <1>5 DEF Reaches, WindowStart

\* No window left: the cursor is at until_date.
LEMMA ReachedEnd ==
  ASSUME NEW s \in Source, NEW c \in Day, Reaches(s, c, 0)
  PROVE  c <= Until[s]
BY ConfigAssumption, DayFacts DEF Reaches

\* A runner that goes to the end has enough windows left; one of them is the
\* window it holds, which begins where WindowStart says.
Budget(r) ==
  LET j == job[r] IN
  /\ pc[r] \in Holding => runs[j.rid].start = WindowStart(j.src, j.cur)
  /\ pc[r] \in {"create", "loop"} /\ j.toEnd => Reaches(j.src, j.cur, j.left)
  /\ pc[r] \in Holding /\ j.toEnd => Reaches(j.src, j.cur, j.left + 1)

BudgetInv == \A r \in Runner : Budget(r)

\* The part of the run of q that no step on it changes.
LEMMA StartStays ==
  ASSUME IInv, NEW q \in Runner, Crawl(q) \/ Postprocess(q) \/ MarkSuccess(q) \/ WindowRaises(q)
  PROVE  runs'[job[q].rid].start = runs[job[q].rid].start
<1>. USE DEF IInv, TypeOK
<1>1. /\ pc[q] \in Holding /\ job[q].rid \in 1 .. Len(runs) /\ runs[job[q].rid] \in RunRow
  <2>1. pc[q] \in Holding
    BY DEF Crawl, Postprocess, MarkSuccess, WindowRaises, Holding, InWindow
  <2>. QED
    BY <2>1, HeldRunType
<1>2. CASE Crawl(q)
  <2>1. PICK m \in SUBSET Company : runs' = [runs EXCEPT ![job[q].rid].missed = m]
    BY <1>2 DEF Crawl
  <2>. QED
    BY <1>1, <2>1 DEF RunRow
<1>3. CASE Postprocess(q)
  BY <1>1, <1>3 DEF Postprocess, RunRow
<1>4. CASE MarkSuccess(q)
  BY <1>1, <1>4 DEF MarkSuccess, RunRow
<1>5. CASE WindowRaises(q)
  BY <1>5 DEF WindowRaises
<1>. QED
  BY <1>2, <1>3, <1>4, <1>5

LEMMA StepBudget ==
  ASSUME IInv, BudgetInv, [Next]_vars
  PROVE  BudgetInv'
<1>. SUFFICES ASSUME NEW q \in Runner PROVE Budget(q)'
  BY DEF BudgetInv
<1>. USE DEF IInv, TypeOK
<1>0. /\ Budget(q) /\ job[q].src \in Source /\ job[q].cur \in Day /\ job[q].left \in Nat
      /\ job[q] \in Job
  BY JobType DEF BudgetInv
<1>1. CASE UNCHANGED vars
  BY <1>0, <1>1 DEF vars, Budget, Reaches
<1>2. ASSUME NEW r \in Runner, r # q,
             (\E s \in Source : LoadCursor(r, s)) \/ Step(r) \/ WindowRaises(r) \/ Crash(r)
      PROVE  Budget(q)'
  <2>1. pc'[q] = pc[q] /\ job'[q] = job[q]
    BY <1>2 DEF Step, LoadCursor, CreateCursor, CreateCursorConflict, OpenWindow, FinishSource,
       Crawl, Postprocess, MarkSuccess, WindowRaises, MarkFailed, Advance, Crash, Return, Goto
  <2>2. pc[q] \in Holding => runs'[job[q].rid] = runs[job[q].rid]
    BY <1>2, OthersRun
  <2>. QED
    BY <1>0, <2>1, <2>2 DEF Budget, Reaches
<1>3. ASSUME NEW s \in Source, LoadCursor(q, s) PROVE Budget(q)'
  <2>1. PICK e \in BOOLEAN, n \in Override \cup {WindowsPerRun[s]}, d \in InitialDate :
          job' = [job EXCEPT ![q] =
                    [src   |-> s,
                     cur   |-> IF cursor[s] = NoRow THEN d ELSE cursor[s],
                     left  |-> IF e THEN ToEndWindows(s, IF cursor[s] = NoRow THEN d ELSE cursor[s]) ELSE n,
                     toEnd |-> e,
                     rid   |-> 0]]
    BY <1>3 DEF LoadCursor
  <2>2. PICK c \in Day : c = IF cursor[s] = NoRow THEN d ELSE cursor[s]
    BY DayFacts
  <2>3. job'[q] = [src |-> s, cur |-> c, left |-> IF e THEN ToEndWindows(s, c) ELSE n,
                   toEnd |-> e, rid |-> 0]
    BY <2>1, <2>2
  <2>4. pc'[q] \in {"create", "loop"} /\ pc'[q] \notin Holding
    BY <1>3 DEF LoadCursor, Goto, Holding, InWindow
  <2>5. Reaches(s, c, ToEndWindows(s, c))
    BY ToEndReaches
  <2>. QED
    BY <2>3, <2>4, <2>5 DEF Budget, Reaches
<1>4. ASSUME CreateCursorConflict(q) \/ FinishSource(q) \/ MarkFailed(q) \/ Crash(q) PROVE Budget(q)'
  <2>1. pc'[q] = "idle"
    BY <1>4 DEF CreateCursorConflict, FinishSource, MarkFailed, Crash, Return
  <2>. QED
    BY <2>1 DEF Budget, Holding, InWindow
<1>5. CASE CreateCursor(q)
  <2>1. CASE pc'[q] = "idle"
    BY <2>1 DEF Budget, Holding, InWindow
  <2>2. CASE pc'[q] # "idle"
    <3>1. pc[q] = "create" /\ pc'[q] = "loop" /\ job' = job
      BY <1>5, <2>2 DEF CreateCursor, Return, Goto
    <3>. QED
      BY <1>0, <3>1 DEF Budget, Reaches, Holding, InWindow
  <2>. QED
    BY <2>1, <2>2
<1>6. CASE OpenWindow(q)
  <2>1. /\ pc[q] = "loop" /\ pc'[q] = "crawl" /\ job'[q].rid = Len(runs) + 1
        /\ job'[q].src = job[q].src /\ job'[q].cur = job[q].cur /\ job'[q].toEnd = job[q].toEnd
        /\ job'[q].left = job[q].left - 1
    BY <1>0, <1>6 DEF OpenWindow, Goto, Job
  <2>2. runs'[Len(runs) + 1].start = WindowStart(job[q].src, job[q].cur)
    BY <1>6 DEF OpenWindow
  <2>3. (job[q].left - 1) + 1 = job[q].left
    BY <1>0
  <2>. QED
    BY <1>0, <2>1, <2>2, <2>3 DEF Budget, Reaches, WindowStart, Holding, InWindow
<1>7. CASE Crawl(q) \/ Postprocess(q) \/ MarkSuccess(q) \/ WindowRaises(q)
  <2>1. pc[q] \in Holding /\ pc'[q] \in Holding /\ pc'[q] \notin {"create", "loop"} /\ job' = job
    BY <1>7 DEF Crawl, Postprocess, MarkSuccess, WindowRaises, Goto, Holding, InWindow
  <2>2. runs'[job[q].rid].start = runs[job[q].rid].start
    BY <1>7, StartStays
  <2>. QED
    BY <1>0, <2>1, <2>2 DEF Budget, Reaches, WindowStart
<1>8. CASE Advance(q)
  <2>1. pc[q] = "advance" /\ pc'[q] = "loop" /\ pc[q] \in Holding /\ pc'[q] \notin Holding
    BY <1>8 DEF Advance, Goto, Holding, InWindow
  <2>2. /\ job'[q].src = job[q].src /\ job'[q].left = job[q].left /\ job'[q].toEnd = job[q].toEnd
        /\ job'[q].cur = WindowStart(job[q].src, job[q].cur)
    BY <1>0, <1>8, <2>1 DEF Advance, Budget, Job
  <2>3. job[q].toEnd => Reaches(job[q].src, WindowStart(job[q].src, job[q].cur), job[q].left)
    BY <1>0, <2>1, WindowReaches DEF Budget
  <2>. QED
    BY <2>1, <2>2, <2>3 DEF Budget, Reaches, WindowStart
<1>. QED
  BY <1>1, <1>2, <1>3, <1>4, <1>5, <1>6, <1>7, <1>8 DEF Next, Step

\* With --run-to-end a call that meets no failure ends only at until_date.
THEOREM ToEndSafe == Spec => []RunToEndSuffices
<1>1. Init => BudgetInv
  BY DEF Init, BudgetInv, Budget, Holding, InWindow
<1>2. IInv /\ BudgetInv /\ [Next]_vars => BudgetInv'
  BY StepBudget
<1>3. IInv /\ BudgetInv => RunToEndSuffices
  <2>. SUFFICES ASSUME IInv, BudgetInv, NEW r \in Runner,
                       pc[r] = "loop", job[r].toEnd, job[r].left = 0
                PROVE  job[r].cur <= Until[job[r].src]
    BY DEF RunToEndSuffices
  <2>1. job[r].src \in Source /\ job[r].cur \in Day
    BY JobType DEF IInv
  <2>2. Reaches(job[r].src, job[r].cur, 0)
    BY DEF BudgetInv, Budget
  <2>. QED
    BY <2>1, <2>2, ReachedEnd
<1>. QED
  BY Invariance, <1>1, <1>2, <1>3, PTL DEF Spec

-----------------------------------------------------------------------------
(* Which runs stay 'running' *)

Owned == {job[r].rid : r \in {q \in Runner : pc[q] \in InWindow}}

Orphans == {i \in DOMAIN runs : runs[i].status = "running" /\ i \notin Owned}

\* A step leaves at most one run behind, and only a crash leaves one.
LEMMA StepOrphans ==
  ASSUME IInv, [Next]_vars
  PROVE  \/ Orphans' \subseteq Orphans /\ crashes' >= crashes
         \/ crashes' = crashes + 1 /\ \E i : Orphans' \subseteq Orphans \cup {i}
<1>. USE DEF IInv, TypeOK
<1>1. CASE UNCHANGED vars
  BY <1>1 DEF vars, Orphans, Owned
<1>2. SUFFICES ASSUME NEW r \in Runner,
                      (\E s \in Source : LoadCursor(r, s)) \/ Step(r) \/ WindowRaises(r) \/ Crash(r)
               PROVE  \/ Orphans' \subseteq Orphans /\ crashes' >= crashes
                      \/ crashes' = crashes + 1 /\ \E i : Orphans' \subseteq Orphans \cup {i}
  BY <1>1 DEF Next
<1>3. ASSUME NEW i \in Owned, i # job[r].rid \/ pc[r] \notin InWindow PROVE i \in Owned'
  <2>1. PICK q \in Runner : pc[q] \in InWindow /\ i = job[q].rid /\ q # r
    BY <1>3 DEF Owned
  <2>2. pc'[q] = pc[q] /\ job'[q] = job[q]
    BY <1>2, <2>1, OthersRun DEF Holding
  <2>. QED
    BY <2>1, <2>2 DEF Owned
<1>4. CASE Crash(r)
  <2>1. Orphans' \subseteq Orphans \cup {job[r].rid}
    BY <1>3, <1>4 DEF Crash, Orphans
  <2>. QED
    BY <1>4, <2>1 DEF Crash
<1>5. CASE ~ Crash(r)
  <2>1. crashes' >= crashes
    BY <1>2, <1>5 DEF Step, LoadCursor, CreateCursor, CreateCursorConflict, OpenWindow, FinishSource,
       Crawl, Postprocess, MarkSuccess, WindowRaises, MarkFailed, Advance
  <2>2. CASE pc[r] \notin InWindow /\ runs' = runs
    BY <1>3, <2>1, <2>2 DEF Orphans
  <2>3. CASE pc[r] \in InWindow /\ pc'[r] \in InWindow /\ job' = job
             /\ DOMAIN runs' = DOMAIN runs
             /\ \A i \in DOMAIN runs : runs'[i].status = runs[i].status
    <3>1. Owned \subseteq Owned'
      <4>1. job[r].rid \in Owned'
        BY <2>3 DEF Owned
      <4>. QED
        BY <1>3, <4>1
    <3>. QED
      BY <2>1, <2>3, <3>1 DEF Orphans
  <2>4. CASE pc[r] \in InWindow /\ DOMAIN runs' = DOMAIN runs
             /\ runs'[job[r].rid].status # "running"
             /\ \A i \in DOMAIN runs : i # job[r].rid => runs'[i] = runs[i]
    BY <1>3, <2>1, <2>4 DEF Orphans
  <2>5. CASE OpenWindow(r)
    <3>1. /\ pc[r] \notin InWindow /\ pc'[r] \in InWindow /\ job'[r].rid = Len(runs) + 1
          /\ DOMAIN runs' = DOMAIN runs \cup {Len(runs) + 1}
          /\ \A i \in DOMAIN runs : runs'[i] = runs[i]
      BY <2>5 DEF OpenWindow, Goto, InWindow, Job
    <3>2. Len(runs) + 1 \in Owned'
      BY <3>1 DEF Owned
    <3>. QED
      BY <1>3, <2>1, <3>1, <3>2 DEF Orphans
  <2>6. ASSUME pc[r] \in InWindow
        PROVE  job[r].rid \in 1 .. Len(runs) /\ runs[job[r].rid] \in RunRow
    BY <2>6, HeldRunType DEF Holding
  <2>7. CASE Crawl(r)
    <3>1. PICK m \in SUBSET Company : runs' = [runs EXCEPT ![job[r].rid].missed = m]
      BY <2>7 DEF Crawl
    <3>2. pc[r] \in InWindow /\ pc'[r] \in InWindow /\ job' = job
      BY <2>7 DEF Crawl, Goto, InWindow
    <3>3. DOMAIN runs' = DOMAIN runs /\ \A i \in DOMAIN runs : runs'[i].status = runs[i].status
      BY <2>6, <3>1, <3>2 DEF RunRow
    <3>. QED
      BY <2>3, <3>2, <3>3
  <2>8. CASE Postprocess(r)
    <3>2. pc[r] \in InWindow /\ pc'[r] \in InWindow /\ job' = job
      BY <2>8 DEF Postprocess, Goto, InWindow
    <3>3. DOMAIN runs' = DOMAIN runs /\ \A i \in DOMAIN runs : runs'[i].status = runs[i].status
      BY <2>6, <2>8, <3>2 DEF Postprocess, RunRow
    <3>. QED
      BY <2>3, <3>2, <3>3
  <2>9. CASE WindowRaises(r)
    BY <2>3, <2>9 DEF WindowRaises, Goto, InWindow
  <2>10. CASE MarkSuccess(r)
    BY <2>4, <2>6, <2>10 DEF MarkSuccess, InWindow, RunRow
  <2>11. CASE MarkFailed(r)
    BY <2>4, <2>6, <2>11 DEF MarkFailed, InWindow, RunRow
  <2>12. CASE (\E s \in Source : LoadCursor(r, s)) \/ CreateCursor(r) \/ CreateCursorConflict(r)
              \/ FinishSource(r) \/ Advance(r)
    BY <2>2, <2>12 DEF LoadCursor, CreateCursor, CreateCursorConflict, FinishSource, Advance, InWindow
  <2>. QED
    BY <1>2, <1>5, <2>5, <2>7, <2>8, <2>9, <2>10, <2>11, <2>12 DEF Step
<1>. QED
  BY <1>4, <1>5

\* Finitely many runs have no owner, and no more than processes died.
OrphanInv == IsFiniteSet(Orphans) /\ Cardinality(Orphans) <= crashes

LEMMA StepOrphanInv ==
  ASSUME IInv, OrphanInv, [Next]_vars
  PROVE  OrphanInv'
<1>. USE DEF IInv, TypeOK
<1>0. crashes \in Nat /\ crashes' \in Nat /\ IsFiniteSet(Orphans) /\ Cardinality(Orphans) \in Nat
      /\ Cardinality(Orphans) <= crashes
  <2>1. TypeOK'
    BY StepTypeOK
  <2>. QED
    BY <2>1, FS_CardinalityType DEF OrphanInv
<1>1. CASE Orphans' \subseteq Orphans /\ crashes' >= crashes
  <2>1. IsFiniteSet(Orphans') /\ Cardinality(Orphans') <= Cardinality(Orphans)
        /\ Cardinality(Orphans') \in Nat
    BY <1>0, <1>1, FS_Subset, FS_CardinalityType
  <2>. QED
    BY <1>0, <1>1, <2>1 DEF OrphanInv
<1>2. CASE crashes' = crashes + 1 /\ \E i : Orphans' \subseteq Orphans \cup {i}
  <2>1. PICK i : Orphans' \subseteq Orphans \cup {i}
    BY <1>2
  <2>2. IsFiniteSet(Orphans \cup {i}) /\ Cardinality(Orphans \cup {i}) <= Cardinality(Orphans) + 1
        /\ Cardinality(Orphans \cup {i}) \in Nat
    <3>. HIDE DEF Orphans, TypeOK, IInv
    <3>1. /\ IsFiniteSet(Orphans \cup {i})
          /\ Cardinality(Orphans \cup {i}) =
               IF i \in Orphans THEN Cardinality(Orphans) ELSE Cardinality(Orphans) + 1
      BY <1>0, FS_AddElement
    <3>. QED
      BY <1>0, <3>1
  <2>3. IsFiniteSet(Orphans') /\ Cardinality(Orphans') <= Cardinality(Orphans \cup {i})
        /\ Cardinality(Orphans') \in Nat
    BY <2>1, <2>2, FS_Subset, FS_CardinalityType
  <2>. QED
    BY <1>0, <1>2, <2>2, <2>3 DEF OrphanInv
<1>. QED
  BY <1>1, <1>2, StepOrphans

\* A run stays 'running' for ever only where a process died.
THEOREM RunningSafe == Spec => []RunningRunsAccounted
<1>1. Init => OrphanInv
  <2>. SUFFICES ASSUME Init PROVE OrphanInv
    OBVIOUS
  <2>1. Orphans = {} /\ crashes = 0
    BY DEF Init, Orphans
  <2>. QED
    BY <2>1, FS_EmptySet DEF OrphanInv
<1>2. IInv /\ OrphanInv /\ [Next]_vars => OrphanInv'
  BY StepOrphanInv
<1>3. OrphanInv => RunningRunsAccounted
  BY DEF OrphanInv, Orphans, Owned, RunningRunsAccounted
<1>. QED
  BY Invariance, <1>1, <1>2, <1>3, PTL DEF Spec
-----------------------------------------------------------------------------
(* Every call of run_source ends *)

Rank == [l \in Location |->
  CASE l = "create" -> 6
    [] l = "crawl" -> 5
    [] l = "post" -> 4
    [] l = "mark" -> 3
    [] l \in {"advance", "fail"} -> 2
    [] l = "loop" -> 1
    [] l = "idle" -> 0]

\* What a call has left to do: the windows of its budget, and where it stands
\* in the window it is at.
CallLeft(r) == IF pc[r] = "idle" THEN 0 ELSE 7 * job[r].left + Rank[pc[r]]

CallsCounted == \A r \in Runner : CallLeft(r) \in Nat

\* Every step that does not start a call leaves one runner less to do and the
\* others as they are: no failure, conflict or other runner makes a call loop.
CallsEnd ==
  [][\E r \in Runner :
       /\ \/ \E s \in Source : LoadCursor(r, s)
          \/ CallLeft(r)' < CallLeft(r)
       /\ \A q \in Runner : q # r => CallLeft(q)' = CallLeft(q)]_vars

\* A window that succeeded moves the local cursor strictly back, to until_date
\* at the furthest, and stores what it moved to.
WindowsMoveBack ==
  [][\A r \in Runner :
       pc[r] = "advance" /\ pc'[r] = "loop" =>
         /\ job'[r].cur < job[r].cur
         /\ job'[r].cur >= Until[job[r].src]
         /\ cursor'[job[r].src] = job'[r].cur]_vars

\* The ranks are those of Location.
LEMMA Ranks ==
  /\ \A l \in Location : Rank[l] \in 0 .. 6
  /\ Rank["create"] = 6 /\ Rank["crawl"] = 5 /\ Rank["post"] = 4 /\ Rank["mark"] = 3
  /\ Rank["advance"] = 2 /\ Rank["fail"] = 2 /\ Rank["loop"] = 1
BY DEF Rank, Location, InLoop, InWindow

\* A runner under way has something left to do.
LEMMA CallLeftType ==
  ASSUME TypeOK, NEW r \in Runner
  PROVE  /\ CallLeft(r) \in Nat /\ job[r].left \in Nat /\ pc[r] \in Location
         /\ pc[r] # "idle" => CallLeft(r) > 0
<1>1. pc[r] \in Location /\ job[r].left \in Nat
  BY DEF TypeOK, Job
<1>2. Rank[pc[r]] \in 0 .. 6
  BY <1>1, Ranks
<1>3. PICK k \in 0 .. 6, n \in Nat : k = Rank[pc[r]] /\ n = job[r].left
  BY <1>1, <1>2
<1>4. 7 * n + k \in Nat
  OBVIOUS
<1>5. CallLeft(r) \in Nat
  BY <1>3, <1>4 DEF CallLeft
<1>6. pc[r] # "idle" => Rank[pc[r]] > 0
  BY <1>1, Ranks DEF Location, InLoop, InWindow
<1>7. pc[r] # "idle" => CallLeft(r) > 0
  BY <1>3, <1>6 DEF CallLeft
<1> QED
  BY <1>1, <1>5, <1>7

\* A step of a call leaves it less to do.
LEMMA CallCloser ==
  ASSUME TypeOK, NEW r \in Runner, Step(r) \/ WindowRaises(r) \/ Crash(r)
  PROVE  CallLeft(r)' < CallLeft(r)
<1>1. /\ CallLeft(r) \in Nat /\ job[r].left \in Nat /\ job[r] \in Job
      /\ pc[r] # "idle" => CallLeft(r) > 0
  BY CallLeftType DEF TypeOK
<1>2. PICK n \in Nat : n = job[r].left
  BY <1>1
<1>3. pc \in [Runner -> Location] /\ job \in [Runner -> Job]
  BY DEF TypeOK
<1>4. CASE pc'[r] = "idle"
  <2>1. CallLeft(r)' = 0
    BY <1>4 DEF CallLeft
  <2>2. pc[r] # "idle"
    BY DEF Step, CreateCursor, CreateCursorConflict, OpenWindow, FinishSource, Crawl,
       Postprocess, MarkSuccess, MarkFailed, Advance, WindowRaises, Crash
  <2> QED
    BY <1>1, <2>1, <2>2
<1>5. CASE OpenWindow(r)
  <2>1. pc[r] = "loop" /\ pc'[r] = "crawl" /\ n > 0 /\ job'[r].left = n - 1
    BY <1>2, <1>3, <1>5 DEF OpenWindow, Goto, Job
  <2>2. CallLeft(r) = 7 * n + 1 /\ CallLeft(r)' = 7 * (n - 1) + 5
    BY <1>2, <2>1, Ranks DEF CallLeft
  <2> QED
    BY <2>1, <2>2
<1>6. CASE ~ OpenWindow(r) /\ pc'[r] # "idle"
  <2>1. job'[r].left = n
    BY <1>2, <1>3, <1>6 DEF Step, CreateCursor, CreateCursorConflict, FinishSource, Crawl,
       Postprocess, MarkSuccess, MarkFailed, Advance, WindowRaises, Crash, Return, Goto, Job
  <2>2. \/ pc[r] = "create" /\ pc'[r] = "loop"
        \/ pc[r] = "crawl" /\ pc'[r] \in {"fail", "mark", "post"}
        \/ pc[r] = "post" /\ pc'[r] = "mark"
        \/ pc[r] = "mark" /\ pc'[r] = "advance"
        \/ pc[r] \in {"post", "mark"} /\ pc'[r] = "fail"
        \/ pc[r] = "advance" /\ pc'[r] = "loop"
    BY <1>3, <1>6 DEF Step, CreateCursor, CreateCursorConflict, FinishSource, Crawl,
       Postprocess, MarkSuccess, MarkFailed, Advance, WindowRaises, Crash, Return, Goto
  <2>3. PICK k \in 0 .. 6, l \in 0 .. 6 : k = Rank[pc[r]] /\ l = Rank[pc'[r]] /\ l < k
    BY <2>2, Ranks
  <2>4. CallLeft(r) = 7 * n + k /\ CallLeft(r)' = 7 * n + l
    BY <1>2, <1>6, <2>1, <2>2, <2>3 DEF CallLeft
  <2> QED
    BY <2>3, <2>4
<1> QED
  BY <1>4, <1>5, <1>6

\* A step of one runner leaves the calls of the others alone.
LEMMA CallUnchanged ==
  ASSUME TypeOK, NEW r \in Runner, NEW q \in Runner, q # r,
         (\E s \in Source : LoadCursor(r, s)) \/ Step(r) \/ WindowRaises(r) \/ Crash(r)
  PROVE  CallLeft(q)' = CallLeft(q)
<1>1. pc'[q] = pc[q] /\ job'[q] = job[q]
  BY DEF TypeOK, Step, LoadCursor, CreateCursor, CreateCursorConflict, OpenWindow, FinishSource,
     Crawl, Postprocess, MarkSuccess, WindowRaises, MarkFailed, Advance, Crash, Return, Goto
<1> QED
  BY <1>1 DEF CallLeft

\* Every call of run_source ends, whatever fails in it and whoever works on
\* the same source.
THEOREM CallsEndSafe == Spec => []CallsCounted /\ CallsEnd
<1>1. IInv => CallsCounted
  BY CallLeftType DEF IInv, CallsCounted
<1>2. IInv /\ [Next]_vars =>
        [\E r \in Runner :
           /\ \/ \E s \in Source : LoadCursor(r, s)
              \/ CallLeft(r)' < CallLeft(r)
           /\ \A q \in Runner : q # r => CallLeft(q)' = CallLeft(q)]_vars
  <2> SUFFICES ASSUME IInv, Next
               PROVE  \E r \in Runner :
                        /\ \/ \E s \in Source : LoadCursor(r, s)
                           \/ CallLeft(r)' < CallLeft(r)
                        /\ \A q \in Runner : q # r => CallLeft(q)' = CallLeft(q)
    OBVIOUS
  <2>1. PICK r \in Runner :
          (\E s \in Source : LoadCursor(r, s)) \/ Step(r) \/ WindowRaises(r) \/ Crash(r)
    BY DEF Next
  <2>2. \A q \in Runner : q # r => CallLeft(q)' = CallLeft(q)
    BY <2>1, CallUnchanged DEF IInv
  <2>3. (\E s \in Source : LoadCursor(r, s)) \/ CallLeft(r)' < CallLeft(r)
    BY <2>1, CallCloser DEF IInv
  <2> QED
    BY <2>2, <2>3
<1> QED
  BY <1>1, <1>2, Invariance, PTL DEF Spec, CallsEnd

\* Every window that succeeds moves its call strictly towards until_date, and
\* never past it.
THEOREM MovesBackSafe == Spec => WindowsMoveBack
<1>1. IInv /\ [Next]_vars =>
        [\A r \in Runner :
           pc[r] = "advance" /\ pc'[r] = "loop" =>
             /\ job'[r].cur < job[r].cur
             /\ job'[r].cur >= Until[job[r].src]
             /\ cursor'[job[r].src] = job'[r].cur]_vars
  <2> SUFFICES ASSUME IInv, Next, NEW r \in Runner, pc[r] = "advance", pc'[r] = "loop"
               PROVE  /\ job'[r].cur < job[r].cur
                      /\ job'[r].cur >= Until[job[r].src]
                      /\ cursor'[job[r].src] = job'[r].cur
    OBVIOUS
  <2>1. PICK q \in Runner :
          (\E s \in Source : LoadCursor(q, s)) \/ Step(q) \/ WindowRaises(q) \/ Crash(q)
    BY DEF Next
  <2>2. TypeOK /\ pc[r] \in Holding /\ HeldRun(r) /\ job[r] \in Job
    BY DEF IInv, HeldInv, Holding, TypeOK
  <2>3. q = r
    BY <2>1, <2>2 DEF TypeOK, Step, LoadCursor, CreateCursor, CreateCursorConflict, OpenWindow,
       FinishSource, Crawl, Postprocess, MarkSuccess, WindowRaises, MarkFailed, Advance, Crash,
       Return, Goto
  <2>4. Advance(r)
    BY <2>1, <2>2, <2>3 DEF TypeOK, Step, LoadCursor, CreateCursor, CreateCursorConflict,
       OpenWindow, FinishSource, Crawl, Postprocess, MarkSuccess, WindowRaises, MarkFailed,
       Crash, Return, Goto
  <2>5. /\ job'[r].cur = runs[job[r].rid].start
        /\ cursor'[job[r].src] = runs[job[r].rid].start
    BY <2>2, <2>4 DEF TypeOK, Advance, Job
  <2> QED
    BY <2>2, <2>5 DEF HeldRun
<1> QED
  BY <1>1, Invariance, PTL DEF Spec, WindowsMoveBack

=============================================================================
