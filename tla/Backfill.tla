------------------------------ MODULE Backfill ------------------------------
(***************************************************************************)
(* The cursor driven backfill crawler (src/crawler/backfill_runner.py)     *)
(* with its state tables crawl_cursors and crawl_runs                      *)
(* (src/db/crawl_state_store.py), in the mode that keeps state             *)
(* (use_state = persist = True).                                           *)
(*                                                                         *)
(* A runner is one process of run_backfill_crawler.py.  It walks a source  *)
(* backwards in time, one window at a time, and moves the stored cursor    *)
(* after each window that succeeded.  Nothing excludes two runners on the  *)
(* same source, and a runner may die between any two database commits.     *)
(* One action stands for the code between two commits.                     *)
(***************************************************************************)
EXTENDS Integers, Sequences, FiniteSets

CONSTANTS
  Runner,        \* processes of run_backfill_crawler.py
  Source,        \* the keys of BACKFILL_SOURCES
  StrictSource,  \* sources whose crawl errors fail the window (naver_news)
  Company,       \* crawl units of a source: one crawler call each
  Until,         \* until_date of each source, as a day number
  WindowDays,    \* window_days of each source
  WindowsPerRun, \* max_windows_per_run of each source
  Enabled,       \* the sources whose row is enabled
  InitialDate,   \* values of initial_cursor_date (today, or --cursor-date)
  Override,      \* values of --max-windows
  Mode,          \* process_after_window: "none", "preprocess" or "full"
  NoRow,         \* the source has no crawl_cursors row yet
  MaxFailures,   \* bound: failed windows of a behaviour
  MaxCrashes,    \* bound: dead processes of a behaviour
  MaxRuns        \* bound: rows of crawl_runs

ASSUME ConfigAssumption ==
  /\ Source # {} /\ StrictSource \subseteq Source /\ Enabled \subseteq Source
  /\ Until \in [Source -> Nat]
  /\ WindowDays \in [Source -> Nat \ {0}]
  /\ WindowsPerRun \in [Source -> Nat]
  /\ InitialDate \subseteq Nat /\ InitialDate # {} /\ Override \subseteq Nat
  /\ Mode \in {"none", "preprocess", "full"}
  /\ NoRow \notin Nat
  /\ MaxFailures \in Nat /\ MaxCrashes \in Nat /\ MaxRuns \in Nat

VARIABLES
  cursor,  \* crawl_cursors.cursor_date of each source, or NoRow
  origin,  \* history: the date the row was created with
  runs,    \* crawl_runs, in order of creation
  pc,      \* where each runner stands in run_source
  job,     \* local variables of each runner's run_source call
  failures, \* windows that failed so far
  crashes   \* processes that died so far

vars == <<cursor, origin, runs, pc, job, failures, crashes>>

-----------------------------------------------------------------------------
(* Types *)

\* The day numbers that occur: from day 0 to the latest initial date.
Day == UNION {0 .. d : d \in InitialDate}

\* A row of crawl_runs.  missed and stage are history: the companies whose
\* crawl raised, and how far the collected articles were processed.
RunRow == [src    : Source,
           start  : Day,
           end    : Day,
           status : {"running", "success", "failed"},
           missed : SUBSET Company,
           stage  : {"collecting", "preprocessed", "delivered"}]

Job == [src : Source, cur : Day, left : Nat, toEnd : BOOLEAN, rid : Nat]

NoJob == [src |-> CHOOSE s \in Source : TRUE,
          cur |-> 0, left |-> 0, toEnd |-> FALSE, rid |-> 0]

InWindow == {"crawl", "post", "mark", "fail"}   \* inside _run_window
InLoop   == InWindow \cup {"loop", "advance"}   \* inside the for of run_source
Location == InLoop \cup {"idle", "create"}

-----------------------------------------------------------------------------
(* Arithmetic of the windows *)

\* Bug: the window is not cut off at until_date.
WindowStartUnclamped(s, c) ==
  IF c > WindowDays[s] THEN c - WindowDays[s] ELSE 0

\* The window below cursor date c: at most window_days, never below until_date.
WindowStart(s, c) ==
  IF c - WindowDays[s] >= Until[s] THEN c - WindowDays[s] ELSE Until[s]

\* Bug: the division rounds down.
ToEndWindowsFloor(s, c) ==
  IF c <= Until[s] THEN 0 ELSE (c - Until[s]) \div WindowDays[s]

\* --run-to-end: the windows left, rounded up.
ToEndWindows(s, c) ==
  IF c <= Until[s] THEN 0
  ELSE (c - Until[s] + WindowDays[s] - 1) \div WindowDays[s]

-----------------------------------------------------------------------------
Init ==
  /\ cursor = [s \in Source |-> NoRow]
  /\ origin = [s \in Source |-> NoRow]
  /\ runs = << >>
  /\ pc = [r \in Runner |-> "idle"]
  /\ job = [r \in Runner |-> NoJob]
  /\ failures = 0 /\ crashes = 0

\* run_source returns, or its process ends.
Return(r) ==
  /\ pc' = [pc EXCEPT ![r] = "idle"]
  /\ job' = [job EXCEPT ![r] = NoJob]

Goto(r, l) == pc' = [pc EXCEPT ![r] = l]

Failure ==
  /\ failures < MaxFailures
  /\ failures' = failures + 1

\* Bug: the call starts from initial_cursor_date although a cursor is stored.
LoadCursorFromStart(r, s) ==
  /\ pc[r] = "idle"
  /\ s \in Enabled
  /\ \E d \in InitialDate :
       job' = [job EXCEPT ![r] =
                 [src |-> s, cur |-> d, left |-> WindowsPerRun[s], toEnd |-> FALSE, rid |-> 0]]
  /\ Goto(r, IF cursor[s] = NoRow THEN "create" ELSE "loop")
  /\ UNCHANGED <<cursor, origin, runs, failures, crashes>>

\* run_source is called: the SELECT of get_or_create_cursor, then
\* _resolve_max_windows.  A disabled source returns at once.
LoadCursor(r, s) ==
  /\ pc[r] = "idle"
  /\ \E e \in BOOLEAN, n \in Override \cup {WindowsPerRun[s]}, d \in InitialDate :
       LET c == IF cursor[s] = NoRow THEN d ELSE cursor[s]
       IN  /\ \/ cursor[s] = NoRow
              \/ s \in Enabled
           /\ job' = [job EXCEPT ![r] =
                        [src   |-> s,
                         cur   |-> c,
                         left  |-> IF e THEN ToEndWindows(s, c) ELSE n,
                         toEnd |-> e,
                         rid   |-> 0]]
  /\ Goto(r, IF cursor[s] = NoRow THEN "create" ELSE "loop")
  /\ UNCHANGED <<cursor, origin, runs, failures, crashes>>

\* The INSERT of get_or_create_cursor after a SELECT that found no row.
CreateCursor(r) ==
  LET s == job[r].src IN
  /\ pc[r] = "create"
  /\ cursor[s] = NoRow
  /\ cursor' = [cursor EXCEPT ![s] = job[r].cur]
  /\ origin' = [origin EXCEPT ![s] = job[r].cur]
  /\ \/ /\ s \in Enabled
        /\ Goto(r, "loop")
        /\ UNCHANGED job
     \/ /\ s \notin Enabled
        /\ Return(r)
  /\ UNCHANGED <<runs, failures, crashes>>

\* The same INSERT when another runner created the row in between: the primary
\* key is violated and the exception ends the process.
CreateCursorConflict(r) ==
  /\ pc[r] = "create"
  /\ cursor[job[r].src] # NoRow
  /\ Return(r)
  /\ UNCHANGED <<cursor, origin, runs, failures, crashes>>

\* Bug: the loop ignores max_windows.
OpenWindowForever(r) ==
  LET j == job[r] IN
  /\ pc[r] = "loop"
  /\ j.cur > Until[j.src]
  /\ Len(runs) < MaxRuns
  /\ runs' = Append(runs, [src |-> j.src, start |-> WindowStart(j.src, j.cur), end |-> j.cur,
                           status |-> "running", missed |-> {}, stage |-> "collecting"])
  /\ job' = [job EXCEPT ![r].left = @ - 1, ![r].rid = Len(runs) + 1]
  /\ Goto(r, "crawl")
  /\ UNCHANGED <<cursor, origin, failures, crashes>>

\* One turn of the for loop: create_crawl_run for the next window.
OpenWindow(r) ==
  LET j == job[r] IN
  /\ pc[r] = "loop"
  /\ j.left > 0
  /\ j.cur > Until[j.src]
  /\ Len(runs) < MaxRuns
  /\ runs' = Append(runs, [src    |-> j.src,
                           start  |-> WindowStart(j.src, j.cur),
                           end    |-> j.cur,
                           status |-> "running",
                           missed |-> {},
                           stage  |-> "collecting"])
  /\ job' = [job EXCEPT ![r].left = @ - 1, ![r].rid = Len(runs) + 1]
  /\ Goto(r, "crawl")
  /\ UNCHANGED <<cursor, origin, failures, crashes>>

\* The loop ends: no window left to run, or the cursor reached until_date.
FinishSource(r) ==
  /\ pc[r] = "loop"
  /\ job[r].left = 0 \/ job[r].cur <= Until[job[r].src]
  /\ Return(r)
  /\ UNCHANGED <<cursor, origin, runs, failures, crashes>>

\* Bug: the errors of naver_news are only logged, like those of the others.
CrawlLenient(r) ==
  /\ pc[r] = "crawl"
  /\ \E m \in SUBSET Company : runs' = [runs EXCEPT ![job[r].rid].missed = m]
  /\ Goto(r, IF Mode = "none" THEN "mark" ELSE "post")
  /\ UNCHANGED <<cursor, origin, job, failures, crashes>>

\* run_sources collects and saves the window.  The crawl of a company may
\* raise: the error is logged and the others go on.  Only naver_news turns such
\* errors into a failure of the whole window, before anything is saved.
Crawl(r) ==
  /\ pc[r] = "crawl"
  /\ \E m \in SUBSET Company :
       LET raised == m # {} /\ job[r].src \in StrictSource IN
       /\ IF raised THEN Failure ELSE UNCHANGED failures
       /\ runs' = [runs EXCEPT ![job[r].rid].missed = m]
       /\ Goto(r, IF raised THEN "fail"
                  ELSE IF Mode = "none" THEN "mark" ELSE "post")
  /\ UNCHANGED <<cursor, origin, job, crashes>>

\* _run_pipeline_for_run: preprocessing of the articles of the run.  The mode
\* is only passed on as the label of the trigger.
Postprocess(r) ==
  /\ pc[r] = "post"
  /\ runs' = [runs EXCEPT ![job[r].rid].stage = "preprocessed"]
  /\ Goto(r, "mark")
  /\ UNCHANGED <<cursor, origin, job, failures, crashes>>

\* mark_crawl_run_success.
MarkSuccess(r) ==
  /\ pc[r] = "mark"
  /\ runs' = [runs EXCEPT ![job[r].rid].status = "success"]
  /\ Goto(r, "advance")
  /\ UNCHANGED <<cursor, origin, job, failures, crashes>>

\* Any statement of the try block raises: link check or commit of the crawl,
\* preprocessing, or the UPDATE of mark_crawl_run_success.
WindowRaises(r) ==
  /\ pc[r] \in {"crawl", "post", "mark"}
  /\ Failure
  /\ Goto(r, "fail")
  /\ UNCHANGED <<cursor, origin, runs, job, crashes>>

\* Bug: run_source does not look at the status of the window.
MarkFailedGoOn(r) ==
  /\ pc[r] = "fail"
  /\ runs' = [runs EXCEPT ![job[r].rid].status = "failed"]
  /\ Goto(r, "advance")
  /\ UNCHANGED <<cursor, origin, job, failures, crashes>>

\* Bug: the except block only logs.
MarkFailedNot(r) ==
  /\ pc[r] = "fail"
  /\ Return(r)
  /\ UNCHANGED <<cursor, origin, runs, failures, crashes>>

\* The except block: mark_crawl_run_failed, and run_source breaks.
MarkFailed(r) ==
  /\ pc[r] = "fail"
  /\ runs' = [runs EXCEPT ![job[r].rid].status = "failed"]
  /\ Return(r)
  /\ UNCHANGED <<cursor, origin, failures, crashes>>

\* The window succeeded: the local cursor moves and update_cursor stores it,
\* without a look at the stored value.
Advance(r) ==
  LET d == runs[job[r].rid].start IN
  /\ pc[r] = "advance"
  /\ cursor' = [cursor EXCEPT ![job[r].src] = d]
  /\ job' = [job EXCEPT ![r].cur = d, ![r].rid = 0]
  /\ Goto(r, "loop")
  /\ UNCHANGED <<origin, runs, failures, crashes>>

\* The process dies: killed, or an exception outside the try block.
Crash(r) ==
  /\ pc[r] # "idle"
  /\ crashes < MaxCrashes
  /\ crashes' = crashes + 1
  /\ Return(r)
  /\ UNCHANGED <<cursor, origin, runs, failures>>

Step(r) ==
  \/ CreateCursor(r)
  \/ CreateCursorConflict(r)
  \/ OpenWindow(r)
  \/ FinishSource(r)
  \/ Crawl(r)
  \/ Postprocess(r)
  \/ MarkSuccess(r)
  \/ MarkFailed(r)
  \/ Advance(r)

Next ==
  \E r \in Runner :
    \/ \E s \in Source : LoadCursor(r, s)
    \/ Step(r)
    \/ WindowRaises(r)
    \/ Crash(r)

Spec == Init /\ [][Next]_vars

\* A live process goes on.  One invocation walks through all the sources it is
\* given (all of them by default), and invocations are repeated: no source is
\* for ever passed over, hence strong fairness of a call with windows to run.
Fairness ==
  /\ \A r \in Runner : WF_vars(Step(r))
  /\ \A s \in Source : SF_vars(\E r \in Runner : LoadCursor(r, s) /\ job'[r].left > 0)

FairSpec == Spec /\ Fairness

-----------------------------------------------------------------------------
(* Properties *)

\* Type invariant.
TypeOK ==
  /\ cursor \in [Source -> Day \cup {NoRow}]
  /\ origin \in [Source -> Day \cup {NoRow}]
  /\ runs \in Seq(RunRow)
  /\ pc \in [Runner -> Location]
  /\ job \in [Runner -> Job]
  /\ failures \in Nat /\ crashes \in Nat

\* What a finished window guarantees: the run succeeded, the configured
\* processing ran, and a strict source has the articles of every company.
Complete(run) ==
  /\ run.status = "success"
  /\ Mode # "none" => run.stage = "preprocessed"
  /\ run.src \in StrictSource => run.missed = {}

\* The days of source s that complete runs have collected.  Both ends of a
\* window belong to it (time.min of the first day, time.max of the last).
Done(s) ==
  UNION {runs[i].start .. runs[i].end :
           i \in {k \in DOMAIN runs : runs[k].src = s /\ Complete(runs[k])}}

\* Everything between day d and the day the backfill of s began is done.
CoveredFrom(s, d) ==
  d < origin[s] => d .. origin[s] \subseteq Done(s)

\* The stored cursor never passes a day that no complete run covers: whatever
\* crashes, fails or runs at the same time, going on from the cursor skips
\* nothing ("cursor not advanced", batch_processor.py:244).
CursorCovered ==
  \A s \in Source : cursor[s] # NoRow => CoveredFrom(s, cursor[s])

\* The cursor stays between until_date and the day it began, unless it began
\* below until_date; then it does not move.
CursorInRange ==
  \A s \in Source : cursor[s] # NoRow =>
    /\ cursor[s] <= origin[s]
    /\ cursor[s] >= Until[s] \/ cursor[s] = origin[s]

\* A run stays 'running' for ever only where a process died: the rows that no
\* live runner works on are at most as many as the crashes.
RunningRunsAccounted ==
  LET owned == {job[r].rid : r \in {q \in Runner : pc[q] \in InWindow}}
  IN  Cardinality({i \in DOMAIN runs : runs[i].status = "running" /\ i \notin owned}) <= crashes

\* --run-to-end computes enough windows: a call that meets no failure ends
\* only when its cursor is at until_date.
RunToEndSuffices ==
  \A r \in Runner :
    pc[r] = "loop" /\ job[r].toEnd /\ job[r].left = 0
      => job[r].cur <= Until[job[r].src]

\* Every enabled source is backfilled down to until_date, when failures stop.
BackfillCompletes ==
  \A s \in Enabled : <>(cursor[s] # NoRow /\ cursor[s] <= Until[s])

-----------------------------------------------------------------------------
(* The abstract specification this module implements *)

Coverage == INSTANCE BackfillCoverage
              WITH frontier <- cursor, start <- origin, Day <- Day,
                   done <- [s \in Source |-> Done(s)]

ImplementsCoverage == Coverage!Spec
=============================================================================
