----------------------------- MODULE TrendCache -----------------------------
(***************************************************************************)
(* The trend context of an analysis: fetch_latest_trend_context in         *)
(* src/db/article_store.py reads global_industry_trends through a cache    *)
(* that each process keeps for a minute.  Its lock is held to look into    *)
(* the dictionary and to write it, and not during the query between.       *)
(* ITTrendAgent stores new trends and then clears the cache of its own     *)
(* process with invalidate_trend_context_cache.                            *)
(***************************************************************************)
EXTENDS Integers, Sequences

CONSTANTS
  Process,   \* API processes and jobs
  Reader,    \* threads that analyse a bundle
  ProcessOf, \* the process of each thread
  TTL,       \* _TREND_CACHE_TTL_SEC
  NoEntry,   \* an empty cache
  MaxTime,   \* bound: ticks of the clock
  MaxTrends  \* bound: refreshes of the trends

ASSUME TrendAssumption ==
  /\ ProcessOf \in [Reader -> Process]
  /\ TTL \in Nat \ {0}
  /\ MaxTime \in Nat /\ MaxTrends \in Nat
  /\ NoEntry \notin [at : Nat, version : Nat]

VARIABLES
  clock,   \* time.monotonic()
  trends,  \* global_industry_trends: the times its versions were committed
  cache,   \* _trend_cache of each process
  due,     \* in each process, agents that have stored trends and not yet cleared
  reader   \* local variables of each call

vars == <<clock, trends, cache, due, reader>>

-----------------------------------------------------------------------------
Entry == [at : Nat, version : Nat]

\* now: the time the call began; version: what it has read, or answers.
Call == [at : {"idle", "query", "store", "done"}, now : Nat, version : Nat]

Init ==
  /\ clock = 0
  /\ trends = <<>>
  /\ cache = [p \in Process |-> NoEntry]
  /\ due = [p \in Process |-> 0]
  /\ reader = [t \in Reader |-> [at |-> "idle", now |-> 0, version |-> 0]]

Tick ==
  /\ clock < MaxTime
  /\ clock' = clock + 1
  /\ UNCHANGED <<trends, cache, due, reader>>

\* Mutant: an entry as old as the time to live is fresh.
FreshAtLimit(e, now) == e # NoEntry /\ now - e.at <= TTL

Fresh(e, now) == e # NoEntry /\ now - e.at < TTL

\* The time is taken, and the cache is looked up under the lock.
Lookup(t) ==
  LET e == cache[ProcessOf[t]] IN
  /\ reader[t].at \in {"idle", "done"}
  /\ reader' = [reader EXCEPT ![t] =
       IF Fresh(e, clock)
       THEN [at |-> "done", now |-> clock, version |-> e.version]
       ELSE [at |-> "query", now |-> clock, version |-> 0]]
  /\ UNCHANGED <<clock, trends, cache, due>>

Query(t) ==
  /\ reader[t].at = "query"
  /\ reader' = [reader EXCEPT ![t].at = "store", ![t].version = Len(trends)]
  /\ UNCHANGED <<clock, trends, cache, due>>

\* Mutant: the entry carries the time before which entries expire.
StampedExpired(t) == reader[t].now - TTL

\* The entry carries the time at which the call began.
Stamp(t) == reader[t].now

Store(t) ==
  /\ reader[t].at = "store"
  /\ cache' = [cache EXCEPT ![ProcessOf[t]] =
                 [at |-> Stamp(t), version |-> reader[t].version]]
  /\ reader' = [reader EXCEPT ![t].at = "done"]
  /\ UNCHANGED <<clock, trends, due>>

\* The query raises; the analysis goes on with an empty context.
Raise(t) ==
  /\ reader[t].at = "query"
  /\ reader' = [reader EXCEPT ![t].at = "idle"]
  /\ UNCHANGED <<clock, trends, cache, due>>

\* upsert_global_industry_trends commits.
Refresh(p) ==
  /\ Len(trends) < MaxTrends
  /\ trends' = Append(trends, clock)
  /\ due' = [due EXCEPT ![p] = @ + 1]
  /\ UNCHANGED <<clock, cache, reader>>

Invalidate(p) ==
  /\ due[p] > 0
  /\ due' = [due EXCEPT ![p] = @ - 1]
  /\ cache' = [cache EXCEPT ![p] = NoEntry]
  /\ UNCHANGED <<clock, trends, reader>>

\* The process dies; its cache and calls are gone.
Restart(p) ==
  /\ cache' = [cache EXCEPT ![p] = NoEntry]
  /\ due' = [due EXCEPT ![p] = 0]
  /\ reader' = [t \in Reader |-> IF ProcessOf[t] = p
                                 THEN [at |-> "idle", now |-> 0, version |-> 0]
                                 ELSE reader[t]]
  /\ UNCHANGED <<clock, trends>>

Next ==
  \/ Tick
  \/ \E t \in Reader : Lookup(t) \/ Query(t) \/ Store(t) \/ Raise(t)
  \/ \E p \in Process : Refresh(p) \/ Invalidate(p) \/ Restart(p)

Spec == Init /\ [][Next]_vars

-----------------------------------------------------------------------------
(* Properties *)

TypeOK ==
  /\ clock \in Nat
  /\ trends \in Seq(Nat)
  /\ cache \in [Process -> Entry \cup {NoEntry}]
  /\ due \in [Process -> Nat]
  /\ reader \in [Reader -> Call]

\* An analysis that begins at time t has at least the trends that were stored
\* up to t - TTL: the loss of freshness is one time to live in every process,
\* although calls store what they read in any order, even after the cache was
\* cleared.
FreshEnough ==
  \A t \in Reader : reader[t].at = "done" =>
    \A v \in DOMAIN trends : trends[v] + TTL <= reader[t].now => v <= reader[t].version

=============================================================================
