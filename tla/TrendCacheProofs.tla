-------------------------- MODULE TrendCacheProofs --------------------------
(***************************************************************************)
(* Proofs about TrendCache, for any number of processes, threads, ticks    *)
(* and refreshes.  FreshEnough speaks of answers; IInv says the same of    *)
(* what a call holds between its query and its write, and of the cache:    *)
(* each carries a time before its query, and has all trends that were      *)
(* committed before that time.                                             *)
(***************************************************************************)
EXTENDS TrendCache, TLAPS

\* All trends committed before time s are among the first v.
Knows(v, s) == \A i \in DOMAIN trends : trends[i] < s => i <= v

IInv ==
  /\ TypeOK
  /\ \A i \in DOMAIN trends : trends[i] <= clock
  /\ \A t \in Reader : reader[t].now <= clock
  /\ \A t \in Reader : reader[t].at = "store" => Knows(reader[t].version, reader[t].now)
  /\ \A p \in Process : cache[p] # NoEntry =>
       cache[p].at <= clock /\ Knows(cache[p].version, cache[p].at)
  /\ FreshEnough

-----------------------------------------------------------------------------
LEMMA InitIInv == Init => IInv
  BY TrendAssumption DEF Init, IInv, TypeOK, Call, FreshEnough, Knows

LEMMA NextIInv == IInv /\ [Next]_vars => IInv'
<1> SUFFICES ASSUME IInv, [Next]_vars PROVE IInv'
  OBVIOUS
<1> USE TrendAssumption DEF IInv, TypeOK, Knows, FreshEnough, Call, Entry
<1>1. CASE Tick
  BY <1>1 DEF Tick
<1>2. ASSUME NEW t \in Reader, Lookup(t) PROVE IInv'
  BY <1>2 DEF Lookup, Fresh
<1>3. ASSUME NEW t \in Reader, Query(t) PROVE IInv'
  <2> USE <1>3 DEF Query
  <2>1. Len(trends) \in Nat /\ DOMAIN trends = 1 .. Len(trends)
    OBVIOUS
  <2>2. reader' = [reader EXCEPT ![t] = [reader[t] EXCEPT !.at = "store",
                                                        !.version = Len(trends)]]
    OBVIOUS
  <2>3. reader' \in [Reader -> Call]
    BY <2>1, <2>2
  <2>4. \A u \in Reader : reader'[u].at = "store" =>
          Knows(reader'[u].version, reader'[u].now)
    BY <2>1, <2>2
  <2>5. FreshEnough'
    BY <2>2
  <2>6. \A u \in Reader : reader'[u].now <= clock
    BY <2>2
  <2> QED
    BY <2>3, <2>4, <2>5, <2>6
<1>4. ASSUME NEW t \in Reader, Store(t) PROVE IInv'
  <2> USE <1>4 DEF Store, Stamp
  <2>1. PICK e : e = [at |-> reader[t].now, version |-> reader[t].version]
    OBVIOUS
  <2>2. e \in Entry /\ e.at <= clock /\ Knows(e.version, e.at)
    BY <2>1
  <2>3. cache' = [cache EXCEPT ![ProcessOf[t]] = e]
    BY <2>1
  <2>4. cache' \in [Process -> Entry \cup {NoEntry}]
    BY <2>2, <2>3
  <2>5. \A p \in Process : cache'[p] # NoEntry =>
          cache'[p].at <= clock /\ Knows(cache'[p].version, cache'[p].at)
    BY <2>2, <2>3
  <2>6. /\ reader' \in [Reader -> Call]
        /\ \A u \in Reader : reader'[u].now <= clock
        /\ \A u \in Reader : reader'[u].at = "store" => Knows(reader'[u].version, reader'[u].now)
    OBVIOUS
  <2>7. FreshEnough'
    OBVIOUS
  <2> QED
    BY <2>4, <2>5, <2>6, <2>7
<1>5. ASSUME NEW t \in Reader, Raise(t) PROVE IInv'
  BY <1>5 DEF Raise
<1>6. ASSUME NEW p \in Process, Refresh(p) PROVE IInv'
  BY <1>6 DEF Refresh
<1>7. ASSUME NEW p \in Process, Invalidate(p) PROVE IInv'
  BY <1>7 DEF Invalidate
<1>8. ASSUME NEW p \in Process, Restart(p) PROVE IInv'
  BY <1>8 DEF Restart
<1>9. CASE UNCHANGED vars
  BY <1>9 DEF vars
<1> QED
  BY <1>1, <1>2, <1>3, <1>4, <1>5, <1>6, <1>7, <1>8, <1>9 DEF Next

\* The variables have their types: the cache holds entries, calls their fields.
THEOREM TypeCorrect == Spec => []TypeOK
<1>1. IInv => TypeOK
  BY DEF IInv
<1> QED
  BY InitIInv, NextIInv, <1>1, PTL DEF Spec

\* An answer misses no trend older than one time to live at its call's begin.
THEOREM FreshSafe == Spec => []FreshEnough
<1>1. IInv => FreshEnough
  BY DEF IInv
<1> QED
  BY InitIInv, NextIInv, <1>1, PTL DEF Spec

=============================================================================
