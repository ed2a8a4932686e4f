------------------------- MODULE ContentIndexProofs -------------------------
(***************************************************************************)
(* Proofs about ContentIndex, for any number of indexers, rows, keys,      *)
(* chunks, saves and failures.  SomeTextWhole and LatestAlone speak of     *)
(* keys no call works on; the conjuncts of IInv say how far each call has  *)
(* got: what a call has not upserted it still holds (Held), a call that    *)
(* meets no other owns the points of its key (Alone), and of the calls for *)
(* one key the last to delete carries a whole text (Carried).  The last    *)
(* section shows that no call stands still or runs for ever.               *)
(***************************************************************************)
EXTENDS ContentIndex, FiniteSetTheorems, WellFoundedInduction, TLAPS

Mine(w) == KeysOf(call[w])

\* The chunks of key k that call w has upserted or will.
Carries(w, k) == Chunks(k, call[w].took[k]) \subseteq points \cup call[w].todo

Held ==
  \A w \in Indexer :
    /\ call[w].at \in {"idle", "saved"} => call[w].todo = {} /\ call[w].stale = {}
    /\ call[w].at = "idle" => Mine(w) = {}
    /\ call[w].at = "upsert" => call[w].stale = {}
    /\ call[w].at = "delete" =>
         \A k \in Mine(w) : Chunks(k, call[w].took[k]) \subseteq call[w].todo
    /\ call[w].stale \subseteq Mine(w)
    /\ \A p \in call[w].todo : p.key \in Mine(w) /\ p \in Chunks(p.key, call[w].took[p.key])

Met ==
  \A w, i \in Indexer : w # i => Mine(w) \cap Mine(i) \subseteq call[w].met

Alone ==
  \A w \in Indexer : \A k \in Mine(w) \ call[w].met :
    /\ Carries(w, k)
    /\ last[k] = call[w].took[k]
    /\ k \notin call[w].kept \cup call[w].stale =>
         Shown(k) \subseteq Chunks(k, call[w].took[k])

Whole(k) == \E v \in 1 .. MaxSaves : Chunks(k, v) \subseteq points

Carried ==
  \A k \in Key : k \notin broken /\ last[k] # 0 =>
    Whole(k) \/ \E w \in Indexer : k \in Mine(w) /\ Carries(w, k)

IInv == TypeOK /\ Held /\ Met /\ Alone /\ Carried /\ LatestAlone

-----------------------------------------------------------------------------
(* Chunks *)

LEMMA ChunksType ==
  ASSUME NEW k \in Key, NEW v \in Version PROVE Chunks(k, v) \subseteq Chunk
  BY DEF Chunks, Chunk

LEMMA ChunksKey ==
  ASSUME NEW k, NEW v, NEW p \in Chunks(k, v) PROVE p.key = k
  BY DEF Chunks

LEMMA NoCallType == NoCall \in Call /\ KeysOf(NoCall) = {}
  BY IndexAssumption DEF NoCall, Call, KeysOf, Version

-----------------------------------------------------------------------------
LEMMA InitIInv == Init => IInv
<1> SUFFICES ASSUME Init PROVE IInv
  OBVIOUS
<1> USE DEF Init
<1>1. TypeOK
  BY IndexAssumption, NoCallType DEF TypeOK, Version
<1>2. \A w \in Indexer : call[w] = NoCall /\ Mine(w) = {}
  BY NoCallType DEF Mine
<1>3. Held /\ Met /\ Alone
  BY <1>2 DEF Held, Met, Alone, NoCall
<1>4. Carried /\ LatestAlone
  BY DEF Carried, LatestAlone
<1> QED
  BY <1>1, <1>3, <1>4 DEF IInv

\* What a call begins with.
LEMMA BeginFacts ==
  ASSUME NEW w \in Indexer, NEW took \in [Key -> Version], NEW replace \in BOOLEAN,
         IInv, call[w].at \in {"idle", "saved"}, Begin(w, took, replace),
         text' = text, saves' = saves, scripts' \in 0 .. MaxScripts
  PROVE  IInv'
<1> DEFINE K == {k \in Key : took[k] # 0}
           new == call'[w]
<1> USE DEF IInv
<1>1. /\ new.at = (IF replace THEN "delete" ELSE "upsert") /\ new.took = took
      /\ new.stale = (IF replace THEN K ELSE {})
      /\ new.todo = UNION {Chunks(k, took[k]) : k \in K}
      /\ new.kept = (IF replace THEN {} ELSE K)
      /\ new.met = {k \in K : ~Quiet(k)}
  BY DEF Begin, TypeOK, Replaced
<1>2. Mine(w)' = K
  BY <1>1 DEF Mine, KeysOf
<1>3. Mine(w) = {}
  BY DEF Held, Mine, KeysOf
<1>4. \A i \in Indexer \ {w} :
        /\ call'[i] = [call[i] EXCEPT !.met = @ \cup (K \cap Mine(i))]
        /\ call[i] \in Call
  BY DEF Begin, TypeOK, Mine
<1>5. \A i \in Indexer \ {w} :
        /\ call'[i] \in Call
        /\ call'[i].at = call[i].at /\ call'[i].took = call[i].took
        /\ call'[i].stale = call[i].stale /\ call'[i].todo = call[i].todo
        /\ call'[i].kept = call[i].kept /\ call'[i].met = call[i].met \cup (K \cap Mine(i))
        /\ Mine(i)' = Mine(i)
  <2> SUFFICES ASSUME NEW i \in Indexer \ {w}
      PROVE /\ call'[i] \in Call
            /\ call'[i].at = call[i].at /\ call'[i].took = call[i].took
            /\ call'[i].stale = call[i].stale /\ call'[i].todo = call[i].todo
            /\ call'[i].kept = call[i].kept
            /\ call'[i].met = call[i].met \cup (K \cap Mine(i))
            /\ Mine(i)' = Mine(i)
    OBVIOUS
  <2>1. call'[i] = [call[i] EXCEPT !.met = @ \cup (K \cap Mine(i))] /\ call[i] \in Call
    BY <1>4
  <2>2. Mine(i) \subseteq Key
    BY DEF Mine, KeysOf
  <2> QED
    BY <2>1, <2>2 DEF Call, Mine, KeysOf
<1>6. points' = points /\ broken' = broken /\ mixed' = mixed /\ failures' = failures
  BY DEF Begin
<1>7. last' = [k \in Key |-> IF k \in K THEN took[k] ELSE last[k]]
  BY DEF Begin
<1>8. new.todo \subseteq Chunk /\ \A k \in K : Chunks(k, took[k]) \subseteq new.todo
  BY <1>1, ChunksType
<1>9. TypeOK'
  <2>1. new \in Call
    <3>1. new = [at |-> IF replace THEN "delete" ELSE "upsert", took |-> took,
                 stale |-> IF replace THEN K ELSE {},
                 todo |-> UNION {Chunks(k, took[k]) : k \in K},
                 kept |-> IF replace THEN {} ELSE K, met |-> {k \in K : ~Quiet(k)}]
      BY DEF Begin, TypeOK, Replaced
    <3> QED
      BY <3>1, <1>1, <1>8 DEF Call
  <2>2. call' \in [Indexer -> Call]
    <3>1. DOMAIN call' = Indexer /\ call' = [i \in Indexer |-> call'[i]]
      BY DEF Begin
    <3> QED
      BY <3>1, <2>1, <1>5
  <2>3. last' \in [Key -> Version]
    BY <1>7 DEF TypeOK
  <2> QED
    BY <2>2, <2>3, <1>6 DEF TypeOK
<1>10. Held'
  <2> SUFFICES ASSUME NEW i \in Indexer
      PROVE /\ call'[i].at \in {"idle", "saved"} => call'[i].todo = {} /\ call'[i].stale = {}
            /\ call'[i].at = "idle" => Mine(i)' = {}
            /\ call'[i].at = "upsert" => call'[i].stale = {}
            /\ call'[i].at = "delete" =>
                 \A k \in Mine(i)' : Chunks(k, call'[i].took[k]) \subseteq call'[i].todo
            /\ call'[i].stale \subseteq Mine(i)'
            /\ \A p \in call'[i].todo :
                 p.key \in Mine(i)' /\ p \in Chunks(p.key, call'[i].took[p.key])
    BY DEF Held
  <2>1. CASE i = w
    <3>1. \A p \in new.todo : p.key \in K /\ p \in Chunks(p.key, took[p.key])
      BY <1>1, ChunksKey
    <3> QED
      BY <2>1, <3>1, <1>1, <1>2, <1>8
  <2>2. CASE i # w
    BY <2>2, <1>5 DEF Held
  <2> QED
    BY <2>1, <2>2
<1>11. Met'
  <2> SUFFICES ASSUME NEW i \in Indexer, NEW j \in Indexer, i # j,
                      NEW k \in Mine(i)', k \in Mine(j)'
      PROVE k \in call'[i].met
    BY DEF Met
  <2>1. CASE i = w
    BY <2>1, <1>1, <1>2, <1>5 DEF Quiet, Mine
  <2>2. CASE i # w /\ j = w
    BY <2>2, <1>2, <1>5
  <2>3. CASE i # w /\ j # w
    BY <2>3, <1>5 DEF Met
  <2> QED
    BY <2>1, <2>2, <2>3
<1>12. Alone'
  <2> SUFFICES ASSUME NEW i \in Indexer, NEW k \in Mine(i)', k \notin call'[i].met
      PROVE /\ Carries(i, k)'
            /\ last'[k] = call'[i].took[k]
            /\ k \notin call'[i].kept \cup call'[i].stale =>
                 Shown(k)' \subseteq Chunks(k, call'[i].took[k])
    BY DEF Alone
  <2>1. CASE i = w
    BY <2>1, <1>1, <1>2, <1>7, <1>8 DEF Carries
  <2>2. CASE i # w
    <3>1. k \in Mine(i) \ call[i].met /\ k \notin K /\ k \in Key
      BY <2>2, <1>5 DEF Mine, KeysOf
    <3> QED
      BY <2>2, <3>1, <1>5, <1>6, <1>7 DEF Alone, Carries, Shown
  <2> QED
    BY <2>1, <2>2
<1>13. Carried'
  <2> SUFFICES ASSUME NEW k \in Key, k \notin broken', last'[k] # 0
      PROVE Whole(k)' \/ \E i \in Indexer : k \in Mine(i)' /\ Carries(i, k)'
    BY DEF Carried
  <2>1. CASE k \in K
    BY <2>1, <1>1, <1>2, <1>8 DEF Carries
  <2>2. CASE k \notin K
    <3>1. Whole(k) \/ \E i \in Indexer : k \in Mine(i) /\ Carries(i, k)
      BY <2>2, <1>6, <1>7 DEF Carried
    <3>2. Whole(k) => Whole(k)'
      BY <1>6 DEF Whole
    <3>3. \A i \in Indexer : k \in Mine(i) /\ Carries(i, k) => k \in Mine(i)' /\ Carries(i, k)'
      BY <1>3, <1>5, <1>6 DEF Carries
    <3> QED
      BY <3>1, <3>2, <3>3
  <2> QED
    BY <2>1, <2>2
<1>14. LatestAlone'
  <2> SUFFICES ASSUME NEW k \in Key, Quiet(k)', k \notin broken' \cup mixed', last'[k] # 0
      PROVE Shown(k)' = Chunks(k, last'[k])
    BY DEF LatestAlone
  <2>1. k \notin K
    BY <1>2 DEF Quiet, Mine
  <2>2. Quiet(k)
    BY <1>3, <1>5 DEF Quiet, Mine
  <2> QED
    BY <2>1, <2>2, <1>6, <1>7 DEF LatestAlone, Shown
<1> QED
  BY <1>9, <1>10, <1>11, <1>12, <1>13, <1>14

\* The call of an indexer that has saved a row.
LEMMA SavedCall ==
  ASSUME NEW took
  PROVE  [NoCall EXCEPT !.at = "saved", !.took = took] =
           [at |-> "saved", took |-> took, stale |-> {}, todo |-> {}, kept |-> {}, met |-> {}]
<1> DEFINE none == [k \in Key |-> 0]
<1>1. NoCall = [at |-> "idle", took |-> none, stale |-> {}, todo |-> {}, kept |-> {}, met |-> {}]
  BY DEF NoCall
<1> HIDE DEF none
<1>2. [NoCall EXCEPT !.at = "saved"] =
        [at |-> "saved", took |-> none, stale |-> {}, todo |-> {}, kept |-> {}, met |-> {}]
  BY <1>1
<1>3. [NoCall EXCEPT !.at = "saved", !.took = took] =
        [[NoCall EXCEPT !.at = "saved"] EXCEPT !.took = took]
  OBVIOUS
<1>4. [[at |-> "saved", took |-> none, stale |-> {}, todo |-> {}, kept |-> {}, met |-> {}]
        EXCEPT !.took = took] =
        [at |-> "saved", took |-> took, stale |-> {}, todo |-> {}, kept |-> {}, met |-> {}]
  OBVIOUS
<1> QED
  BY <1>2, <1>3, <1>4, Zenon

\* A save moves a caller without a call to the point before its call.
LEMMA SaveIInv ==
  ASSUME NEW w \in Indexer, NEW r \in Row, IInv, SaveRow(w, r)
  PROVE  IInv'
<1> USE DEF IInv
<1>1. /\ points' = points /\ last' = last /\ broken' = broken /\ mixed' = mixed
      /\ failures' = failures /\ scripts' = scripts /\ saves' \in 0 .. MaxSaves
      /\ text' \in [Key -> Version]
  BY IndexAssumption DEF SaveRow, history, Texts, TypeOK
<1>2. \A i \in Indexer :
        /\ call'[i] \in Call /\ Mine(i)' = Mine(i)
        /\ call'[i] = call[i] \/ (i = w /\ call'[i].at = "saved" /\ Mine(i) = {}
             /\ call'[i].todo = {} /\ call'[i].stale = {} /\ call'[i].met = {}
             /\ call'[i].kept = {})
  <2> DEFINE took == [k \in Key |-> IF RowOf[k] = r THEN text'[k] ELSE 0]
             saved == [NoCall EXCEPT !.at = "saved", !.took = took]
  <2>1. took \in [Key -> Version]
    BY <1>1, IndexAssumption DEF Version, TypeOK
  <2>2. saved \in Call /\ KeysOf(saved) = {} /\ saved.at = "saved"
        /\ saved.todo = {} /\ saved.stale = {} /\ saved.met = {} /\ saved.kept = {}
    <3>1. saved = [at |-> "saved", took |-> took, stale |-> {}, todo |-> {},
                   kept |-> {}, met |-> {}]
      BY SavedCall
    <3> HIDE DEF took, saved
    <3> QED
      BY <2>1, <3>1 DEF Call, KeysOf
  <2>3. Mine(w) = {}
    <3>1. call[w].at = "idle"
      BY DEF SaveRow
    <3> QED
      BY <3>1 DEF Held
  <2>4. call' = call \/ call' = [call EXCEPT ![w] = saved]
    BY DEF SaveRow
  <2> HIDE DEF saved
  <2>5. \A i \in Indexer : call'[i] = call[i] \/ (i = w /\ call'[i] = saved)
    BY <2>4 DEF TypeOK
  <2> QED
    BY <2>2, <2>3, <2>5 DEF TypeOK, Mine
<1>3. TypeOK'
  <2>1. call' \in [Indexer -> Call]
    <3>1. DOMAIN call' = Indexer /\ call' = [i \in Indexer |-> call'[i]]
      BY DEF SaveRow, TypeOK
    <3> QED
      BY <3>1, <1>2
  <2> QED
    BY <2>1, <1>1 DEF TypeOK
<1>4. Held'
  BY <1>2 DEF Held
<1>5. Met' /\ Alone'
  BY <1>1, <1>2 DEF Met, Alone, Carries, Shown
<1>6. Carried'
  BY <1>1, <1>2 DEF Carried, Whole, Carries
<1>7. LatestAlone'
  BY <1>1, <1>2 DEF LatestAlone, Quiet, Shown, Mine
<1> QED
  BY <1>3, <1>4, <1>5, <1>6, <1>7

\* The chunks of one key go, or stay because of an error.
LEMMA DeleteIInv ==
  ASSUME NEW w \in Indexer, IInv, Delete(w)
  PROVE  IInv'
<1> USE DEF IInv
<1>1. PICK k \in call[w].stale :
        \/ /\ points' = points \ Old(k)
           /\ call' = [call EXCEPT ![w].stale = @ \ {k}]
           /\ UNCHANGED failures
        \/ /\ failures < MaxFailures
           /\ failures' = failures + 1
           /\ call' = [call EXCEPT ![w].stale = @ \ {k}, ![w].kept = @ \cup {k}]
           /\ UNCHANGED points
  BY DEF Delete
<1>2. UNCHANGED <<text, last, broken, mixed, saves, scripts>> /\ call[w].at = "delete"
  BY DEF Delete, history
<1>3. call[w] \in Call /\ k \in Key /\ k \in Mine(w)
  BY DEF TypeOK, Call, Held
<1>4. /\ call'[w] \in Call /\ call'[w].at = "delete" /\ call'[w].took = call[w].took
      /\ call'[w].todo = call[w].todo /\ call'[w].met = call[w].met
      /\ call'[w].stale = call[w].stale \ {k}
      /\ \/ call'[w].kept = call[w].kept /\ points' = points \ Old(k)
         \/ call'[w].kept = call[w].kept \cup {k} /\ points' = points
      /\ Mine(w)' = Mine(w)
  <2>1. CASE call' = [call EXCEPT ![w].stale = @ \ {k}] /\ points' = points \ Old(k)
    BY <2>1, <1>2, <1>3 DEF TypeOK, Call, Mine, KeysOf
  <2>2. CASE call' = [call EXCEPT ![w].stale = @ \ {k}, ![w].kept = @ \cup {k}] /\ points' = points
    BY <2>2, <1>2, <1>3 DEF TypeOK, Call, Mine, KeysOf
  <2> QED
    BY <1>1, <2>1, <2>2
<1>5. \A i \in Indexer \ {w} : call'[i] = call[i] /\ Mine(i)' = Mine(i)
  BY <1>1 DEF TypeOK, Mine
<1>6. /\ points' \subseteq points
      /\ \A j \in Key \ {k} : Shown(j)' = Shown(j)
      /\ points' = points \ Old(k) => Shown(k)' = {}
  BY <1>4 DEF Old, Shown
<1>7. TypeOK'
  <2>1. call' \in [Indexer -> Call]
    <3>1. DOMAIN call' = Indexer /\ call' = [i \in Indexer |-> call'[i]]
      BY <1>1 DEF TypeOK
    <3> QED
      BY <3>1, <1>4, <1>5 DEF TypeOK
  <2> QED
    BY <2>1, <1>1, <1>2, <1>6, IndexAssumption DEF TypeOK
<1>8. Held'
  BY <1>2, <1>4, <1>5 DEF Held
<1>9. Met'
  BY <1>4, <1>5 DEF Met
<1>10. \A j \in Key \ {k} : \A v : Chunks(j, v) \subseteq points => Chunks(j, v) \subseteq points'
  BY <1>6, ChunksKey DEF Shown
<1>11. \A i \in Indexer, j \in Key \ {k} : Carries(i, j) => Carries(i, j)'
  <2> SUFFICES ASSUME NEW i \in Indexer, NEW j \in Key \ {k}, Carries(i, j)
      PROVE Carries(i, j)'
    OBVIOUS
  <2>1. call'[i].took = call[i].took /\ call'[i].todo = call[i].todo
    BY <1>4, <1>5
  <2>2. \A p \in Chunks(j, call[i].took[j]) : p \in points => p \in points'
    BY <1>6, ChunksKey DEF Shown
  <2> QED
    BY <2>1, <2>2 DEF Carries
<1>12. Carries(w, k)'
  BY <1>2, <1>3, <1>4 DEF Held, Carries
<1>13. Alone'
  <2> SUFFICES ASSUME NEW i \in Indexer, NEW j \in Mine(i)', j \notin call'[i].met
      PROVE /\ Carries(i, j)'
            /\ last'[j] = call'[i].took[j]
            /\ j \notin call'[i].kept \cup call'[i].stale =>
                 Shown(j)' \subseteq Chunks(j, call'[i].took[j])
    BY DEF Alone
  <2>1. j \in Mine(i) \ call[i].met /\ call'[i].took = call[i].took /\ j \in Key
    BY <1>4, <1>5 DEF Mine, KeysOf
  <2>2. CASE i = w /\ j = k
    BY <2>1, <2>2, <1>2, <1>4, <1>6, <1>12 DEF Alone
  <2>3. CASE i = w /\ j # k
    BY <2>1, <2>3, <1>2, <1>4, <1>6, <1>11 DEF Alone
  <2>4. CASE i # w
    <3>1. j # k
      BY <2>1, <2>4, <1>3 DEF Met
    <3> QED
      BY <2>1, <2>4, <3>1, <1>2, <1>5, <1>6, <1>11 DEF Alone
  <2> QED
    BY <2>2, <2>3, <2>4
<1>14. Carried'
  <2> SUFFICES ASSUME NEW j \in Key, j \notin broken', last'[j] # 0
      PROVE Whole(j)' \/ \E i \in Indexer : j \in Mine(i)' /\ Carries(i, j)'
    BY DEF Carried
  <2>1. CASE j = k
    BY <2>1, <1>3, <1>4, <1>12
  <2>2. CASE j # k
    <3>1. Whole(j) \/ \E i \in Indexer : j \in Mine(i) /\ Carries(i, j)
      BY <1>2 DEF Carried
    <3>2. Whole(j) => Whole(j)'
      BY <2>2, <1>10 DEF Whole
    <3> QED
      BY <2>2, <3>1, <3>2, <1>4, <1>5, <1>11
  <2> QED
    BY <2>1, <2>2
<1>15. LatestAlone'
  <2> SUFFICES ASSUME NEW j \in Key, Quiet(j)', j \notin broken' \cup mixed', last'[j] # 0
      PROVE Shown(j)' = Chunks(j, last'[j])
    BY DEF LatestAlone
  <2>1. Quiet(j) /\ j # k
    BY <1>3, <1>4, <1>5 DEF Quiet, Mine
  <2> QED
    BY <2>1, <1>2, <1>6 DEF LatestAlone
<1> QED
  BY <1>7, <1>8, <1>9, <1>13, <1>14, <1>15

LEMMA AllDeletedIInv ==
  ASSUME NEW w \in Indexer, IInv, AllDeleted(w)
  PROVE  IInv'
<1> USE DEF IInv
<1>1. /\ UNCHANGED <<text, points, last, broken, mixed, saves, failures, scripts>>
      /\ call' = [call EXCEPT ![w].at = "upsert"]
      /\ call[w].at = "delete" /\ call[w].stale = {}
  BY DEF AllDeleted, history
<1>2. \A i \in Indexer :
        /\ call'[i] \in Call /\ Mine(i)' = Mine(i)
        /\ call'[i].took = call[i].took /\ call'[i].todo = call[i].todo
        /\ call'[i].met = call[i].met /\ call'[i].kept = call[i].kept
        /\ call'[i].stale = call[i].stale
        /\ call'[i].at = (IF i = w THEN "upsert" ELSE call[i].at)
  BY <1>1 DEF TypeOK, Call, Mine, KeysOf
<1>3. TypeOK'
  <2>1. call' \in [Indexer -> Call]
    <3>1. DOMAIN call' = Indexer /\ call' = [i \in Indexer |-> call'[i]]
      BY <1>1 DEF TypeOK
    <3> QED
      BY <3>1, <1>2
  <2> QED
    BY <2>1, <1>1 DEF TypeOK
<1>4. Held' /\ Met'
  BY <1>1, <1>2 DEF Held, Met
<1>5. Alone' /\ Carried' /\ LatestAlone'
  BY <1>1, <1>2 DEF Alone, Carried, Whole, Carries, LatestAlone, Quiet, Shown, Mine
<1> QED
  BY <1>3, <1>4, <1>5

\* A batch moves from what the call holds to the points.
LEMMA UpsertIInv ==
  ASSUME NEW w \in Indexer, IInv, Upsert(w)
  PROVE  IInv'
<1> USE DEF IInv
<1>1. PICK B \in SUBSET call[w].todo :
        points' = points \cup B /\ call' = [call EXCEPT ![w].todo = @ \ B]
  BY DEF Upsert
<1>2. UNCHANGED <<text, last, broken, mixed, saves, failures, scripts>> /\ call[w].at = "upsert"
  BY DEF Upsert, history
<1>3. \A i \in Indexer :
        /\ call'[i] \in Call /\ Mine(i)' = Mine(i)
        /\ call'[i].took = call[i].took /\ call'[i].at = call[i].at
        /\ call'[i].met = call[i].met /\ call'[i].kept = call[i].kept
        /\ call'[i].stale = call[i].stale
        /\ call'[i].todo = (IF i = w THEN call[i].todo \ B ELSE call[i].todo)
  BY <1>1 DEF TypeOK, Call, Mine, KeysOf
<1>4. \A p \in B : p \in Chunk /\ p.key \in Mine(w) /\ p \in Chunks(p.key, call[w].took[p.key])
  BY DEF Held, TypeOK, Call
<1>5. TypeOK'
  <2>1. call' \in [Indexer -> Call]
    <3>1. DOMAIN call' = Indexer /\ call' = [i \in Indexer |-> call'[i]]
      BY <1>1 DEF TypeOK
    <3> QED
      BY <3>1, <1>3
  <2> QED
    BY <2>1, <1>1, <1>2, <1>4 DEF TypeOK
<1>6. Held' /\ Met'
  <2>1. Met'
    BY <1>3 DEF Met
  <2>2. ASSUME NEW i \in Indexer
        PROVE  /\ call'[i].at \in {"idle", "saved"} => call'[i].todo = {} /\ call'[i].stale = {}
               /\ call'[i].at = "idle" => Mine(i)' = {}
               /\ call'[i].at = "upsert" => call'[i].stale = {}
               /\ call'[i].stale \subseteq Mine(i)'
               /\ \A p \in call'[i].todo :
                    p.key \in Mine(i)' /\ p \in Chunks(p.key, call'[i].took[p.key])
    <3>1. call'[i].at = call[i].at /\ call'[i].stale = call[i].stale
          /\ call'[i].took = call[i].took /\ Mine(i)' = Mine(i)
          /\ call'[i].todo \subseteq call[i].todo
      BY <1>3
    <3>2. \A p \in call[i].todo : p.key \in Mine(i) /\ p \in Chunks(p.key, call[i].took[p.key])
      BY DEF Held
    <3>3. /\ call[i].at \in {"idle", "saved"} => call[i].todo = {} /\ call[i].stale = {}
          /\ call[i].at = "idle" => Mine(i) = {}
          /\ call[i].at = "upsert" => call[i].stale = {}
          /\ call[i].stale \subseteq Mine(i)
      BY DEF Held
    <3> QED
      BY <3>1, <3>2, <3>3
  <2>3. ASSUME NEW i \in Indexer, call'[i].at = "delete", NEW j \in Mine(i)'
        PROVE  Chunks(j, call'[i].took[j]) \subseteq call'[i].todo
    <3>1. i # w /\ call[i].at = "delete" /\ j \in Mine(i)
      BY <2>3, <1>2, <1>3
    <3> QED
      BY <3>1, <1>3 DEF Held
  <2> QED
    BY <2>1, <2>2, <2>3 DEF Held
<1>7. \A i \in Indexer, j \in Key : Carries(i, j) => Carries(i, j)'
  BY <1>1, <1>3 DEF Carries
<1>8. \A j : j \notin Mine(w) => Shown(j)' = Shown(j)
  BY <1>1, <1>4 DEF Shown
<1>9. Alone'
  <2> SUFFICES ASSUME NEW i \in Indexer, NEW j \in Mine(i)', j \notin call'[i].met
      PROVE /\ Carries(i, j)'
            /\ last'[j] = call'[i].took[j]
            /\ j \notin call'[i].kept \cup call'[i].stale =>
                 Shown(j)' \subseteq Chunks(j, call'[i].took[j])
    BY DEF Alone
  <2>1. j \in Mine(i) \ call[i].met /\ call'[i].took = call[i].took /\ j \in Key
    BY <1>3 DEF Mine, KeysOf
  <2>2. CASE i = w
    <3>1. Shown(j)' \subseteq Shown(j) \cup Chunks(j, call[w].took[j])
      BY <1>1, <1>4 DEF Shown
    <3>2. Carries(i, j) /\ last[j] = call[i].took[j]
      BY <2>1 DEF Alone
    <3>3. j \notin call[i].kept \cup call[i].stale => Shown(j) \subseteq Chunks(j, call[i].took[j])
      BY <2>1 DEF Alone
    <3>4. call'[i].kept = call[i].kept /\ call'[i].stale = call[i].stale /\ last' = last
      BY <1>2, <1>3
    <3>5. Carries(i, j)'
      BY <2>1, <3>2, <1>7
    <3>6. j \notin call[i].kept \cup call[i].stale => Shown(j)' \subseteq Chunks(j, call[i].took[j])
      BY <3>1, <3>3, <2>2
    <3> QED
      BY <2>1, <3>2, <3>4, <3>5, <3>6
  <2>3. CASE i # w
    <3>1. j \notin Mine(w)
      BY <2>1, <2>3 DEF Met
    <3>2. Carries(i, j) /\ last[j] = call[i].took[j]
      BY <2>1 DEF Alone
    <3>3. j \notin call[i].kept \cup call[i].stale => Shown(j) \subseteq Chunks(j, call[i].took[j])
      BY <2>1 DEF Alone
    <3>4. call'[i].kept = call[i].kept /\ call'[i].stale = call[i].stale /\ last' = last
      BY <1>2, <1>3
    <3>5. Carries(i, j)'
      BY <2>1, <3>2, <1>7
    <3>6. Shown(j)' = Shown(j)
      BY <3>1, <1>8
    <3> QED
      BY <2>1, <3>2, <3>3, <3>4, <3>5, <3>6
  <2> QED
    BY <2>2, <2>3
<1>10. Carried'
  <2>1. \A j \in Key : Whole(j) => Whole(j)'
    BY <1>1 DEF Whole
  <2> QED
    BY <2>1, <1>2, <1>3, <1>7 DEF Carried
<1>11. LatestAlone'
  BY <1>2, <1>3, <1>8 DEF LatestAlone, Quiet, Mine
<1> QED
  BY <1>5, <1>6, <1>9, <1>10, <1>11

\* A call ends: of a key that it had to itself the points are its chunks.
LEMMA ReturnIInv ==
  ASSUME NEW w \in Indexer, IInv, Return(w)
  PROVE  IInv'
<1> USE DEF IInv
<1> DEFINE alone == Mine(w) \ call[w].met
<1>1. /\ UNCHANGED <<text, points, last, saves, failures, scripts>>
      /\ call' = [call EXCEPT ![w] = NoCall]
      /\ call[w].at = "upsert" /\ call[w].todo = {} /\ call[w].stale = {}
      /\ broken' = broken \ alone
      /\ mixed' = (mixed \ (alone \ call[w].kept)) \cup call[w].met \cup call[w].kept
  BY DEF Return, Mine, Held
<1>2. Mine(w)' = {} /\ call'[w] = NoCall
  BY <1>1, NoCallType DEF TypeOK, Mine
<1>3. \A i \in Indexer \ {w} : call'[i] = call[i] /\ Mine(i)' = Mine(i)
  BY <1>1 DEF TypeOK, Mine
<1>4. TypeOK'
  <2>1. call' \in [Indexer -> Call]
    BY <1>1, NoCallType DEF TypeOK
  <2>2. call[w].met \subseteq Key /\ call[w].kept \subseteq Key
    BY DEF TypeOK, Call
  <2> QED
    BY <2>1, <2>2, <1>1 DEF TypeOK
<1>5. Held' /\ Met' /\ Alone'
  BY <1>1, <1>2, <1>3 DEF Held, Met, Alone, Carries, Shown, NoCall
<1>6. \A k \in Mine(w) : Carries(w, k) => Whole(k)
  <2>1. \A k \in Mine(w) : call[w].took[k] \in 1 .. MaxSaves
    BY IndexAssumption DEF TypeOK, Call, Version, Mine, KeysOf
  <2> QED
    BY <2>1, <1>1 DEF Carries, Whole
<1>7. Carried'
  <2> SUFFICES ASSUME NEW j \in Key, j \notin broken', last'[j] # 0
      PROVE Whole(j)' \/ \E i \in Indexer : j \in Mine(i)' /\ Carries(i, j)'
    BY DEF Carried
  <2>1. Whole(j) => Whole(j)'
    BY <1>1 DEF Whole
  <2>2. CASE j \in alone
    BY <2>1, <2>2, <1>6 DEF Alone
  <2>3. CASE j \notin alone
    <3>1. Whole(j) \/ \E i \in Indexer : j \in Mine(i) /\ Carries(i, j)
      BY <2>3, <1>1 DEF Carried
    <3>2. \A i \in Indexer \ {w} : Carries(i, j) => Carries(i, j)'
      BY <1>1, <1>3 DEF Carries
    <3> QED
      BY <3>1, <3>2, <2>1, <1>3, <1>6
  <2> QED
    BY <2>2, <2>3
<1>8. LatestAlone'
  <2> SUFFICES ASSUME NEW j \in Key, Quiet(j)', j \notin broken' \cup mixed', last'[j] # 0
      PROVE Shown(j)' = Chunks(j, last'[j])
    BY DEF LatestAlone
  <2>1. CASE j \in Mine(w)
    <3>1. j \in alone /\ j \notin call[w].kept
      BY <2>1, <1>1
    <3>2. Shown(j) \subseteq Chunks(j, last[j]) /\ Chunks(j, last[j]) \subseteq points
      BY <3>1, <1>1 DEF Alone, Carries
    <3> QED
      BY <3>2, <1>1, ChunksKey DEF Shown
  <2>2. CASE j \notin Mine(w)
    <3>1. Quiet(j)
      BY <2>2, <1>3 DEF Quiet, Mine
    <3> QED
      BY <2>2, <3>1, <1>1 DEF LatestAlone, Shown
  <2> QED
    BY <2>1, <2>2
<1> QED
  BY <1>4, <1>5, <1>7, <1>8

\* A call breaks off: its keys are noted.
LEMMA BreakIInv ==
  ASSUME NEW w \in Indexer, IInv, Break(w)
  PROVE  IInv'
<1> USE DEF IInv
<1>1. /\ UNCHANGED <<text, points, last, mixed, saves, scripts>>
      /\ call' = [call EXCEPT ![w] = NoCall]
      /\ broken' = broken \cup Mine(w)
      /\ failures' = failures + 1 /\ failures < MaxFailures
  BY DEF Break, Mine
<1>2. Mine(w)' = {} /\ call'[w] = NoCall
  BY <1>1, NoCallType DEF TypeOK, Mine
<1>3. \A i \in Indexer \ {w} : call'[i] = call[i] /\ Mine(i)' = Mine(i)
  BY <1>1 DEF TypeOK, Mine
<1>4. TypeOK'
  <2>1. call' \in [Indexer -> Call]
    BY <1>1, NoCallType DEF TypeOK
  <2>2. Mine(w) \subseteq Key
    BY DEF Mine, KeysOf
  <2> QED
    BY <2>1, <2>2, <1>1, IndexAssumption DEF TypeOK
<1>5. Held' /\ Met' /\ Alone'
  BY <1>1, <1>2, <1>3 DEF Held, Met, Alone, Carries, Shown, NoCall
<1>6. Carried'
  BY <1>1, <1>2, <1>3 DEF Carried, Whole, Carries
<1>7. LatestAlone'
  BY <1>1, <1>2, <1>3 DEF LatestAlone, Quiet, Shown, Mine
<1> QED
  BY <1>4, <1>5, <1>6, <1>7

-----------------------------------------------------------------------------
LEMMA NextIInv == IInv /\ [Next]_vars => IInv'
<1> SUFFICES ASSUME IInv, [Next]_vars PROVE IInv'
  OBVIOUS
<1>1. CASE UNCHANGED vars
  BY <1>1 DEF vars, history, IInv, TypeOK, Held, Met, Alone, Carried, LatestAlone, Mine,
              Carries, Whole, Quiet, Shown
<1>2. ASSUME NEW w \in Indexer, NEW r \in Row, SaveRow(w, r) PROVE IInv'
  BY <1>2, SaveIInv
<1>3. ASSUME NEW w \in Indexer, IndexSaved(w) PROVE IInv'
  <2>1. call[w].took \in [Key -> Version] /\ scripts' \in 0 .. MaxScripts
    BY <1>3 DEF IndexSaved, IInv, TypeOK, Call
  <2> QED
    BY <2>1, <1>3, BeginFacts DEF IndexSaved
<1>4. ASSUME NEW w \in Indexer, NEW R \in SUBSET Row, IndexRows(w, R) PROVE IInv'
  <2> DEFINE took == [k \in Key |-> IF RowOf[k] \in R THEN text[k] ELSE 0]
  <2>1. took \in [Key -> Version]
    BY IndexAssumption DEF IInv, TypeOK, Version
  <2>2. scripts' \in 0 .. MaxScripts
    BY <1>4, IndexAssumption DEF IndexRows, IInv, TypeOK
  <2>3. PICK replace \in BOOLEAN : Begin(w, took, replace)
    BY <1>4 DEF IndexRows
  <2>4. call[w].at \in {"idle", "saved"} /\ text' = text /\ saves' = saves
    BY <1>4 DEF IndexRows
  <2> HIDE DEF took
  <2> QED
    BY <2>1, <2>2, <2>3, <2>4, BeginFacts
<1>5. ASSUME NEW w \in Indexer, Delete(w) \/ AllDeleted(w) \/ Upsert(w) PROVE IInv'
  BY <1>5, DeleteIInv, AllDeletedIInv, UpsertIInv
<1>6. ASSUME NEW w \in Indexer, Return(w) \/ Break(w) PROVE IInv'
  BY <1>6, ReturnIInv, BreakIInv
<1> QED
  BY <1>1, <1>2, <1>3, <1>4, <1>5, <1>6 DEF Next

\* The variables have their types.
THEOREM TypeCorrect == Spec => []TypeOK
<1>1. IInv => TypeOK
  BY DEF IInv
<1> QED
  BY InitIInv, NextIInv, <1>1, PTL DEF Spec

\* However calls overlap, a key whose calls did not break off shows one of its
\* texts as a whole: the call that deleted last has upserted all of it since.
THEOREM SomeTextSafe == Spec => []SomeTextWhole
<1>1. IInv => SomeTextWhole
  BY DEF IInv, Carried, SomeTextWhole, Whole, Quiet, Mine
<1> QED
  BY InitIInv, NextIInv, <1>1, PTL DEF Spec

\* Calls that keep apart leave exactly the text the latest of them took.
THEOREM LatestSafe == Spec => []LatestAlone
<1>1. IInv => LatestAlone
  BY DEF IInv
<1> QED
  BY InitIInv, NextIInv, <1>1, PTL DEF Spec

-----------------------------------------------------------------------------
(* Every call goes on and ends *)

Phase == [at \in {"idle", "saved", "delete", "upsert"} |->
            CASE at = "saved" -> 3 [] at = "delete" -> 2 [] at = "upsert" -> 1 [] at = "idle" -> 0]

\* A call in state c is closer to its end than in state d.
Closer(c, d) ==
  \/ Phase[c.at] < Phase[d.at]
  \/ c.at = d.at /\ c.stale \subseteq d.stale /\ c.stale # d.stale
  \/ c.at = d.at /\ c.stale = d.stale /\ c.todo \subseteq d.todo /\ c.todo # d.todo

\* A step that does not save a row or start the script brings one call closer
\* to its end; of the others it changes at most which keys they met at.
CallsEnd ==
  [][\E w \in Indexer :
       /\ \/ \E r \in Row : SaveRow(w, r)
          \/ \E R \in SUBSET Row : IndexRows(w, R)
          \/ Closer(call'[w], call[w])
       /\ \A i \in Indexer \ {w} :
            /\ call'[i].at = call[i].at /\ call'[i].took = call[i].took
            /\ call'[i].stale = call[i].stale /\ call'[i].todo = call[i].todo]_vars

\* A batch of Upsert.
Batches(S) ==
  {B \in SUBSET S : /\ B # {} /\ Cardinality(B) <= BatchSize
                    /\ Cardinality(B) = BatchSize \/ B = S}

\* Indexer w can go on with its call without a failure: the guards of its
\* actions, one each.
CanStep(w) ==
  \/ call[w].at = "saved" /\ \E k \in Key : call[w].took[k] # 0
  \/ call[w].at = "delete" /\ \E k \in call[w].stale : TRUE
  \/ call[w].at = "delete" /\ call[w].stale = {}
  \/ call[w].at = "upsert" /\ Batches(call[w].todo) # {}
  \/ call[w].at = "upsert" /\ call[w].todo = {}

\* No call waits for another one or for a batch that is never full.
NeverStuck == \A w \in Indexer : call[w].at # "idle" => CanStep(w)

\* A caller that has saved a row has a text of it to index.
SomethingTaken ==
  \A w \in Indexer : call[w].at = "saved" => \E k \in Key : call[w].took[k] # 0

\* A finite set has a batch: as many as fit, or all that is left.
LEMMA BatchesExist ==
  ASSUME NEW S, IsFiniteSet(S), S # {}
  PROVE  Batches(S) # {}
<1>1. PICK k \in Nat \ {0} : k = BatchSize
  BY IndexAssumption
<1>0. Cardinality(S) \in Nat
  BY FS_CardinalityType
<1>2. CASE Cardinality(S) <= BatchSize
  BY <1>2 DEF Batches
<1>3. CASE ~(Cardinality(S) <= BatchSize)
  <2> DEFINE T == {B \in FiniteSubsetsOf(S) : Cardinality(B) >= BatchSize}
  <2>1. \A B \in SUBSET S : IsFiniteSet(B)
    BY FS_Subset
  <2>2. S \in T
    <3>1. Cardinality(S) >= BatchSize
      BY <1>0, <1>1, <1>3
    <3> QED
      BY <3>1 DEF FiniteSubsetsOf
  <2>3. \E B \in T : \A C \in T : ~(<<C, B>> \in StrictSubsetOrdering(S))
    <3>1. T \subseteq FiniteSubsetsOf(S) /\ T # {}
      BY <2>2
    <3>2. IsWellFoundedOn(StrictSubsetOrdering(S), FiniteSubsetsOf(S))
      BY FS_StrictSubsetOrderingWellFounded
    <3> HIDE DEF T
    <3> QED
      BY <3>1, <3>2, WFMin
  <2>4. PICK B \in T : \A C \in T : ~(<<C, B>> \in StrictSubsetOrdering(S))
    BY <2>3
  <2>5. B \in SUBSET S /\ IsFiniteSet(B) /\ Cardinality(B) \in Nat /\ Cardinality(B) >= k
    BY <1>1, <2>1, <2>4, FS_CardinalityType DEF FiniteSubsetsOf
  <2>6. B # {}
    BY <1>1, <2>5, FS_EmptySet
  <2>7. PICK x \in B : TRUE
    BY <2>6
  <2>8. Cardinality(B \ {x}) = Cardinality(B) - 1
    BY <2>5, FS_RemoveElement
  <2>9. <<B \ {x}, B>> \in StrictSubsetOrdering(S)
    BY <2>5, <2>7 DEF StrictSubsetOrdering
  <2>10. B \ {x} \notin T
    BY <2>4, <2>9
  <2>11. ~(Cardinality(B \ {x}) >= k)
    <3>1. B \ {x} \in FiniteSubsetsOf(S)
      BY <2>1, <2>5 DEF FiniteSubsetsOf
    <3> QED
      BY <1>1, <2>10, <3>1
  <2>12. Cardinality(B) = k
    BY <2>5, <2>8, <2>11
  <2> QED
    BY <1>1, <2>5, <2>6, <2>12 DEF Batches
<1> QED
  BY <1>2, <1>3

\* Of finitely many texts there are finitely many chunks.
LEMMA FinitelyMany ==
  ASSUME IsFiniteSet(Key)
  PROVE  IsFiniteSet(Chunk)
<1> DEFINE parts == 0 .. Parts - 1
           triples == (Key \X Version) \X parts
           f == [t \in triples |-> [key |-> t[1][1], version |-> t[1][2], part |-> t[2]]]
<1>1. Parts - 1 \in Int /\ MaxSaves \in Int
  BY IndexAssumption
<1>2. IsFiniteSet(parts) /\ IsFiniteSet(Version)
  BY <1>1, FS_Interval DEF Version
<1>3. IsFiniteSet(triples)
  <2> HIDE DEF parts
  <2>1. IsFiniteSet(Key \X Version)
    BY <1>2, FS_Product
  <2> QED
    BY <1>2, <2>1, FS_Product
<1>4. f \in Surjection(triples, Chunk)
  <2> HIDE DEF parts
  <2>1. \A t \in triples : t[1][1] \in Key /\ t[1][2] \in Version /\ t[2] \in parts
    OBVIOUS
  <2>2. \A t \in triples : f[t] \in [key : Key, version : Version, part : parts]
    BY <2>1
  <2>3. Chunk = [key : Key, version : Version, part : parts]
    BY DEF Chunk, parts
  <2>4. \A p \in Chunk : \E t \in triples : f[t] = p
    <3> SUFFICES ASSUME NEW p \in Chunk PROVE \E t \in triples : f[t] = p
      OBVIOUS
    <3>1. <<<<p.key, p.version>>, p.part>> \in triples
      BY <2>3
    <3>2. p = [key |-> p.key, version |-> p.version, part |-> p.part]
      BY <2>3
    <3> QED
      BY <3>1, <3>2
  <2> QED
    BY <2>2, <2>3, <2>4 DEF Surjection
<1> HIDE DEF f, triples
<1> QED
  BY <1>3, <1>4, FS_Surjection

\* A call that begins tells the others at most which keys it meets them at.
LEMMA BeginCalls ==
  ASSUME NEW w \in Indexer, NEW took, NEW replace, Begin(w, took, replace), NEW i \in Indexer
  PROVE  /\ i # w => \E met : call'[i] = [call[i] EXCEPT !.met = met]
         /\ i = w => call'[i].at \in {"delete", "upsert"}
<1> DEFINE K == {k \in Key : took[k] # 0}
           started == [at |-> IF replace THEN "delete" ELSE "upsert", took |-> took,
             stale |-> IF replace THEN Replaced(K) ELSE {},
             todo |-> UNION {Chunks(k, took[k]) : k \in K},
             kept |-> IF replace THEN {} ELSE K, met |-> {k \in K : ~Quiet(k)}]
<1>1. call' = [j \in Indexer |->
                 IF j = w THEN started
                 ELSE [call[j] EXCEPT !.met = call[j].met \cup (K \cap KeysOf(call[j]))]]
  BY DEF Begin
<1>2. started.at \in {"delete", "upsert"}
  OBVIOUS
<1> HIDE DEF started, K
<1> QED
  BY <1>1, <1>2

\* A step of w leaves what the other calls have to do as it is.
LEMMA OthersKeep ==
  ASSUME TypeOK, NEW w \in Indexer,
         \/ \E r \in Row : SaveRow(w, r)
         \/ IndexSaved(w)
         \/ \E R \in SUBSET Row : IndexRows(w, R)
         \/ Delete(w) \/ AllDeleted(w) \/ Upsert(w) \/ Return(w) \/ Break(w),
         NEW i \in Indexer, i # w
  PROVE  /\ call'[i].at = call[i].at /\ call'[i].took = call[i].took
         /\ call'[i].stale = call[i].stale /\ call'[i].todo = call[i].todo
<1>1. call \in [Indexer -> Call] /\ call[i] \in Call
  BY DEF TypeOK
<1>2. CASE IndexSaved(w) \/ \E R \in SUBSET Row : IndexRows(w, R)
  <2>1. PICK met : call'[i] = [call[i] EXCEPT !.met = met]
    <3>1. PICK took, replace : Begin(w, took, replace)
      BY <1>2 DEF IndexSaved, IndexRows
    <3> QED
      BY <3>1, BeginCalls
  <2> QED
    BY <1>1, <2>1 DEF Call
<1>3. CASE (\E r \in Row : SaveRow(w, r)) \/ Delete(w) \/ AllDeleted(w) \/ Upsert(w) \/ Return(w)
           \/ Break(w)
  <2>1. call'[i] = call[i]
    BY <1>1, <1>3 DEF SaveRow, Delete, AllDeleted, Upsert, Return, Break
  <2> QED
    BY <2>1
<1> QED
  BY <1>2, <1>3

\* A step of a call that has begun brings it closer to its end.
LEMMA CallCloser ==
  ASSUME IInv, NEW w \in Indexer,
         IndexSaved(w) \/ Delete(w) \/ AllDeleted(w) \/ Upsert(w) \/ Return(w) \/ Break(w)
  PROVE  Closer(call'[w], call[w])
<1>1. call \in [Indexer -> Call] /\ call[w] \in Call
  BY DEF IInv, TypeOK
<1>2. Phase["idle"] = 0 /\ Phase["upsert"] = 1 /\ Phase["delete"] = 2 /\ Phase["saved"] = 3
  BY DEF Phase
<1>3. CASE IndexSaved(w)
  <2>1. call[w].at = "saved" /\ call'[w].at = "delete"
    BY <1>3 DEF IndexSaved, Begin
  <2> QED
    BY <1>2, <2>1 DEF Closer
<1>4. CASE Delete(w)
  <2>1. PICK k \in call[w].stale : call'[w].at = call[w].at /\ call'[w].stale = call[w].stale \ {k}
    BY <1>1, <1>4 DEF Delete, Call
  <2> QED
    BY <2>1 DEF Closer
<1>5. CASE AllDeleted(w)
  <2>1. call[w].at = "delete" /\ call'[w].at = "upsert"
    BY <1>1, <1>5 DEF AllDeleted, Call
  <2> QED
    BY <1>2, <2>1 DEF Closer
<1>6. CASE Upsert(w)
  <2>1. PICK B \in SUBSET call[w].todo :
          B # {} /\ call' = [call EXCEPT ![w].todo = call[w].todo \ B]
    BY <1>6 DEF Upsert
  <2>2. call'[w].at = call[w].at /\ call'[w].stale = call[w].stale /\ call'[w].todo = call[w].todo \ B
    BY <1>1, <2>1 DEF Call
  <2> QED
    BY <2>1, <2>2 DEF Closer
<1>7. CASE Return(w) \/ Break(w)
  <2>1. call'[w].at = "idle" /\ call[w].at # "idle"
    BY <1>1, <1>7 DEF Return, Break, NoCall
  <2>2. call[w].at \in {"saved", "delete", "upsert"}
    BY <1>1, <2>1 DEF Call
  <2> QED
    BY <1>2, <2>1, <2>2 DEF Closer
<1> QED
  BY <1>3, <1>4, <1>5, <1>6, <1>7

\* Every call ends: it has finitely many keys to delete and then finitely many
\* chunks to upsert, and nothing that other calls do gives it more.
THEOREM CallsEndSafe == Spec => CallsEnd
<1>1. IInv /\ [Next]_vars =>
        [\E w \in Indexer :
           /\ \/ \E r \in Row : SaveRow(w, r)
              \/ \E R \in SUBSET Row : IndexRows(w, R)
              \/ Closer(call'[w], call[w])
           /\ \A i \in Indexer \ {w} :
                /\ call'[i].at = call[i].at /\ call'[i].took = call[i].took
                /\ call'[i].stale = call[i].stale /\ call'[i].todo = call[i].todo]_vars
  <2> SUFFICES ASSUME IInv, Next
               PROVE  \E w \in Indexer :
           /\ \/ \E r \in Row : SaveRow(w, r)
              \/ \E R \in SUBSET Row : IndexRows(w, R)
              \/ Closer(call'[w], call[w])
           /\ \A i \in Indexer \ {w} :
                /\ call'[i].at = call[i].at /\ call'[i].took = call[i].took
                /\ call'[i].stale = call[i].stale /\ call'[i].todo = call[i].todo
    OBVIOUS
  <2>1. PICK w \in Indexer :
         \/ \E r \in Row : SaveRow(w, r)
         \/ IndexSaved(w)
         \/ \E R \in SUBSET Row : IndexRows(w, R)
         \/ Delete(w) \/ AllDeleted(w) \/ Upsert(w) \/ Return(w) \/ Break(w)
    BY DEF Next
  <2>2. \A i \in Indexer \ {w} :
                /\ call'[i].at = call[i].at /\ call'[i].took = call[i].took
                /\ call'[i].stale = call[i].stale /\ call'[i].todo = call[i].todo
    BY <2>1, OthersKeep DEF IInv
  <2>3. \/ \E r \in Row : SaveRow(w, r)
        \/ \E R \in SUBSET Row : IndexRows(w, R)
        \/ Closer(call'[w], call[w])
    BY <2>1, CallCloser
  <2> QED
    BY <2>2, <2>3
<1> QED
  BY <1>1, InitIInv, NextIInv, PTL DEF Spec, CallsEnd

\* What a caller took stays with its call.
LEMMA NextTaken == IInv /\ SomethingTaken /\ [Next]_vars => SomethingTaken'
<1> SUFFICES ASSUME IInv, SomethingTaken, [Next]_vars, NEW i \in Indexer, call'[i].at = "saved"
             PROVE  \E k \in Key : call'[i].took[k] # 0
  BY DEF SomethingTaken
<1>1. CASE UNCHANGED vars
  BY <1>1 DEF vars, SomethingTaken
<1>2. CASE Next
  <2>1. PICK w \in Indexer :
         \/ \E r \in Row : SaveRow(w, r)
         \/ IndexSaved(w)
         \/ \E R \in SUBSET Row : IndexRows(w, R)
         \/ Delete(w) \/ AllDeleted(w) \/ Upsert(w) \/ Return(w) \/ Break(w)
    BY <1>2 DEF Next
  <2>2. call \in [Indexer -> Call] /\ call[w] \in Call
    BY DEF IInv, TypeOK
  <2>3. CASE i # w
    <3>1. call'[i].at = call[i].at /\ call'[i].took = call[i].took
      BY <2>1, <2>3, OthersKeep DEF IInv
    <3> QED
      BY <3>1 DEF SomethingTaken
  <2>4. CASE i = w /\ \E r \in Row : SaveRow(w, r)
    <3>1. PICK took :
            call' = IF \A k \in Key : took[k] = 0 THEN call
                    ELSE [call EXCEPT ![w] = [NoCall EXCEPT !.at = "saved", !.took = took]]
      BY <2>4 DEF SaveRow
    <3>2. CASE \A k \in Key : took[k] = 0
      BY <2>4, <3>1, <3>2 DEF SomethingTaken
    <3>3. CASE ~ \A k \in Key : took[k] = 0
      <4>1. call'[w] = [NoCall EXCEPT !.at = "saved", !.took = took]
        BY <2>2, <3>1, <3>3
      <4>2. call'[w].took = took
        BY <4>1, SavedCall
      <4> QED
        BY <2>4, <3>3, <4>2
    <3> QED
      BY <3>2, <3>3
  <2>5. CASE i = w /\ (IndexSaved(w) \/ \E R \in SUBSET Row : IndexRows(w, R))
    <3>1. call'[w].at \in {"delete", "upsert"}
      <4>1. PICK took, replace : Begin(w, took, replace)
        BY <2>5 DEF IndexSaved, IndexRows
      <4> QED
        BY <4>1, BeginCalls
    <3> QED
      BY <2>5, <3>1
  <2>6. CASE i = w /\ (Delete(w) \/ AllDeleted(w) \/ Upsert(w) \/ Return(w) \/ Break(w))
    <3>1. (Closer(call'[w], call[w]) /\ call[w].at # "saved") \/ call'[w].at = "idle"
      <4>1. CASE Delete(w) \/ AllDeleted(w) \/ Upsert(w)
        BY <4>1, CallCloser DEF Delete, AllDeleted, Upsert
      <4>2. CASE Return(w) \/ Break(w)
        BY <2>2, <4>2 DEF Return, Break, NoCall
      <4> QED
        BY <2>6, <4>1, <4>2
    <3>2. Phase["saved"] = 3 /\ \A at \in {"idle", "saved", "delete", "upsert"} : Phase[at] \in 0 .. 3
      BY DEF Phase
    <3>3. call'[w].at # "saved"
      BY <2>2, <3>1, <3>2 DEF Closer, Call
    <3> QED
      BY <2>6, <3>3
  <2> QED
    BY <2>1, <2>3, <2>4, <2>5, <2>6
<1> QED
  BY <1>1, <1>2

\* With finitely many keys no call is ever stuck, at a batch that is not full
\* either.
THEOREM NeverStuckSafe ==
  ASSUME IsFiniteSet(Key)
  PROVE  Spec => []NeverStuck
<1>1. Init => SomethingTaken
  BY DEF Init, SomethingTaken, NoCall
<1>2. IInv /\ SomethingTaken => NeverStuck
  <2> SUFFICES ASSUME IInv, SomethingTaken, NEW w \in Indexer, call[w].at # "idle"
               PROVE  CanStep(w)
    BY DEF NeverStuck
  <2>1. call[w] \in Call
    BY DEF IInv, TypeOK
  <2>2. CASE call[w].at = "saved"
    BY <2>2 DEF CanStep, SomethingTaken
  <2>3. CASE call[w].at = "delete"
    BY <2>3 DEF CanStep
  <2>4. CASE call[w].at = "upsert"
    <3>1. IsFiniteSet(call[w].todo)
      BY <2>1, FinitelyMany, FS_Subset DEF Call
    <3> QED
      BY <2>4, <3>1, BatchesExist DEF CanStep
  <2> QED
    BY <2>1, <2>2, <2>3, <2>4 DEF Call
<1> QED
  BY <1>1, <1>2, InitIInv, NextIInv, NextTaken, PTL DEF Spec

=============================================================================
