---------------------------- MODULE ContentIndex ----------------------------
(***************************************************************************)
(* The content index (src/rag/content_index.py): the long texts of the     *)
(* database, cut in chunks, as points of the Qdrant collection             *)
(* axis_documents.  A row has one text for each kind of content; a key is  *)
(* a row and a kind.  The point of a chunk is named by its key, its index  *)
(* and a hash of its text, so that the chunks of two texts of one key can  *)
(* stand side by side.                                                     *)
(*                                                                         *)
(* A call of index_content_chunks deletes the chunks of its keys, one      *)
(* request for each, and then upserts the new ones in batches.  The flow   *)
(* graph and the article store call it when they have saved a row, and a   *)
(* script calls it for rows it reads, by default without the deletions.    *)
(***************************************************************************)
EXTENDS Integers, FiniteSets

CONSTANTS
  Indexer,     \* threads and processes that index
  Row,         \* rows of raw_articles, integrated_issues and card_news
  Key,         \* a row and one of its kinds
  RowOf,       \* the row of a key
  Optional,    \* keys whose text may be blank
  Parts,       \* chunks of a text
  BatchSize,   \* CONTENT_VDB_UPSERT_BATCH_SIZE
  MaxSaves,    \* bound: saves of rows
  MaxFailures, \* bound: requests that fail, and processes that die
  MaxScripts   \* bound: calls of the script

ASSUME IndexAssumption ==
  /\ RowOf \in [Key -> Row]
  /\ Optional \subseteq Key
  /\ Parts \in Nat \ {0} /\ BatchSize \in Nat \ {0}
  /\ MaxSaves \in Nat /\ MaxFailures \in Nat /\ MaxScripts \in Nat

VARIABLES
  text,     \* the database: version of each text, 0 for a blank one
  points,   \* the collection
  call,     \* the call of each indexer
  last,     \* history: the version the latest call for a key took, or 0
  broken,   \* history: keys of a call that did not reach its end
  mixed,    \* history: keys that calls met at, or whose chunks were kept
  saves, failures, scripts

history == <<last, broken, mixed>>
vars == <<text, points, call, history, saves, failures, scripts>>

-----------------------------------------------------------------------------
(* Types and helpers *)

Version == 0 .. MaxSaves

Chunk == [key : Key, version : Version, part : 0 .. Parts - 1]

\* Mutant: the chunks are counted from one.
ChunksFromOne(k, v) == {[key |-> k, version |-> v, part |-> i] : i \in 1 .. Parts}

\* _chunks_for_text.
Chunks(k, v) == {[key |-> k, version |-> v, part |-> i] : i \in 0 .. Parts - 1}

\* took: the version a call has of each of its keys, 0 for the other keys;
\* stale: keys whose old chunks it has still to delete; todo: chunks to upsert;
\* kept, met: history, keys not deleted, and keys another call worked on.
Call == [at : {"idle", "saved", "delete", "upsert"}, took : [Key -> Version],
         stale : SUBSET Key, todo : SUBSET Chunk,
         kept : SUBSET Key, met : SUBSET Key]

NoCall == [at |-> "idle", took |-> [k \in Key |-> 0], stale |-> {}, todo |-> {},
           kept |-> {}, met |-> {}]

KeysOf(c) == {k \in Key : c.at # "saved" /\ c.took[k] # 0}

Quiet(k) == \A w \in Indexer : k \notin KeysOf(call[w])

Shown(k) == {p \in points : p.key = k}

\* Mutant: the keys seen are compared by their row alone.
FirstOfRow(K) == {k \in K : k = CHOOSE j \in K : RowOf[j] = RowOf[k]}

\* The keys whose chunks are deleted: each key once.
Replaced(K) == K

\* A call for the texts of "took" begins; without a text it returns at once.
Begin(w, took, replace) ==
  LET K == {k \in Key : took[k] # 0}
      shared == {k \in K : ~Quiet(k)} IN
  /\ K # {}
  /\ call' = [i \in Indexer |->
       IF i = w
       THEN [at |-> IF replace THEN "delete" ELSE "upsert", took |-> took,
             stale |-> IF replace THEN Replaced(K) ELSE {},
             todo |-> UNION {Chunks(k, took[k]) : k \in K},
             kept |-> IF replace THEN {} ELSE K, met |-> shared]
       ELSE [call[i] EXCEPT !.met = @ \cup (K \cap KeysOf(call[i]))]]
  /\ last' = [k \in Key |-> IF k \in K THEN took[k] ELSE last[k]]
  /\ UNCHANGED <<points, broken, mixed, failures>>

-----------------------------------------------------------------------------
(* Actions *)

Init ==
  /\ text = [k \in Key |-> 0]
  /\ points = {}
  /\ call = [w \in Indexer |-> NoCall]
  /\ last = [k \in Key |-> 0] /\ broken = {} /\ mixed = {}
  /\ saves = 0 /\ failures = 0 /\ scripts = 0

\* The texts of a row when it is saved: new, as before, or blank.
Texts(r) ==
  {t \in [Key -> Version] : \A k \in Key :
     IF RowOf[k] # r THEN t[k] = text[k]
     ELSE /\ t[k] \in {saves + 1, text[k], 0}
          /\ t[k] = 0 => k \in Optional}

\* A row is saved.  The caller keeps the texts in memory, to index them.
SaveRow(w, r) ==
  /\ call[w].at = "idle"
  /\ saves < MaxSaves
  /\ saves' = saves + 1
  /\ text' \in Texts(r)
  /\ LET took == [k \in Key |-> IF RowOf[k] = r THEN text'[k] ELSE 0] IN
       call' = IF \A k \in Key : took[k] = 0 THEN call
               ELSE [call EXCEPT ![w] = [NoCall EXCEPT !.at = "saved", !.took = took]]
  /\ UNCHANGED <<points, history, failures, scripts>>

IndexSaved(w) ==
  /\ call[w].at = "saved"
  /\ Begin(w, call[w].took, TRUE)
  /\ UNCHANGED <<text, saves, scripts>>

\* index_content_vdb.py indexes the rows it reads; also the article store,
\* which reads the articles it has just inserted and replaces.  Before the rows
\* are read nothing depends on the call, so it counts from there.
IndexRows(w, R) ==
  /\ call[w].at = "idle"
  /\ scripts < MaxScripts
  /\ scripts' = scripts + 1
  /\ \E replace \in BOOLEAN :
       Begin(w, [k \in Key |-> IF RowOf[k] \in R THEN text[k] ELSE 0], replace)
  /\ UNCHANGED <<text, saves>>

\* Mutant: a deletion takes all kinds of the row.
OldOfRow(k) == {p \in points : RowOf[p.key] = RowOf[k]}

\* The points the filter of _delete_existing_chunks selects.
Old(k) == {p \in points : p.key = k}

\* The chunks of one key are deleted; an error is logged and the call goes on.
Delete(w) ==
  /\ call[w].at = "delete"
  /\ \E k \in call[w].stale :
       \/ /\ points' = points \ Old(k)
          /\ call' = [call EXCEPT ![w].stale = @ \ {k}]
          /\ UNCHANGED failures
       \/ /\ failures < MaxFailures
          /\ failures' = failures + 1
          /\ call' = [call EXCEPT ![w].stale = @ \ {k}, ![w].kept = @ \cup {k}]
          /\ UNCHANGED points
  /\ UNCHANGED <<text, history, saves, scripts>>

AllDeleted(w) ==
  /\ call[w].at = "delete" /\ call[w].stale = {}
  /\ call' = [call EXCEPT ![w].at = "upsert"]
  /\ UNCHANGED <<text, points, history, saves, failures, scripts>>

\* The next batch is embedded and upserted; its place in the order of the rows
\* is left open.
Upsert(w) ==
  /\ call[w].at = "upsert"
  /\ \E B \in SUBSET call[w].todo :
       /\ B # {} /\ Cardinality(B) <= BatchSize
       /\ Cardinality(B) = BatchSize \/ B = call[w].todo
       /\ points' = points \cup B
       /\ call' = [call EXCEPT ![w].todo = @ \ B]
  /\ UNCHANGED <<text, history, saves, failures, scripts>>

Return(w) ==
  LET alone == KeysOf(call[w]) \ call[w].met IN
  /\ call[w].at = "upsert" /\ call[w].todo = {}
  /\ call' = [call EXCEPT ![w] = NoCall]
  /\ broken' = broken \ alone
  /\ mixed' = (mixed \ (alone \ call[w].kept)) \cup call[w].met \cup call[w].kept
  /\ UNCHANGED <<text, points, last, saves, failures, scripts>>

\* The embedding or the upsert of a batch raises, or the process dies, maybe
\* before it has begun to index what it saved.
Break(w) ==
  /\ call[w].at # "idle"
  /\ failures < MaxFailures
  /\ failures' = failures + 1
  /\ broken' = broken \cup KeysOf(call[w])
  /\ call' = [call EXCEPT ![w] = NoCall]
  /\ UNCHANGED <<text, points, last, mixed, saves, scripts>>

Next ==
  \E w \in Indexer :
    \/ \E r \in Row : SaveRow(w, r)
    \/ IndexSaved(w)
    \/ \E R \in SUBSET Row : IndexRows(w, R)
    \/ Delete(w) \/ AllDeleted(w) \/ Upsert(w) \/ Return(w) \/ Break(w)

Spec == Init /\ [][Next]_vars

-----------------------------------------------------------------------------
(* Properties *)

TypeOK ==
  /\ text \in [Key -> Version]
  /\ points \subseteq Chunk
  /\ call \in [Indexer -> Call]
  /\ last \in [Key -> Version]
  /\ broken \subseteq Key /\ mixed \subseteq Key
  /\ saves \in 0 .. MaxSaves /\ failures \in 0 .. MaxFailures
  /\ scripts \in 0 .. MaxScripts

\* When no call works on a key that was indexed, and none of its calls broke
\* off, a reader finds all chunks of at least one of its texts, however the
\* deletions and batches of its calls interleaved.
SomeTextWhole ==
  \A k \in Key : Quiet(k) /\ k \notin broken /\ last[k] # 0 =>
    \E v \in 1 .. MaxSaves : Chunks(k, v) \subseteq points

\* A key whose calls ended, did not overlap and deleted what was there shows
\* the text its latest call took, and nothing else: a replacement in two steps
\* leaves neither a truncated nor a mixed text.
LatestAlone ==
  \A k \in Key : Quiet(k) /\ k \notin broken \cup mixed /\ last[k] # 0 =>
    Shown(k) = Chunks(k, last[k])

\* "This module keeps RDB as the system of record, but mirrors expensive long
\* text fields into Qdrant" (content_index.py:3): between calls, in a
\* run without failures, the chunks of a key are those of its text.
Mirrors ==
  (\A w \in Indexer : call[w].at = "idle") =>
    \A k \in Key \ (broken \cup mixed) :
      Shown(k) = IF text[k] = 0 THEN {} ELSE Chunks(k, text[k])

=============================================================================
