--------------------------- MODULE CardSourcesProofs ---------------------------
(***************************************************************************)
(* Proofs about CardSources for every cluster, set of cards and number of  *)
(* workers, any of which may fail: its types, the end of every merge and   *)
(* save, and, with what they say while a writer is still busy,             *)
(* NewestComplete and OlderKept.                                           *)
(***************************************************************************)
EXTENDS CardSources, TLAPS

\* A writer knows its card and whether it is a merge.
Carried(w) ==
  /\ op[w].pc \in {"merge", "link"} => op[w].card \in Card
  /\ op[w].pc # "link" => ~ op[w].saving

\* The invariant that holds whatever writers overlap.
IInv == TypeOK /\ \A w \in Worker : Carried(w)

LEMMA InitIInv == Init => IInv
BY DEF Init, IInv, TypeOK, Carried, NoOp, Op

\* The steps of a save, a merge and a sync keep the invariant.
LEMMA WorkerStep ==
  ASSUME IInv, NEW w \in Worker,
         \/ \E a \in Article : Attach(w, a)
         \/ \E c \in Card : \E S \in SUBSET Article : Save(w, c, S)
         \/ Continue(w)
         \/ Fail(w)
  PROVE  IInv'
<1>1. op[w] \in Op
  BY DEF IInv, TypeOK
<1>2. TypeOK /\ Carried(w)
  BY DEF IInv
<1>3. ASSUME NEW a \in Article, Attach(w, a) PROVE IInv'
  BY <1>1, <1>2, <1>3 DEF IInv, TypeOK, Carried, Attach, NoOp, Op
<1>4. ASSUME NEW c \in Card, NEW S \in SUBSET Article, Save(w, c, S) PROVE IInv'
  BY <1>1, <1>2, <1>4 DEF IInv, TypeOK, Carried, Save, NoOp, Op
<1>5. ASSUME ReadNewest(w) PROVE IInv'
  <2>1. CASE op' = [op EXCEPT ![w] = NoOp]
    BY <1>1, <1>2, <1>5, <2>1 DEF IInv, TypeOK, Carried, ReadNewest, NoOp, Op
  <2>2. ASSUME NEW c \in Newest,
               op' = [op EXCEPT ![w] = [NoOp EXCEPT !.pc = "merge", !.card = c,
                                                    !.value = Merged(c, op[w].new)]]
        PROVE  IInv'
    <3>1. c \in Card /\ Merged(c, op[w].new) \subseteq Article
      BY <1>1, <1>2 DEF TypeOK, Newest, Merged, Scoped, Op
    <3>2. QED
      BY <1>1, <1>2, <1>5, <2>2, <3>1 DEF IInv, TypeOK, Carried, ReadNewest, NoOp, Op
  <2>3. QED
    BY <1>5, <2>1, <2>2 DEF ReadNewest
<1>6. ASSUME WriteMerged(w) PROVE IInv'
  BY <1>1, <1>2, <1>6 DEF IInv, TypeOK, Carried, WriteMerged, Op
<1>7. ASSUME Link(w) PROVE IInv'
  <2>1. op' = [op EXCEPT ![w] = [NoOp EXCEPT !.pc = "cards"]] \/ op' = [op EXCEPT ![w] = NoOp]
    BY <1>7 DEF Link
  <2>2. links' \in [Card -> SUBSET Article]
    BY <1>1, <1>2, <1>7 DEF Link, TypeOK, Carried, Op
  <2>3. QED
    BY <1>2, <1>7, <2>1, <2>2 DEF IInv, TypeOK, Carried, Link, NoOp, Op
<1>8. ASSUME ReadCards(w) PROVE IInv'
  <2>1. op' = [op EXCEPT ![w] = NoOp]
        \/ op' = [op EXCEPT ![w] = [NoOp EXCEPT !.pc = "articles", !.cards = active]]
    BY <1>8 DEF ReadCards, ToSync
  <2>2. settled' \in BOOLEAN /\ UNCHANGED <<member, gone, active, ids, links, synced>>
    <3>1. settled' = (settled \/ Alone(w)) /\ settled \in BOOLEAN
      BY <1>2, <1>8 DEF ReadCards, TypeOK
    <3>2. settled' \in BOOLEAN
      BY <3>1, Zenon DEF Alone
    <3>3. QED
      BY <3>2, <1>8 DEF ReadCards
  <2>3. CASE op' = [op EXCEPT ![w] = NoOp]
    BY <1>2, <2>2, <2>3 DEF IInv, TypeOK, Carried, NoOp, Op
  <2>4. CASE op' = [op EXCEPT ![w] = [NoOp EXCEPT !.pc = "articles", !.cards = active]]
    BY <1>2, <2>2, <2>4 DEF IInv, TypeOK, Carried, NoOp, Op
  <2>5. QED
    BY <2>1, <2>3, <2>4
<1>9. ASSUME ReadArticles(w) PROVE IInv'
  BY <1>1, <1>2, <1>9 DEF IInv, TypeOK, Carried, ReadArticles, Op
<1>10. ASSUME Sync(w) PROVE IInv'
  BY <1>1, <1>2, <1>10 DEF IInv, TypeOK, Carried, Sync, Scoped, NoOp, Op
<1>11. ASSUME Fail(w) PROVE IInv'
  <2>1. op' = [op EXCEPT ![w] = [NoOp EXCEPT !.pc = "cards"]] \/ op' = [op EXCEPT ![w] = NoOp]
    BY <1>11 DEF Fail
  <2>2. UNCHANGED <<member, gone, active, ids, links, synced>> /\ settled' \in BOOLEAN
    BY <1>11 DEF Fail
  <2>3. CASE op' = [op EXCEPT ![w] = NoOp]
    BY <1>2, <2>2, <2>3 DEF IInv, TypeOK, Carried, NoOp, Op
  <2>4. CASE op' = [op EXCEPT ![w] = [NoOp EXCEPT !.pc = "cards"]]
    BY <1>2, <2>2, <2>4 DEF IInv, TypeOK, Carried, NoOp, Op
  <2>5. QED
    BY <2>1, <2>3, <2>4
<1>12. QED
  BY <1>3, <1>4, <1>5, <1>6, <1>7, <1>8, <1>9, <1>10, <1>11 DEF Continue

LEMMA NextIInv == IInv /\ [Next]_vars => IInv'
<1> SUFFICES ASSUME IInv, [Next]_vars PROVE IInv'
  OBVIOUS
<1>1. CASE DeleteCards
  BY <1>1 DEF IInv, TypeOK, Carried, DeleteCards
<1>2. ASSUME NEW a \in Article, Leave(a) \/ Restore(a) PROVE IInv'
  BY <1>2 DEF IInv, TypeOK, Carried, Leave, Restore
<1>3. CASE UNCHANGED vars
  BY <1>3 DEF IInv, TypeOK, Carried, vars
<1>4. QED
  BY <1>1, <1>2, <1>3, WorkerStep DEF Next

THEOREM InvariantHolds == Spec => []IInv
  BY InitIInv, NextIInv, PTL DEF Spec

(* Every variable keeps its type, for any number of workers. *)
THEOREM TypeCorrect == Spec => []TypeOK
<1>1. IInv => TypeOK
  BY DEF IInv
<1>2. QED
  BY <1>1, InvariantHolds, PTL

-----------------------------------------------------------------------------
(* Settled times *)

\* What holds of the cards when no writer is at work: the newest one is
\* complete and all have what the last sync gave them.
Whole == (\A c \in Newest : Complete(c, member)) /\ (\A c \in active : Complete(c, synced))

\* How far the cards have got when worker w is at each of its steps: a merge
\* lacks only what it carries; a save may cite less than the cluster holds
\* until its sync, which has read every card and every member.
Progress(w) ==
  /\ op[w].pc = "idle" \/ (op[w].pc = "link" /\ ~ op[w].saving) => Whole
  /\ op[w].pc = "attach"
       => /\ \A c \in Newest : Complete(c, member \ op[w].new)
          /\ \A c \in active : Complete(c, synced)
  /\ op[w].pc = "merge"
       => /\ \A c \in Newest : c = op[w].card /\ Scoped(c, member) \subseteq op[w].value
          /\ \A c \in active : Complete(c, synced)
          /\ op[w].card \in active => Scoped(op[w].card, synced) \subseteq op[w].value
  /\ op[w].pc \in {"articles", "sync"} => active \subseteq op[w].cards
  /\ op[w].pc = "sync" => member \subseteq op[w].seen

\* In a settled time at most one worker is at work, and is somewhere on that
\* way.
OnTheWay ==
  settled => /\ Idle => Whole
             /\ \A w \in Worker : op[w].pc # "idle" => Alone(w) /\ Progress(w)

\* There is only one newest card.
LEMMA NewestUnique ==
  ASSUME TypeOK, NEW c \in Newest, NEW d \in Newest
  PROVE  c = d
<1>1. c \in Card /\ d \in Card /\ CreatedAt[c] <= CreatedAt[d] /\ CreatedAt[d] <= CreatedAt[c]
  BY DEF TypeOK, Newest
<1>2. CreatedAt[c] \in Int /\ CreatedAt[d] \in Int
  BY <1>1, CardAssumption
<1>3. CreatedAt[c] = CreatedAt[d]
  BY <1>1, <1>2
<1>4. QED
  BY <1>1, <1>3, CardAssumption

\* A step of a worker that is alone and on its way leaves all on their way.
LEMMA OneAtWork ==
  ASSUME NEW w \in Worker, Alone(w)', Progress(w)'
  PROVE  OnTheWay'
<1>1. Idle' => Whole'
  BY DEF Idle, Progress
<1>2. ASSUME NEW v \in Worker, op'[v].pc # "idle" PROVE v = w
  BY <1>2 DEF Alone
<1>3. QED
  BY <1>1, <1>2 DEF OnTheWay

LEMMA AloneStep ==
  ASSUME IInv, OnTheWay, NEW w \in Worker, settled',
         \/ \E a \in Article : Attach(w, a)
         \/ \E c \in Card : \E S \in SUBSET Article : Save(w, c, S)
         \/ Continue(w)
  PROVE  OnTheWay'
<1>1. op[w] \in Op /\ TypeOK /\ Carried(w)
  BY DEF IInv, TypeOK
<1>2. Alone(w) /\ (ReadCards(w) \/ Progress(w))
  <2>1. CASE ReadCards(w)
    BY <1>1, <2>1 DEF ReadCards, OnTheWay
  <2>2. CASE ~ ReadCards(w)
    <3>1. settled /\ (op[w].pc = "idle" => Alone(w))
      BY <2>2 DEF Attach, Save, Continue, ReadNewest, WriteMerged, Link, ReadArticles, Sync
    <3>2. CASE op[w].pc = "idle"
      BY <3>1, <3>2 DEF OnTheWay, Alone, Idle, Progress
    <3>3. CASE op[w].pc # "idle"
      BY <3>1, <3>3 DEF OnTheWay
    <3>4. QED
      BY <3>2, <3>3
  <2>3. QED
    BY <2>1, <2>2
<1>3. \A v \in Worker \ {w} : op'[v] = op[v]
  BY <1>1 DEF TypeOK, Attach, Save, Continue, ReadNewest, WriteMerged, Link, ReadCards,
     ReadArticles, Sync
<1>a. Alone(w)'
  BY <1>2, <1>3 DEF Alone
<1> SUFFICES Progress(w)'
  BY <1>a, OneAtWork
<1>4. ASSUME NEW a \in Article, Attach(w, a) PROVE Progress(w)'
  <2>1. /\ Newest' = Newest /\ ids' = ids /\ member' = member \cup {a}
        /\ active' = active /\ synced' = synced
    BY <1>4 DEF Attach, Newest
  <2>2. op'[w].pc = "attach" /\ op'[w].new = op[w].new \cup {a} /\ Progress(w)
    BY <1>1, <1>2, <1>4 DEF Attach, ReadCards, NoOp, Op, TypeOK
  <2>3. CASE op[w].pc = "idle"
    BY <2>1, <2>2, <2>3 DEF Progress, Whole, Complete, Scoped
  <2>4. CASE op[w].pc = "attach"
    BY <2>1, <2>2, <2>4 DEF Progress, Complete, Scoped
  <2>5. QED
    BY <1>4, <2>3, <2>4 DEF Attach
<1>5. ASSUME NEW c \in Card, NEW S \in SUBSET Article, Save(w, c, S) PROVE Progress(w)'
  BY <1>1, <1>5 DEF Progress, Save, NoOp, Op, TypeOK
<1>6. ASSUME ReadNewest(w) PROVE Progress(w)'
  <2>1. /\ Newest' = Newest /\ ids' = ids /\ member' = member /\ active' = active
        /\ synced' = synced
    BY <1>6 DEF ReadNewest, Newest
  <2>2. /\ \A c \in Newest : Complete(c, member \ op[w].new)
        /\ \A c \in active : Complete(c, synced)
    BY <1>2, <1>6 DEF ReadNewest, ReadCards, Progress
  <2>3. CASE /\ \A c \in Newest : Scoped(c, op[w].new) = {}
             /\ op' = [op EXCEPT ![w] = NoOp]
    <3>1. op'[w] = NoOp
      BY <2>3, <1>1 DEF TypeOK
    <3>2. \A c \in Newest : Complete(c, member)
      BY <2>2, <2>3 DEF Complete, Scoped
    <3>3. QED
      BY <3>1, <3>2, <2>1, <2>2 DEF Progress, Whole, NoOp, Complete
  <2>4. ASSUME NEW c \in Newest,
               op' = [op EXCEPT ![w] = [NoOp EXCEPT !.pc = "merge", !.card = c,
                                                    !.value = Merged(c, op[w].new)]]
        PROVE  Progress(w)'
    <3>1. op'[w].pc = "merge" /\ op'[w].card = c /\ op'[w].value = Merged(c, op[w].new)
      BY <1>1, <2>4 DEF TypeOK, Op, NoOp
    <3>2. \A d \in Newest : d = c
      BY <1>1, NewestUnique
    <3>3. Scoped(c, member) \subseteq Merged(c, op[w].new)
      BY <2>2 DEF Complete, Merged, Scoped
    <3>4. c \in active /\ Scoped(c, synced) \subseteq Merged(c, op[w].new)
      BY <2>2 DEF Newest, Complete, Merged, Scoped
    <3>5. QED
      BY <2>1, <2>2, <3>1, <3>2, <3>3, <3>4 DEF Progress, Scoped, Complete
  <2>5. QED
    BY <1>6, <2>3, <2>4 DEF ReadNewest
<1>7. ASSUME WriteMerged(w) PROVE Progress(w)'
  <2>1. /\ Newest' = Newest /\ member' = member /\ active' = active /\ synced' = synced
        /\ op'[w].pc = "link" /\ op[w].card \in Card /\ active \subseteq Card
    BY <1>1, <1>7 DEF WriteMerged, Newest, TypeOK, Op, Carried
  <2>2. ids' = [ids EXCEPT ![op[w].card] = op[w].value] /\ ids \in [Card -> SUBSET Article]
    BY <1>1, <1>7 DEF WriteMerged, TypeOK
  <2>3. /\ \A c \in Newest : c = op[w].card /\ Scoped(c, member) \subseteq op[w].value
        /\ \A c \in active : Complete(c, synced)
        /\ op[w].card \in active => Scoped(op[w].card, synced) \subseteq op[w].value
    BY <1>2, <1>7 DEF WriteMerged, ReadCards, Progress
  <2>4. \A c \in active : Scoped(c, synced) \subseteq ids'[c]
    BY <2>1, <2>2, <2>3 DEF Complete
  <2>5. \A c \in Newest : Scoped(c, member) \subseteq ids'[c]
    BY <2>1, <2>2, <2>3
  <2>6. QED
    BY <2>1, <2>4, <2>5 DEF Progress, Whole, Complete, Scoped
<1>8. ASSUME Link(w) PROVE Progress(w)'
  <2>1. /\ Newest' = Newest /\ member' = member /\ ids' = ids /\ active' = active
        /\ synced' = synced
    BY <1>8 DEF Link, Newest
  <2>2. CASE op[w].saving
    BY <1>1, <1>8, <2>2 DEF Link, Progress, NoOp, TypeOK, Op
  <2>3. CASE ~ op[w].saving
    <3>1. op'[w] = NoOp
      BY <1>1, <1>8, <2>3 DEF Link, TypeOK
    <3>2. Whole
      BY <1>2, <1>8, <2>3 DEF Link, ReadCards, Progress
    <3>3. QED
      BY <2>1, <3>1, <3>2 DEF Progress, Whole, NoOp, Complete
  <2>4. QED
    BY <2>2, <2>3
<1>9. ASSUME ReadCards(w) PROVE Progress(w)'
  <2>1. Newest' = Newest /\ active' = active
    BY <1>9 DEF ReadCards, Newest
  <2>2. CASE active = {}
    <3>1. op'[w] = NoOp /\ Newest = {}
      BY <1>1, <1>9, <2>2 DEF ReadCards, ToSync, TypeOK, Newest
    <3>2. QED
      BY <2>1, <2>2, <3>1 DEF Progress, Whole, NoOp
  <2>3. CASE active # {}
    <3>1. op'[w].pc = "articles" /\ op'[w].cards = active
      BY <1>1, <1>9, <2>3 DEF ReadCards, ToSync, TypeOK, Op, NoOp
    <3>2. QED
      BY <2>1, <3>1 DEF Progress
  <2>4. QED
    BY <2>2, <2>3
<1>10. ASSUME ReadArticles(w) PROVE Progress(w)'
  <2>1. active' = active /\ member' = member /\ active \subseteq op[w].cards
    BY <1>2, <1>10 DEF ReadArticles, ReadCards, Progress
  <2>2. op'[w].pc = "sync" /\ op'[w].cards = op[w].cards /\ op'[w].seen = member
    BY <1>1, <1>10 DEF ReadArticles, TypeOK, Op
  <2>3. QED
    BY <2>1, <2>2 DEF Progress
<1>11. ASSUME Sync(w) PROVE Progress(w)'
  <2>1. Newest' = Newest /\ active' = active /\ member' = member /\ op'[w] = NoOp
    BY <1>1, <1>11 DEF Sync, Newest, TypeOK
  <2>2. /\ Newest \subseteq active /\ active \subseteq op[w].cards /\ member \subseteq op[w].seen
        /\ synced' = op[w].seen
    BY <1>2, <1>11 DEF Sync, ReadCards, Progress, Newest
  <2>3. ASSUME NEW c \in active PROVE Scoped(c, op[w].seen) \subseteq ids'[c]
    <3>1. c \in Card /\ c \in op[w].cards
      BY <1>1, <2>2 DEF TypeOK
    <3>2. ids'[c] = IF Scoped(c, op[w].seen) # {} THEN Scoped(c, op[w].seen) ELSE ids[c]
      BY <1>11, <3>1 DEF Sync
    <3>3. QED
      BY <3>2
  <2>4. \A c \in Newest : Scoped(c, member) \subseteq ids'[c]
    BY <2>2, <2>3 DEF Scoped
  <2>5. QED
    BY <2>1, <2>2, <2>3, <2>4 DEF Progress, Whole, NoOp, Complete, Scoped
<1>12. QED
  BY <1>4, <1>5, <1>6, <1>7, <1>8, <1>9, <1>10, <1>11 DEF Continue

\* So do departures and deletions.
LEMMA OthersStep ==
  ASSUME OnTheWay, settled', DeleteCards \/ \E a \in Article : Leave(a) \/ Restore(a)
  PROVE  OnTheWay'
<1>1. settled /\ op' = op
  BY DEF DeleteCards, Leave, Restore
<1>2. /\ active' \subseteq active /\ member' \subseteq member /\ ids' = ids
      /\ synced' = synced /\ Newest' \subseteq Newest
  BY DEF DeleteCards, Leave, Restore, Newest
<1>3. Whole => Whole'
  BY <1>2 DEF Whole, Complete, Scoped
<1>4. ASSUME NEW w \in Worker, Progress(w) PROVE Progress(w)'
  BY <1>1, <1>2, <1>3, <1>4 DEF Progress, Complete, Scoped
<1>5. QED
  BY <1>1, <1>3, <1>4 DEF OnTheWay, Idle, Alone

LEMMA NextOnTheWay == IInv /\ OnTheWay /\ [Next]_vars => OnTheWay'
<1> SUFFICES ASSUME IInv, OnTheWay, [Next]_vars, settled' PROVE OnTheWay'
  BY DEF OnTheWay
<1>1. CASE UNCHANGED vars
  BY <1>1 DEF vars, OnTheWay, Alone, Idle, Progress, Whole, Newest, Complete, Scoped
<1>2. ASSUME NEW v \in Worker, Fail(v) PROVE FALSE
  BY <1>2 DEF Fail
<1>3. QED
  BY <1>1, <1>2, AloneStep, OthersStep DEF Next

THEOREM SettledHolds == Spec => []OnTheWay
<1>1. Init => OnTheWay
  BY DEF Init, OnTheWay, Whole, NoOp, Newest
<1>2. QED
  BY <1>1, NextOnTheWay, InvariantHolds, PTL DEF Spec

(* Whenever no writer is at work in a settled time, the newest card cites  *)
(* every article of the cluster about its company, for any number of       *)
(* workers and whatever overlapped or failed before that time.             *)
THEOREM CompleteSafe == Spec => []NewestComplete
<1>1. OnTheWay => NewestComplete
  BY DEF OnTheWay, Whole, NewestComplete
<1>2. QED
  BY <1>1, SettledHolds, PTL

(* Every card cites what the last sync of the settled time gave it.        *)
THEOREM OlderSafe == Spec => []OlderKept
<1>1. OnTheWay => OlderKept
  BY DEF OnTheWay, Whole, OlderKept
<1>2. QED
  BY <1>1, SettledHolds, PTL

-----------------------------------------------------------------------------
(* What is missing is on its way, and arrives *)

\* Steps worker state o still takes.
StepsLeft(o) ==
  CASE o.pc = "idle" -> 0
    [] o.pc = "attach" -> 3
    [] o.pc = "merge" -> 2
    [] o.pc = "link" -> IF o.saving THEN 4 ELSE 1
    [] o.pc = "cards" -> 3
    [] o.pc = "articles" -> 2
    [] o.pc = "sync" -> 1

\* A step that neither stores or moves an article, nor saves or deletes cards,
\* takes one worker closer to the end of its merge or save.
WritersEnd ==
  [][\/ DeleteCards
     \/ \E a \in Article : Leave(a) \/ Restore(a)
     \/ \E w \in Worker :
          /\ \/ \E a \in Article : Attach(w, a)
             \/ \E c \in Card : \E S \in SUBSET Article : Save(w, c, S)
             \/ StepsLeft(op'[w]) < StepsLeft(op[w])
          /\ \A v \in Worker \ {w} : op'[v] = op[v]]_vars

\* The work of w is going to bring article a to the newest card.
Brings(w, a) ==
  \/ op[w].pc = "attach" /\ a \in op[w].new
  \/ op[w].pc = "merge" /\ a \in op[w].value
  \/ op[w].pc = "link" /\ op[w].saving
  \/ op[w].pc \in {"cards", "articles", "sync"}

\* In a settled time an article that the newest card should cite and does not
\* is on its way to it.
MissingOnTheWay ==
  settled =>
    \A c \in Newest : \A a \in Scoped(c, member) \ ids[c] : \E w \in Worker : Brings(w, a)

\* Every merge and save ends, for any number of workers.
THEOREM WritersEndSafe == Spec => WritersEnd
<1>1. IInv /\ [Next]_vars =>
        [\/ DeleteCards
         \/ \E a \in Article : Leave(a) \/ Restore(a)
         \/ \E w \in Worker :
              /\ \/ \E a \in Article : Attach(w, a)
                 \/ \E c \in Card : \E S \in SUBSET Article : Save(w, c, S)
                 \/ StepsLeft(op'[w]) < StepsLeft(op[w])
              /\ \A v \in Worker \ {w} : op'[v] = op[v]]_vars
  <2> SUFFICES ASSUME IInv, Next, ~ DeleteCards,
                      ~ \E a \in Article : Leave(a) \/ Restore(a)
               PROVE  \E w \in Worker :
              /\ \/ \E a \in Article : Attach(w, a)
                 \/ \E c \in Card : \E S \in SUBSET Article : Save(w, c, S)
                 \/ StepsLeft(op'[w]) < StepsLeft(op[w])
              /\ \A v \in Worker \ {w} : op'[v] = op[v]
    OBVIOUS
  <2>1. PICK w \in Worker :
          \/ \E a \in Article : Attach(w, a)
          \/ \E c \in Card : \E S \in SUBSET Article : Save(w, c, S)
          \/ Continue(w)
          \/ Fail(w)
    BY DEF Next
  <2>2. op \in [Worker -> Op] /\ op[w] \in Op
    BY DEF IInv, TypeOK
  <2>3. \A v \in Worker \ {w} : op'[v] = op[v]
    BY <2>1, <2>2 DEF Attach, Save, Continue, ReadNewest, WriteMerged, Link, ReadCards,
       ReadArticles, Sync, Fail
  <2>4. CASE op'[w] = NoOp /\ op[w].pc # "idle"
    <3>1. StepsLeft(op'[w]) = 0 /\ StepsLeft(op[w]) > 0
      BY <2>2, <2>4 DEF StepsLeft, NoOp, Op
    <3> QED
      BY <2>3, <3>1
  <2>5. CASE Continue(w) /\ op'[w] # NoOp
    <3>1. \/ op[w].pc = "attach" /\ op'[w].pc = "merge"
          \/ op[w].pc = "merge" /\ op'[w].pc = "link" /\ ~ op'[w].saving
          \/ op[w].pc = "link" /\ op[w].saving /\ op'[w].pc = "cards"
          \/ op[w].pc = "cards" /\ op'[w].pc = "articles"
          \/ op[w].pc = "articles" /\ op'[w].pc = "sync"
      <4>1. Carried(w)
        BY DEF IInv
      <4>2. CASE ReadNewest(w) \/ WriteMerged(w)
        BY <2>2, <2>5, <4>1, <4>2 DEF Carried, ReadNewest, WriteMerged, NoOp, Op
      <4>3. CASE Link(w)
        BY <2>2, <2>5, <4>3 DEF Link, NoOp, Op
      <4>4. CASE ReadCards(w)
        <5>1. op' = [op EXCEPT ![w] = [NoOp EXCEPT !.pc = "articles", !.cards = ToSync(w)]]
          BY <2>2, <2>5, <4>4 DEF ReadCards
        <5> QED
          BY <2>2, <4>4, <5>1 DEF ReadCards, NoOp
      <4>5. CASE ReadArticles(w) \/ Sync(w)
        BY <2>2, <2>5, <4>5 DEF ReadArticles, Sync, Op
      <4> QED
        BY <2>5, <4>2, <4>3, <4>4, <4>5 DEF Continue
    <3>2. StepsLeft(op'[w]) < StepsLeft(op[w])
      BY <3>1 DEF StepsLeft
    <3> QED
      BY <2>3, <3>2
  <2>6. CASE Continue(w) /\ op[w].pc = "idle"
    BY <2>6 DEF Continue, ReadNewest, WriteMerged, Link, ReadCards, ReadArticles, Sync
  <2>7. CASE Fail(w) /\ op'[w] # NoOp
    <3>1. op[w].pc = "link" /\ op[w].saving /\ op'[w].pc = "cards"
      <4>1. /\ op[w].pc = "link" /\ op[w].saving
            /\ op' = [op EXCEPT ![w] = [NoOp EXCEPT !.pc = "cards"]]
        BY <2>2, <2>7 DEF Fail
      <4> QED
        BY <2>2, <4>1 DEF NoOp
    <3>2. StepsLeft(op'[w]) < StepsLeft(op[w])
      BY <3>1 DEF StepsLeft
    <3> QED
      BY <2>3, <3>2
  <2>8. CASE Fail(w) /\ op[w].pc = "idle"
    BY <2>8 DEF Fail
  <2> QED
    BY <2>1, <2>3, <2>4, <2>5, <2>6, <2>7, <2>8
<1> QED
  BY <1>1, InvariantHolds, PTL DEF Spec, WritersEnd

\* In a settled time nothing that belongs to the newest card is forgotten:
\* what it does not cite yet, the writer at work brings.
THEOREM MissingSafe == Spec => []MissingOnTheWay
<1>1. IInv /\ OnTheWay => MissingOnTheWay
  <2> SUFFICES ASSUME IInv, OnTheWay, settled, NEW c \in Newest,
                      NEW a \in Scoped(c, member) \ ids[c]
               PROVE  \E w \in Worker : Brings(w, a)
    BY DEF MissingOnTheWay
  <2>1. ~ Complete(c, member)
    BY DEF Complete
  <2>2. PICK w \in Worker : op[w].pc # "idle"
    BY <2>1 DEF OnTheWay, Whole, Idle
  <2>3. op[w] \in Op /\ Progress(w)
    BY <2>2 DEF IInv, TypeOK, OnTheWay
  <2>4. CASE op[w].pc = "attach"
    BY <2>3, <2>4 DEF Progress, Complete, Scoped, Brings
  <2>5. CASE op[w].pc = "merge"
    BY <2>3, <2>5 DEF Progress, Brings
  <2>6. CASE op[w].pc \notin {"attach", "merge"}
    BY <2>1, <2>2, <2>3, <2>6 DEF Progress, Whole, Brings, Op
  <2> QED
    BY <2>4, <2>5, <2>6
<1> QED
  BY <1>1, InvariantHolds, SettledHolds, PTL

=============================================================================
