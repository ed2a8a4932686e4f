--------------------------- MODULE DeliveryProofs ---------------------------
(***************************************************************************)
(* Proofs about Delivery, for any targets, articles, sources, number of    *)
(* threads and number of errors, dead tracks and deliveries.               *)
(*                                                                         *)
(* FlowOK says what the state of one flow graph may be at each node:       *)
(* a field is empty until its node has run, and a node that raised left    *)
(* its field empty.  Versions orders the deliveries: no row is newer than  *)
(* the delivery under way, which is older than all results that wait.      *)
(* Futures says of each future what its card has become.  The last section *)
(* shows what is behind TrackEnds: a track and its cards have always less  *)
(* to do after a step, and never stand still.                              *)
(***************************************************************************)
EXTENDS Delivery, FiniteSetTheorems, WellFoundedInduction, TLAPS

\* The nodes up to strategic_insight, and those up to validate.
Early == {"idle", "issue_integrate", "profile_context", "build_analysis_context",
          "strategic_insight"}

Unvalidated == Early \cup {"validate"}

FlowOK(f) ==
  /\ f \in State
  /\ IsFiniteSet(f.failed) /\ f.errors >= Cardinality(f.failed)
  /\ f.errors = 0 <=> f.failed = {}
  /\ f.at \in {"idle", "issue_integrate"} => f.issue = "none" /\ "issue_integrate" \notin f.failed
  /\ f.at \in Early => f.insight = "none" /\ "strategic_insight" \notin f.failed
  /\ f.at \in Unvalidated => f.report = "none" /\ "validate" \notin f.failed
  /\ f.at # "end" => ~f.card
  /\ f.issue # "none" => "issue_integrate" \notin f.failed
  /\ f.insight # "none" => "strategic_insight" \notin f.failed
  /\ f.report # "none" => "validate" \notin f.failed
  /\ f.insight = "valid" => f.issue \in Usable
  /\ f.report = "pass" => f.issue = "valid" /\ f.insight = "valid"
  /\ f.card => f.issue # "invalid"
  /\ f.rowId => f.card

\* A card made was saved, or a save failed, or it is of the company itself.
Tried(t, f) == f.card => f.rowId \/ f.misses >= 1 \/ t \in Self

Flows == \A t \in Target : FlowOK(flow[t]) /\ Tried(t, flow[t])

Versions ==
  /\ \A r \in RowId : rows[r].version <= track.version
  /\ track.version <= track.made
  /\ \A i \in 1 .. Len(track.results) :
       track.version < track.results[i].version /\ track.results[i].version <= track.made
  /\ \A i, j \in 1 .. Len(track.results) :
       i < j => track.results[i].version < track.results[j].version

Batches ==
  /\ track.at \notin {"classify", "collect", "drain", "index"} => track.batch = {}
  /\ track.at \notin {"collect", "index"} => listed = {}
  /\ track.at = "index" => \A t \in track.batch : future[t] = "taken"

Safe(f) == f.rowId \/ f.misses >= 2

Written(t) == rows[t].version = track.version

Futures ==
  /\ \A t \in Target : future[t] = "card" => Safe(flow[t])
  /\ \A t \in listed : future[t] = "taken" /\ Safe(flow[t])
  /\ track.at \in {"collect", "index"} =>
       \A t \in track.batch : Written(t) =>
         \/ future[t] = "running" /\ flow[t].at = "end" /\ flow[t].card
              /\ t \notin Self /\ flow[t].issue # "none"
         \/ future[t] = "card"
         \/ future[t] = "taken" /\ t \in listed

Owned ==
  /\ \A t \in Target : rows[t].by \in {t, NoTarget}
  /\ \A t \in Self, r \in RowId : rows[r].by # t

IInv ==
  TypeOK /\ Flows /\ Versions /\ Batches /\ Futures /\ Owned /\ NothingForgotten

-----------------------------------------------------------------------------
(* The states of one flow graph *)

LEMMA AfterValues ==
  /\ After["issue_integrate"] = "profile_context"
  /\ After["profile_context"] = "build_analysis_context"
  /\ After["build_analysis_context"] = "strategic_insight"
  /\ After["strategic_insight"] = "validate"
  /\ After["validate"] = "assemble"
  /\ After["assemble"] = "card_writer"
  /\ After["card_writer"] = "end"
  BY DEF After, Node

LEMMA IdleOK == FlowOK(Idle) /\ ~Idle.card
<1>1. Idle \in State
  BY DEF Idle, State, Grade
<1>2. IsFiniteSet({}) /\ Cardinality({}) = 0
  BY FS_EmptySet
<1>3. /\ Idle.at = "idle" /\ Idle.issue = "none" /\ Idle.insight = "none" /\ Idle.report = "none"
      /\ Idle.card = FALSE /\ Idle.rowId = FALSE /\ Idle.errors = 0 /\ Idle.failed = {}
  BY DEF Idle
<1> QED
  BY <1>1, <1>2, <1>3 DEF FlowOK

LEMMA EnteredOK == FlowOK(Entered) /\ ~Entered.card
<1>1. Entered \in State
  BY IdleOK DEF FlowOK, Entered, State, Node
<1>2. IsFiniteSet({}) /\ Cardinality({}) = 0
  BY FS_EmptySet
<1>3. /\ Entered.at = "issue_integrate" /\ Entered.issue = "none" /\ Entered.insight = "none"
      /\ Entered.report = "none" /\ Entered.card = FALSE /\ Entered.rowId = FALSE
      /\ Entered.errors = 0 /\ Entered.failed = {}
  BY DEF Entered, Idle
<1> QED
  BY <1>1, <1>2, <1>3 DEF FlowOK

\* What a node that returns makes of the state h it has filled in.
LEMMA SucceedFacts ==
  ASSUME NEW t \in Target, flow \in [Target -> State], NEW h \in State,
         h.at \in Node, Succeed(t, h)
  PROVE  /\ flow' \in [Target -> State]
         /\ \A u \in Target \ {t} : flow'[u] = flow[u]
         /\ flow'[t].at = After[h.at] /\ flow'[t].errors = h.errors + h.errors
         /\ flow'[t].issue = h.issue /\ flow'[t].insight = h.insight
         /\ flow'[t].report = h.report /\ flow'[t].package = h.package
         /\ flow'[t].card = h.card /\ flow'[t].rowId = h.rowId
         /\ flow'[t].failed = h.failed /\ flow'[t].misses = h.misses
<1>1. After[h.at] \in Node \cup {"idle", "end"}
  BY AfterValues DEF Node
<1>2. h.errors + h.errors \in Nat
  BY DEF State
<1> DEFINE g == [h EXCEPT !.at = After[h.at], !.errors = h.errors + h.errors]
<1>3. /\ g \in State
      /\ g.at = After[h.at] /\ g.errors = h.errors + h.errors
      /\ g.issue = h.issue /\ g.insight = h.insight /\ g.report = h.report
      /\ g.package = h.package /\ g.card = h.card /\ g.rowId = h.rowId
      /\ g.failed = h.failed /\ g.misses = h.misses
  BY <1>1, <1>2 DEF State
<1>4. flow' = [flow EXCEPT ![t] = g]
  BY DEF Succeed, Reduced
<1> HIDE DEF g
<1> QED
  BY <1>3, <1>4

LEMMA RaiseFacts ==
  ASSUME NEW t \in Target, flow \in [Target -> State], flow[t].at \in Node, Raise(t)
  PROVE  /\ flow' \in [Target -> State]
         /\ \A u \in Target \ {t} : flow'[u] = flow[u]
         /\ flow'[t].at = After[flow[t].at]
         /\ flow'[t].errors = flow[t].errors + flow[t].errors + 1
         /\ flow'[t].issue = flow[t].issue /\ flow'[t].insight = flow[t].insight
         /\ flow'[t].report = flow[t].report /\ flow'[t].package = flow[t].package
         /\ flow'[t].card = flow[t].card /\ flow'[t].rowId = flow[t].rowId
         /\ flow'[t].failed = flow[t].failed \cup {flow[t].at}
         /\ flow'[t].misses = flow[t].misses
<1>1. After[flow[t].at] \in Node \cup {"idle", "end"}
  BY AfterValues DEF Node
<1>2. flow[t] \in State /\ flow[t].errors + (flow[t].errors + 1) \in Nat
  BY DEF State
<1> DEFINE f == flow[t]
           g == [f EXCEPT !.at = After[f.at], !.errors = f.errors + (f.errors + 1),
                          !.failed = @ \cup {f.at}]
<1>3. flow' = [flow EXCEPT ![t] = g]
  BY DEF Raise, Reduced, Returned
<1>4. f \in State /\ f.at \in Node /\ After[f.at] \in Node \cup {"idle", "end"}
      /\ f.errors + (f.errors + 1) \in Nat
  BY <1>1, <1>2
<1> HIDE DEF f
<1>5. /\ g \in State
      /\ g.at = After[f.at] /\ g.errors = f.errors + (f.errors + 1)
      /\ g.issue = f.issue /\ g.insight = f.insight /\ g.report = f.report
      /\ g.package = f.package /\ g.card = f.card /\ g.rowId = f.rowId
      /\ g.failed = f.failed \cup {f.at} /\ g.misses = f.misses
  BY <1>4 DEF State
<1>6. f.errors + (f.errors + 1) = f.errors + f.errors + 1
  BY <1>4 DEF State
<1> HIDE DEF g
<1>7. flow'[t] = g /\ flow' \in [Target -> State] /\ \A u \in Target \ {t} : flow'[u] = flow[u]
  BY <1>3, <1>5
<1> QED
  BY <1>5, <1>6, <1>7 DEF f

\* The errors a raising node leaves behind still count its failures.
LEMMA RaisedErrors ==
  ASSUME NEW S, NEW n, NEW e \in Nat, IsFiniteSet(S), e >= Cardinality(S)
  PROVE  /\ IsFiniteSet(S \cup {n}) /\ e + e + 1 >= Cardinality(S \cup {n})
         /\ e + e + 1 # 0 /\ S \cup {n} # {}
<1>1. IsFiniteSet(S \cup {n}) /\ Cardinality(S) \in Nat
      /\ (Cardinality(S \cup {n}) = Cardinality(S) \/ Cardinality(S \cup {n}) = Cardinality(S) + 1)
  BY FS_AddElement, FS_CardinalityType
<1> QED
  BY <1>1

\* A failing node keeps a graph in order, whichever node it is.
LEMMA RaiseFlow ==
  ASSUME NEW t \in Target, flow \in [Target -> State], flow[t].at \in Node,
         FlowOK(flow[t]), Raise(t)
  PROVE  FlowOK(flow'[t]) /\ ~flow'[t].card
<1>1. flow[t] \in State /\ flow'[t] \in State
  BY RaiseFacts
<1>2. IsFiniteSet(flow'[t].failed) /\ flow'[t].errors >= Cardinality(flow'[t].failed)
      /\ (flow'[t].errors = 0 <=> flow'[t].failed = {})
  <2>1. flow[t].errors \in Nat /\ IsFiniteSet(flow[t].failed)
        /\ flow[t].errors >= Cardinality(flow[t].failed)
    BY <1>1 DEF FlowOK, State
  <2>2. flow'[t].errors = flow[t].errors + flow[t].errors + 1
        /\ flow'[t].failed = flow[t].failed \cup {flow[t].at}
    BY RaiseFacts
  <2> QED
    BY <2>1, <2>2, RaisedErrors
<1>3. ~flow[t].card /\ flow[t].at # "end" /\ flow[t].at # "idle"
  BY DEF FlowOK, Node
<1>4. /\ flow'[t].at \in {"idle", "issue_integrate"} =>
           flow'[t].issue = "none" /\ "issue_integrate" \notin flow'[t].failed
      /\ flow'[t].at \in Early =>
           flow'[t].insight = "none" /\ "strategic_insight" \notin flow'[t].failed
      /\ flow'[t].at \in Unvalidated =>
           flow'[t].report = "none" /\ "validate" \notin flow'[t].failed
  BY RaiseFacts, AfterValues DEF FlowOK, Node, Early, Unvalidated
<1>5. /\ flow'[t].issue # "none" => "issue_integrate" \notin flow'[t].failed
      /\ flow'[t].insight # "none" => "strategic_insight" \notin flow'[t].failed
      /\ flow'[t].report # "none" => "validate" \notin flow'[t].failed
  BY RaiseFacts DEF FlowOK, Early, Unvalidated
<1> QED
  BY <1>1, <1>2, <1>3, <1>4, <1>5, RaiseFacts DEF FlowOK

\* A node that returns keeps the error list and the failures apart from zero.
LEMMA DoubledErrors ==
  ASSUME NEW f \in State, FlowOK(f), NEW e, e = f.errors + f.errors
  PROVE  e >= Cardinality(f.failed) /\ (e = 0 <=> f.failed = {}) /\ IsFiniteSet(f.failed)
<1>1. f.errors \in Nat /\ f.errors >= Cardinality(f.failed) /\ IsFiniteSet(f.failed)
      /\ (f.errors = 0 <=> f.failed = {})
  BY DEF FlowOK, State
<1>2. Cardinality(f.failed) \in Nat
  BY <1>1, FS_CardinalityType
<1> QED
  BY <1>1, <1>2

\* A step of a graph that changes no row.
Moves(t) ==
  /\ flow' \in [Target -> State]
  /\ \A u \in Target \ {t} : flow'[u] = flow[u]
  /\ FlowOK(flow'[t]) /\ Tried(t, flow'[t])
  /\ UNCHANGED rows

\* A step that writes the card of t.
WritesRow(t, v) ==
  /\ flow' \in [Target -> State]
  /\ \A u \in Target \ {t} : flow'[u] = flow[u]
  /\ FlowOK(flow'[t]) /\ Tried(t, flow'[t])
  /\ flow'[t].at = "end" /\ flow'[t].card /\ t \notin Self
  /\ flow'[t].issue = flow[t].issue
  /\ rows' = [rows EXCEPT ![CardRow(t)] = [by |-> t, version |-> v]]

LEMMA RaiseMoves ==
  ASSUME NEW t \in Target, flow \in [Target -> State], flow[t].at \in Node,
         FlowOK(flow[t]), Raise(t), rows' = rows
  PROVE  Moves(t)
  BY RaiseFacts, RaiseFlow DEF Moves, Tried

LEMMA IntegrateMoves ==
  ASSUME NEW t \in Target, flow \in [Target -> State], FlowOK(flow[t]), IssueIntegrate(t)
  PROVE  Moves(t)
<1>1. flow[t].at = "issue_integrate" /\ flow[t].at \in Node /\ flow[t] \in State /\ rows' = rows
  BY DEF IssueIntegrate, Node
<1>2. CASE Raise(t)
  BY <1>1, <1>2, RaiseMoves
<1>3. ASSUME NEW g \in Grade \ {"none"}, Succeed(t, [flow[t] EXCEPT !.issue = g])
      PROVE  Moves(t)
  <2> DEFINE f == flow[t]
             h == [f EXCEPT !.issue = g]
  <2>1. f \in State /\ f.at = "issue_integrate" /\ FlowOK(f)
    BY <1>1
  <2> HIDE DEF f
  <2>2. /\ h \in State /\ h.at = f.at /\ h.issue = g /\ h.insight = f.insight
        /\ h.report = f.report /\ h.card = f.card /\ h.rowId = f.rowId
        /\ h.failed = f.failed /\ h.errors = f.errors
    BY <2>1 DEF State, Grade
  <2> HIDE DEF h
  <2>3. Succeed(t, h)
    BY <1>3 DEF h, f
  <2>4. /\ flow' \in [Target -> State] /\ \A u \in Target \ {t} : flow'[u] = flow[u]
        /\ flow'[t].at = "profile_context" /\ flow'[t].errors = f.errors + f.errors
        /\ flow'[t].issue = g /\ flow'[t].insight = f.insight
        /\ flow'[t].report = f.report /\ flow'[t].card = f.card
        /\ flow'[t].rowId = f.rowId /\ flow'[t].failed = f.failed
    BY <2>1, <2>2, <2>3, SucceedFacts, AfterValues DEF Node
  <2>5. FlowOK(flow'[t])
    BY <2>1, <2>4, DoubledErrors DEF FlowOK, Early, Unvalidated
  <2>6. ~flow'[t].card
    BY <2>1, <2>4 DEF FlowOK
  <2> QED
    BY <1>1, <2>4, <2>5, <2>6 DEF Moves, Tried
<1> QED
  BY <1>2, <1>3 DEF IssueIntegrate

\* The two nodes that change nothing a property looks at.
LEMMA ContextMoves ==
  ASSUME NEW t \in Target, flow \in [Target -> State], FlowOK(flow[t]),
         LoadProfile(t) \/ BuildContext(t)
  PROVE  Moves(t)
<1>1. flow[t].at \in {"profile_context", "build_analysis_context"}
      /\ flow[t].at \in Node /\ flow[t] \in State /\ rows' = rows
  BY DEF LoadProfile, BuildContext, Node
<1>2. CASE Raise(t)
  BY <1>1, <1>2, RaiseMoves
<1>3. CASE Succeed(t, flow[t])
  <2>1. /\ flow' \in [Target -> State] /\ \A u \in Target \ {t} : flow'[u] = flow[u]
        /\ flow'[t].at \in {"build_analysis_context", "strategic_insight"}
        /\ flow'[t].errors = flow[t].errors + flow[t].errors
        /\ flow'[t].issue = flow[t].issue /\ flow'[t].insight = flow[t].insight
        /\ flow'[t].report = flow[t].report /\ flow'[t].card = flow[t].card
        /\ flow'[t].rowId = flow[t].rowId /\ flow'[t].failed = flow[t].failed
    BY <1>1, <1>3, SucceedFacts, AfterValues
  <2>2. FlowOK(flow'[t])
    BY <1>1, <2>1, DoubledErrors DEF FlowOK, Early, Unvalidated
  <2>3. ~flow'[t].card
    BY <1>1, <2>1 DEF FlowOK
  <2> QED
    BY <1>1, <2>1, <2>2, <2>3 DEF Moves, Tried
<1> QED
  BY <1>2, <1>3 DEF LoadProfile, BuildContext

LEMMA InsightMoves ==
  ASSUME NEW t \in Target, flow \in [Target -> State], FlowOK(flow[t]), StrategicInsight(t)
  PROVE  Moves(t)
<1>1. flow[t].at = "strategic_insight" /\ flow[t].at \in Node /\ flow[t] \in State /\ rows' = rows
  BY DEF StrategicInsight, Node
<1>2. CASE Raise(t)
  BY <1>1, <1>2, RaiseMoves
<1>3. ASSUME NEW g \in Insight(flow[t]), Succeed(t, [flow[t] EXCEPT !.insight = g])
      PROVE  Moves(t)
  <2> DEFINE f == flow[t]
             h == [f EXCEPT !.insight = g]
  <2>1. f \in State /\ f.at = "strategic_insight" /\ FlowOK(f)
        /\ g \in {"invalid", "valid"} /\ (g = "valid" => f.issue \in Usable)
    BY <1>1 DEF Insight
  <2> HIDE DEF f
  <2>2. /\ h \in State /\ h.at = f.at /\ h.issue = f.issue /\ h.insight = g
        /\ h.report = f.report /\ h.card = f.card /\ h.rowId = f.rowId
        /\ h.failed = f.failed /\ h.errors = f.errors
    BY <2>1 DEF State
  <2> HIDE DEF h
  <2>3. Succeed(t, h)
    BY <1>3 DEF h, f
  <2>4. /\ flow' \in [Target -> State] /\ \A u \in Target \ {t} : flow'[u] = flow[u]
        /\ flow'[t].at = "validate" /\ flow'[t].errors = f.errors + f.errors
        /\ flow'[t].issue = f.issue /\ flow'[t].insight = g
        /\ flow'[t].report = f.report /\ flow'[t].card = f.card
        /\ flow'[t].rowId = f.rowId /\ flow'[t].failed = f.failed
    BY <2>1, <2>2, <2>3, SucceedFacts, AfterValues DEF Node
  <2>5. FlowOK(flow'[t])
    BY <2>1, <2>4, DoubledErrors DEF FlowOK, Early, Unvalidated
  <2>6. ~flow'[t].card
    BY <2>1, <2>4 DEF FlowOK
  <2> QED
    BY <1>1, <2>4, <2>5, <2>6 DEF Moves, Tried
<1> QED
  BY <1>2, <1>3 DEF StrategicInsight

LEMMA ValidateMoves ==
  ASSUME NEW t \in Target, flow \in [Target -> State], FlowOK(flow[t]), Validate(t)
  PROVE  Moves(t)
<1>1. flow[t].at = "validate" /\ flow[t].at \in Node /\ flow[t] \in State /\ rows' = rows
  BY DEF Validate, Node
<1>2. CASE Raise(t)
  BY <1>1, <1>2, RaiseMoves
<1>3. ASSUME NEW r \in {"fail", "pass"}, r = "pass" => Passes(flow[t]),
             Succeed(t, [flow[t] EXCEPT !.report = r])
      PROVE  Moves(t)
  <2> DEFINE f == flow[t]
             h == [f EXCEPT !.report = r]
  <2>1. f \in State /\ f.at = "validate" /\ FlowOK(f) /\ (r = "pass" => Passes(f))
    BY <1>1, <1>3
  <2> HIDE DEF f
  <2>2. /\ h \in State /\ h.at = f.at /\ h.issue = f.issue /\ h.insight = f.insight
        /\ h.report = r /\ h.card = f.card /\ h.rowId = f.rowId
        /\ h.failed = f.failed /\ h.errors = f.errors
    BY <2>1 DEF State
  <2> HIDE DEF h
  <2>3. Succeed(t, h)
    BY <1>3 DEF h, f
  <2>4. /\ flow' \in [Target -> State] /\ \A u \in Target \ {t} : flow'[u] = flow[u]
        /\ flow'[t].at = "assemble" /\ flow'[t].errors = f.errors + f.errors
        /\ flow'[t].issue = f.issue /\ flow'[t].insight = f.insight
        /\ flow'[t].report = r /\ flow'[t].card = f.card
        /\ flow'[t].rowId = f.rowId /\ flow'[t].failed = f.failed
    BY <2>1, <2>2, <2>3, SucceedFacts, AfterValues DEF Node
  <2>5. r = "pass" => f.issue = "valid" /\ f.insight = "valid"
    <3>1. f.insight \in {"none", "invalid", "valid"}
      BY <2>1 DEF State
    <3> QED
      BY <2>1, <3>1 DEF Passes, FlowOK, Usable
  <2>6. FlowOK(flow'[t])
    BY <2>1, <2>4, <2>5, DoubledErrors DEF FlowOK, Early, Unvalidated
  <2>7. ~flow'[t].card
    BY <2>1, <2>4 DEF FlowOK
  <2> QED
    BY <1>1, <2>4, <2>6, <2>7 DEF Moves, Tried
<1> QED
  BY <1>2, <1>3 DEF Validate

LEMMA AssembleMoves ==
  ASSUME NEW t \in Target, flow \in [Target -> State], FlowOK(flow[t]), Assemble(t)
  PROVE  Moves(t)
<1>1. flow[t].at = "assemble" /\ flow[t].at \in Node /\ flow[t] \in State /\ rows' = rows
  BY DEF Assemble, Node
<1>2. CASE Raise(t)
  BY <1>1, <1>2, RaiseMoves
<1>3. ASSUME NEW b \in BOOLEAN,
             Succeed(t, [flow[t] EXCEPT !.package = TRUE, !.issueId = b])
      PROVE  Moves(t)
  <2> DEFINE f == flow[t]
             h == [f EXCEPT !.package = TRUE, !.issueId = b]
  <2>1. f \in State /\ f.at = "assemble" /\ FlowOK(f)
    BY <1>1
  <2> HIDE DEF f
  <2>2. /\ h \in State /\ h.at = f.at /\ h.issue = f.issue /\ h.insight = f.insight
        /\ h.report = f.report /\ h.card = f.card /\ h.rowId = f.rowId
        /\ h.failed = f.failed /\ h.errors = f.errors
    BY <2>1 DEF State
  <2> HIDE DEF h
  <2>3. Succeed(t, h)
    BY <1>3 DEF h, f
  <2>4. /\ flow' \in [Target -> State] /\ \A u \in Target \ {t} : flow'[u] = flow[u]
        /\ flow'[t].at = "card_writer" /\ flow'[t].errors = f.errors + f.errors
        /\ flow'[t].issue = f.issue /\ flow'[t].insight = f.insight
        /\ flow'[t].report = f.report /\ flow'[t].card = f.card
        /\ flow'[t].rowId = f.rowId /\ flow'[t].failed = f.failed
    BY <2>1, <2>2, <2>3, SucceedFacts, AfterValues DEF Node
  <2>5. FlowOK(flow'[t])
    BY <2>1, <2>4, DoubledErrors DEF FlowOK, Early, Unvalidated
  <2>6. ~flow'[t].card
    BY <2>1, <2>4 DEF FlowOK
  <2> QED
    BY <1>1, <2>4, <2>5, <2>6 DEF Moves, Tried
<1> QED
  BY <1>2, <1>3 DEF Assemble

LEMMA WriterMoves ==
  ASSUME NEW t \in Target, NEW v, flow \in [Target -> State], FlowOK(flow[t]), WriteCard(t, v)
  PROVE  Moves(t) \/ WritesRow(t, v)
<1>1. flow[t].at = "card_writer" /\ flow[t].at \in Node /\ flow[t] \in State
  BY DEF WriteCard, Node
<1>2. CASE Raise(t) /\ rows' = rows
  BY <1>1, <1>2, RaiseMoves
<1>3. CASE Succeed(t, flow[t]) /\ rows' = rows
  <2>1. /\ flow' \in [Target -> State] /\ \A u \in Target \ {t} : flow'[u] = flow[u]
        /\ flow'[t].at = "end" /\ flow'[t].errors = flow[t].errors + flow[t].errors
        /\ flow'[t].issue = flow[t].issue /\ flow'[t].insight = flow[t].insight
        /\ flow'[t].report = flow[t].report /\ flow'[t].card = flow[t].card
        /\ flow'[t].rowId = flow[t].rowId /\ flow'[t].failed = flow[t].failed
    BY <1>1, <1>3, SucceedFacts, AfterValues
  <2>2. FlowOK(flow'[t])
    BY <1>1, <2>1, DoubledErrors DEF FlowOK, Early, Unvalidated
  <2>3. ~flow'[t].card
    BY <1>1, <2>1 DEF FlowOK
  <2> QED
    BY <1>3, <2>1, <2>2, <2>3 DEF Moves, Tried
<1>4. ASSUME Writes(flow[t]), NEW b \in Saved(t), SaveCard(t, v, b),
             Succeed(t, [flow[t] EXCEPT !.card = TRUE, !.rowId = b,
                                        !.misses = IF b THEN @ ELSE @ + 1])
      PROVE  Moves(t) \/ WritesRow(t, v)
  <2> DEFINE f == flow[t]
             m == IF b THEN f.misses ELSE f.misses + 1
             h == [f EXCEPT !.card = TRUE, !.rowId = b, !.misses = m]
  <2>1. f \in State /\ f.at = "card_writer" /\ FlowOK(f) /\ b \in BOOLEAN
        /\ (b => t \notin Self) /\ f.issue # "invalid"
    BY <1>1, <1>4 DEF Saved, Writes
  <2>2. Succeed(t, h)
    BY <1>4
  <2>3. rows' = IF b THEN [rows EXCEPT ![CardRow(t)] = [by |-> t, version |-> v]] ELSE rows
    BY <1>4 DEF SaveCard
  <2> HIDE DEF f
  <2>4. m \in Nat /\ (b \/ m >= 1)
    BY <2>1 DEF State
  <2> HIDE DEF m
  <2>5. /\ h \in State /\ h.at = f.at /\ h.issue = f.issue /\ h.insight = f.insight
        /\ h.report = f.report /\ h.card = TRUE /\ h.rowId = b
        /\ h.failed = f.failed /\ h.errors = f.errors /\ h.misses = m
    BY <2>1, <2>4 DEF State
  <2> HIDE DEF h
  <2>6. /\ flow' \in [Target -> State] /\ \A u \in Target \ {t} : flow'[u] = flow[u]
        /\ flow'[t].at = "end" /\ flow'[t].errors = f.errors + f.errors
        /\ flow'[t].issue = f.issue /\ flow'[t].insight = f.insight
        /\ flow'[t].report = f.report /\ flow'[t].card = TRUE
        /\ flow'[t].rowId = b /\ flow'[t].failed = f.failed /\ flow'[t].misses = m
    BY <2>1, <2>2, <2>5, SucceedFacts, AfterValues DEF Node
  <2>7. FlowOK(flow'[t])
    BY <2>1, <2>6, DoubledErrors DEF FlowOK, Early, Unvalidated
  <2>8. Tried(t, flow'[t])
    BY <2>4, <2>6 DEF Tried
  <2>9. CASE b
    BY <2>1, <2>3, <2>6, <2>7, <2>8, <2>9 DEF WritesRow, f
  <2>10. CASE ~b
    BY <2>3, <2>6, <2>7, <2>8, <2>10 DEF Moves
  <2> QED
    BY <2>9, <2>10
<1> QED
  BY <1>2, <1>3, <1>4 DEF WriteCard

\* Every step of a graph moves it and perhaps writes its card.
LEMMA FlowStepMoves ==
  ASSUME NEW t \in Target, NEW v, flow \in [Target -> State], FlowOK(flow[t]), FlowStep(t, v)
  PROVE  flow[t].at \in Node /\ (Moves(t) \/ WritesRow(t, v))
<1>1. flow[t].at \in Node
  BY DEF FlowStep, IssueIntegrate, LoadProfile, BuildContext, StrategicInsight, Validate,
         Assemble, WriteCard, Node
<1> QED
  BY <1>1, IntegrateMoves, ContextMoves, InsightMoves, ValidateMoves, AssembleMoves,
     WriterMoves DEF FlowStep

\* The state a card leaves behind.
LEMMA CardOfFields ==
  ASSUME NEW f \in State, FlowOK(f)
  PROVE  LET g == CardOf(f) IN
         /\ g \in State /\ FlowOK(g) /\ g.at = "end" /\ g.issue = f.issue /\ g.card = f.card
         /\ g.rowId = f.rowId /\ g.misses = f.misses
         /\ g.errors = 0 /\ g.failed = {} /\ g.insight = "none" /\ g.report = "none"
<1> DEFINE g == CardOf(f)
<1>1. Idle \in State /\ IsFiniteSet({}) /\ Cardinality({}) = 0
  BY IdleOK, FS_EmptySet DEF FlowOK
<1>2. /\ g \in State /\ g.at = "end" /\ g.issue = f.issue /\ g.card = f.card
      /\ g.rowId = f.rowId /\ g.misses = f.misses /\ g.errors = Idle.errors
      /\ g.failed = Idle.failed /\ g.insight = Idle.insight /\ g.report = Idle.report
  BY <1>1 DEF CardOf, State
<1>3. Idle.errors = 0 /\ Idle.failed = {} /\ Idle.insight = "none" /\ Idle.report = "none"
  BY DEF Idle
<1> HIDE DEF g
<1>4. FlowOK(g)
  BY <1>1, <1>2, <1>3 DEF FlowOK, Early, Unvalidated
<1> QED
  BY <1>2, <1>3, <1>4 DEF g

\* A finished graph: its card may be written once more.
LEMMA FinishFacts ==
  ASSUME NEW t \in Target, flow \in [Target -> State], FlowOK(flow[t]), Tried(t, flow[t]),
         FinishCard(t)
  PROVE  /\ flow[t].at = "end"
         /\ Moves(t) \/ (WritesRow(t, track.version) /\ flow[t].card)
         /\ flow'[t].card = flow[t].card /\ flow'[t].issue = flow[t].issue
         /\ Returns(t) => Safe(flow'[t])
<1> DEFINE f == flow[t]
<1>1. f \in State /\ f.at = "end" /\ FlowOK(f) /\ Tried(t, f)
  BY DEF FinishCard
<1>2. /\ CardOf(f) \in State /\ FlowOK(CardOf(f)) /\ CardOf(f).at = "end"
      /\ CardOf(f).issue = f.issue /\ CardOf(f).card = f.card /\ CardOf(f).rowId = f.rowId
      /\ CardOf(f).misses = f.misses /\ CardOf(f).errors = 0 /\ CardOf(f).failed = {}
      /\ CardOf(f).insight = "none" /\ CardOf(f).report = "none"
  BY <1>1, CardOfFields
<1>3. CASE ~SavesAgain(t) /\ flow' = [flow EXCEPT ![t] = CardOf(f)] /\ rows' = rows
  <2>1. flow' \in [Target -> State] /\ flow'[t] = CardOf(f)
        /\ \A u \in Target \ {t} : flow'[u] = flow[u]
    BY <1>2, <1>3
  <2>2. Tried(t, flow'[t])
    BY <1>1, <1>2, <2>1 DEF Tried
  <2>3. Returns(t) => flow'[t].rowId
    BY <1>2, <1>3, <2>1 DEF Returns, SavesAgain
  <2>4. Moves(t)
    BY <1>2, <1>3, <2>1, <2>2 DEF Moves
  <2>5. flow'[t].card = flow[t].card /\ flow'[t].issue = flow[t].issue
    BY <1>2, <2>1
  <2> QED
    BY <1>1, <2>3, <2>4, <2>5 DEF Safe
<1>4. ASSUME SavesAgain(t), NEW b \in Saved(t), SaveCard(t, track.version, b),
             flow' = [flow EXCEPT ![t] =
               [CardOf(f) EXCEPT !.rowId = @ \/ b, !.misses = IF b THEN @ ELSE @ + 1]]
      PROVE  /\ Moves(t) \/ (WritesRow(t, track.version) /\ f.card)
             /\ flow'[t].card = f.card /\ flow'[t].issue = f.issue
             /\ Returns(t) => Safe(flow'[t])
  <2> DEFINE c == CardOf(f)
             m == IF b THEN c.misses ELSE c.misses + 1
             g == [c EXCEPT !.rowId = c.rowId \/ b, !.misses = m]
  <2>1. f.card /\ b \in BOOLEAN /\ (b => t \notin Self)
    BY <1>4 DEF SavesAgain, Saved
  <2>2. rows' = IF b THEN [rows EXCEPT ![CardRow(t)] = [by |-> t, version |-> track.version]]
                ELSE rows
    BY <1>4 DEF SaveCard
  <2>3. flow' = [flow EXCEPT ![t] = g]
    BY <1>4
  <2>4. c \in State /\ FlowOK(c)
    BY <1>2
  <2> HIDE DEF c
  <2>5. m \in Nat /\ c.misses \in Nat /\ (b \/ m = c.misses + 1) /\ (b => m = c.misses)
        /\ (c.rowId \/ b) \in BOOLEAN
    BY <2>1, <2>4 DEF State
  <2> HIDE DEF m
  <2>6. /\ g \in State /\ g.at = c.at /\ g.issue = c.issue /\ g.card = c.card
        /\ g.rowId = (c.rowId \/ b) /\ g.misses = m /\ g.errors = c.errors
        /\ g.failed = c.failed /\ g.insight = c.insight /\ g.report = c.report
    BY <2>4, <2>5 DEF State
  <2> HIDE DEF g
  <2>7. flow' \in [Target -> State] /\ flow'[t] = g
        /\ \A u \in Target \ {t} : flow'[u] = flow[u]
    BY <2>3, <2>6
  <2>8. FlowOK(g) /\ g.card /\ g.issue = f.issue /\ g.at = "end"
    BY <1>2, <2>1, <2>4, <2>6 DEF FlowOK, c
  <2>9. Tried(t, g) /\ (t \notin Self => Safe(g))
    <3>1. c.rowId = f.rowId /\ c.misses = f.misses /\ g.card
      BY <1>2, <2>1, <2>6 DEF c
    <3>2. f.rowId \/ f.misses >= 1 \/ t \in Self
      BY <1>1, <2>1 DEF Tried
    <3>3. c.rowId \/ b => g.rowId
      BY <2>6
    <3>4. CASE c.rowId \/ b
      BY <3>3, <3>4 DEF Tried, Safe
    <3>5. CASE ~(c.rowId \/ b)
      <4>1. g.misses = c.misses + 1 /\ c.misses \in Nat
        BY <2>5, <2>6, <3>5
      <4>2. g.misses >= 1 /\ (t \notin Self => g.misses >= 2)
        BY <3>1, <3>2, <3>5, <4>1
      <4> QED
        BY <4>2 DEF Tried, Safe
    <3> QED
      BY <3>4, <3>5
  <2>10. CASE b
    BY <2>1, <2>2, <2>7, <2>8, <2>9, <2>10 DEF WritesRow, Returns
  <2>11. CASE ~b
    BY <2>1, <2>2, <2>7, <2>8, <2>9, <2>11 DEF Moves, Returns
  <2> QED
    BY <2>10, <2>11
<1> QED
  BY <1>1, <1>3, <1>4 DEF FinishCard

-----------------------------------------------------------------------------
(* The steps of a delivery *)

\* What a step of a card leaves of the rows and the other graphs.
LEMMA EffectFacts ==
  ASSUME NEW t \in Target, IInv, Moves(t) \/ WritesRow(t, track.version),
         track'.version = track.version
  PROVE  /\ flow' \in [Target -> State] /\ Flows'
         /\ rows' \in [RowId -> [by : Target \cup {NoTarget}, version : Nat]]
         /\ \A r \in RowId : rows'[r].version <= track.version
         /\ \A r \in RowId : rows'[r].version >= rows[r].version
         /\ \A u \in Target \ {t} : rows'[u] = rows[u]
         /\ rows'[t] = rows[t] \/ (WritesRow(t, track.version) /\ flow[t].issue # "none")
         /\ Owned'
<1>1. CardRow(t) \in RowId /\ (CardRow(t) = t \/ (flow[t].issue = "none" /\ CardRow(t) = SharedRow))
      /\ track.version \in Nat /\ RowId = Target \cup {SharedRow}
  <2>1. track.version \in Nat
    BY DEF IInv, TypeOK, Track
  <2> QED
    BY <2>1 DEF CardRow, RowId
<1>2. SharedRow \notin Target
  BY FlowAssumption
<1>3. rows \in [RowId -> [by : Target \cup {NoTarget}, version : Nat]]
      /\ \A r \in RowId : rows[r].version <= track.version
  BY DEF IInv, TypeOK, FlowTypeOK, Versions
<1>4. flow' \in [Target -> State] /\ Flows'
  BY DEF Moves, WritesRow, IInv, Flows
<1>5. CASE rows' = rows
  <2>1. Owned'
    BY <1>5 DEF Owned, IInv
  <2>2. \A r \in RowId : rows[r].version \in Nat
    BY <1>3
  <2>3. \A r \in RowId : rows'[r].version <= track.version /\ rows'[r].version >= rows[r].version
    BY <1>3, <1>5, <2>2
  <2>4. \A u \in Target : rows'[u] = rows[u]
    BY <1>5
  <2> QED
    BY <1>3, <1>4, <1>5, <2>1, <2>3, <2>4
<1>6. CASE WritesRow(t, track.version)
  <2> DEFINE new == [by |-> t, version |-> track.version]
  <2>1. rows' = [rows EXCEPT ![CardRow(t)] = new] /\ t \notin Self
    BY <1>6 DEF WritesRow
  <2>2. new \in [by : Target \cup {NoTarget}, version : Nat] /\ new.by = t
        /\ new.version = track.version
    BY <1>1
  <2> HIDE DEF new
  <2>3. \A r \in RowId : rows'[r] = IF r = CardRow(t) THEN new ELSE rows[r]
    BY <1>1, <1>3, <2>1
  <2>4. rows' \in [RowId -> [by : Target \cup {NoTarget}, version : Nat]]
    BY <1>3, <2>1, <2>2
  <2>5. \A r \in RowId : rows[r].version \in Nat
    BY <1>3
  <2>6. \A r \in RowId : rows'[r].version <= track.version /\ rows'[r].version >= rows[r].version
    BY <1>1, <1>3, <2>2, <2>3, <2>5
  <2>7. \A u \in Target \ {t} : rows'[u] = rows[u]
    BY <1>1, <1>2, <2>3
  <2>8. rows'[t] = rows[t] \/ flow[t].issue # "none"
    BY <1>1, <1>2, <2>3 DEF CardRow
  <2>9. Owned'
    <3>1. \A u \in Target : rows'[u].by \in {u, NoTarget}
      BY <1>1, <1>2, <2>2, <2>3 DEF Owned, IInv
    <3>2. \A u \in Self, r \in RowId : rows'[r].by # u
      BY <2>1, <2>2, <2>3 DEF Owned, IInv
    <3> QED
      BY <3>1, <3>2 DEF Owned
  <2>10. rows'[t] = rows[t] \/ (WritesRow(t, track.version) /\ flow[t].issue # "none")
    BY <1>6, <2>8
  <2> QED
    BY <1>4, <2>4, <2>6, <2>7, <2>9, <2>10
<1> QED
  BY <1>5, <1>6 DEF Moves

\* What the steps of the pool keep of the track.
LEMMA AnalyseIInv ==
  ASSUME NEW t \in Target, IInv, Analyse(t)
  PROVE  IInv' /\ \A r \in RowId : rows'[r].version >= rows[r].version
<1>1. /\ future[t] = "running" /\ FlowStep(t, track.version)
      /\ UNCHANGED <<status, track, stops, tracks, future, listed, indexed, asked, settled>>
  BY DEF Analyse, trackVars, poolVars
<1>2. flow \in [Target -> State] /\ FlowOK(flow[t])
  BY DEF IInv, TypeOK, FlowTypeOK, Flows
<1>3. flow[t].at \in Node /\ (Moves(t) \/ WritesRow(t, track.version))
  BY <1>1, <1>2, FlowStepMoves
<1>4. /\ flow' \in [Target -> State] /\ Flows'
      /\ rows' \in [RowId -> [by : Target \cup {NoTarget}, version : Nat]]
      /\ \A r \in RowId : rows'[r].version <= track.version
      /\ \A r \in RowId : rows'[r].version >= rows[r].version
      /\ \A u \in Target \ {t} : rows'[u] = rows[u]
      /\ rows'[t] = rows[t] \/ (WritesRow(t, track.version) /\ flow[t].issue # "none")
      /\ Owned'
  BY <1>1, <1>3, EffectFacts
<1>5. failures' \in 0 .. MaxFailures /\ issues' \subseteq Target
  <2>1. failures \in 0 .. MaxFailures /\ issues \subseteq Target /\ MaxFailures \in Nat
    BY FlowAssumption DEF IInv, TypeOK, FlowTypeOK
  <2>2. failures' = failures \/ (failures < MaxFailures /\ failures' = failures + 1)
    BY <1>1 DEF FlowStep, IssueIntegrate, LoadProfile, BuildContext, StrategicInsight,
       Validate, Assemble, WriteCard, Raise, SaveCard, Saved
  <2>3. issues' \subseteq issues \cup {t}
    BY <1>1 DEF FlowStep, IssueIntegrate, LoadProfile, BuildContext, StrategicInsight,
       Validate, Assemble, WriteCard
  <2> QED
    BY <2>1, <2>2, <2>3
<1>6. TypeOK'
  BY <1>1, <1>4, <1>5 DEF IInv, TypeOK, FlowTypeOK
<1>7. Versions' /\ Batches' /\ NothingForgotten'
  BY <1>1, <1>4 DEF IInv, Versions, Batches, NothingForgotten, Pending
<1>8. \A u \in Target \ {t} : flow'[u] = flow[u]
  BY <1>3 DEF Moves, WritesRow
<1>9. Futures'
  <2>1. \A u \in Target : future'[u] = "card" => Safe(flow'[u])
    BY <1>1, <1>8 DEF IInv, Futures
  <2>2. \A u \in listed' : future'[u] = "taken" /\ Safe(flow'[u])
    BY <1>1, <1>8 DEF IInv, Futures, TypeOK
  <2>3. ASSUME track'.at \in {"collect", "index"}, NEW u \in track'.batch, Written(u)'
        PROVE  \/ /\ future'[u] = "running" /\ flow'[u].at = "end" /\ flow'[u].card
                  /\ u \notin Self /\ flow'[u].issue # "none"
               \/ future'[u] = "card"
               \/ future'[u] = "taken" /\ u \in listed'
    <3>1. u \in Target
      BY <1>1 DEF IInv, TypeOK, Track
    <3>2. CASE u # t
      <4>1. Written(u) /\ flow'[u] = flow[u]
        BY <1>1, <1>4, <1>8, <2>3, <3>1, <3>2 DEF Written
      <4> QED
        BY <1>1, <2>3, <4>1 DEF IInv, Futures
    <3>3. CASE u = t /\ rows'[t] = rows[t]
      <4>1. Written(t)
        BY <1>1, <2>3, <3>3 DEF Written
      <4>2. flow[t].at # "end"
        BY <1>3 DEF Node
      <4> QED
        BY <1>1, <2>3, <3>3, <4>1, <4>2 DEF IInv, Futures
    <3>4. CASE u = t /\ WritesRow(t, track.version) /\ flow[t].issue # "none"
      BY <1>1, <3>4 DEF WritesRow
    <3> QED
      BY <1>4, <3>2, <3>3, <3>4
  <2> QED
    BY <2>1, <2>2, <2>3 DEF Futures
<1> QED
  BY <1>4, <1>6, <1>7, <1>9 DEF IInv

LEMMA FinishIInv ==
  ASSUME NEW t \in Target, IInv, FinishCard(t)
  PROVE  IInv' /\ \A r \in RowId : rows'[r].version >= rows[r].version
<1>1. /\ future[t] = "running" /\ future \in [Target -> Future]
      /\ future' = [future EXCEPT ![t] = IF Returns(t) THEN "card" ELSE "empty"]
      /\ UNCHANGED <<status, track, stops, tracks, issues, listed, indexed, asked, settled>>
  BY DEF FinishCard, trackVars, IInv, TypeOK
<1>2. flow \in [Target -> State] /\ FlowOK(flow[t]) /\ Tried(t, flow[t])
  BY DEF IInv, TypeOK, FlowTypeOK, Flows
<1>3. /\ flow[t].at = "end"
      /\ Moves(t) \/ (WritesRow(t, track.version) /\ flow[t].card)
      /\ flow'[t].card = flow[t].card /\ flow'[t].issue = flow[t].issue
      /\ Returns(t) => Safe(flow'[t])
  BY <1>2, FinishFacts
<1>4. /\ flow' \in [Target -> State] /\ Flows'
      /\ rows' \in [RowId -> [by : Target \cup {NoTarget}, version : Nat]]
      /\ \A r \in RowId : rows'[r].version <= track.version
      /\ \A r \in RowId : rows'[r].version >= rows[r].version
      /\ \A u \in Target \ {t} : rows'[u] = rows[u]
      /\ rows'[t] = rows[t] \/ (WritesRow(t, track.version) /\ flow[t].issue # "none")
      /\ Owned'
  BY <1>1, <1>3, EffectFacts
<1>5. failures' \in 0 .. MaxFailures
  <2>1. failures \in 0 .. MaxFailures /\ MaxFailures \in Nat
    BY FlowAssumption DEF IInv, TypeOK, FlowTypeOK
  <2>2. failures' = failures \/ (failures < MaxFailures /\ failures' = failures + 1)
    BY DEF FinishCard, SaveCard, Saved
  <2> QED
    BY <2>1, <2>2
<1>6. /\ future' \in [Target -> Future]
      /\ future'[t] = (IF Returns(t) THEN "card" ELSE "empty")
      /\ \A u \in Target \ {t} : future'[u] = future[u]
  BY <1>1 DEF Future
<1>7. TypeOK'
  BY <1>1, <1>4, <1>5, <1>6 DEF IInv, TypeOK, FlowTypeOK
<1>8. Versions' /\ NothingForgotten'
  BY <1>1, <1>4 DEF IInv, Versions, NothingForgotten, Pending
<1>9. Batches'
  BY <1>1, <1>6 DEF IInv, Batches, TypeOK, Track
<1>10. \A u \in Target \ {t} : flow'[u] = flow[u]
  BY <1>3 DEF Moves, WritesRow
<1>11. Futures'
  <2>1. \A u \in Target : future'[u] = "card" => Safe(flow'[u])
    BY <1>3, <1>6, <1>10 DEF IInv, Futures
  <2>2. \A u \in listed' : future'[u] = "taken" /\ Safe(flow'[u])
    BY <1>1, <1>6, <1>10 DEF IInv, Futures, TypeOK
  <2>3. ASSUME track'.at \in {"collect", "index"}, NEW u \in track'.batch, Written(u)'
        PROVE  \/ /\ future'[u] = "running" /\ flow'[u].at = "end" /\ flow'[u].card
                  /\ u \notin Self /\ flow'[u].issue # "none"
               \/ future'[u] = "card"
               \/ future'[u] = "taken" /\ u \in listed'
    <3>1. u \in Target
      BY <1>1 DEF IInv, TypeOK, Track
    <3>2. CASE u # t
      <4>1. Written(u) /\ flow'[u] = flow[u] /\ future'[u] = future[u]
        BY <1>1, <1>4, <1>6, <1>10, <2>3, <3>1, <3>2 DEF Written
      <4> QED
        BY <1>1, <2>3, <4>1 DEF IInv, Futures
    <3>3. CASE u = t
      <4>1. flow[t].card /\ t \notin Self /\ flow[t].issue # "none"
        <5>1. CASE rows'[t] = rows[t]
          <6>1. Written(t)
            BY <1>1, <2>3, <3>3, <5>1 DEF Written
          <6> QED
            BY <1>1, <2>3, <3>3, <6>1 DEF IInv, Futures
        <5>2. CASE WritesRow(t, track.version) /\ flow[t].issue # "none"
          BY <1>3, <5>2 DEF WritesRow
        <5> QED
          BY <1>4, <5>1, <5>2
      <4>2. flow[t].issue \in Usable
        BY <1>2, <4>1 DEF FlowOK, State, Grade, Usable
      <4>3. Returns(t)
        BY <4>1, <4>2 DEF Returns
      <4> QED
        BY <1>6, <3>3, <4>3
    <3> QED
      BY <3>2, <3>3
  <2> QED
    BY <2>1, <2>2, <2>3 DEF Futures
<1> QED
  BY <1>4, <1>7, <1>8, <1>9, <1>11 DEF IInv

LEMMA StartIInv ==
  ASSUME NEW t \in Target, IInv, StartCard(t)
  PROVE  IInv' /\ rows' = rows
<1>1. /\ future[t] = "queued" /\ future \in [Target -> Future]
      /\ UNCHANGED <<status, track, stops, tracks, issues, rows, listed, indexed, asked, settled>>
  BY DEF StartCard, trackVars, IInv, TypeOK
<1>2. /\ \E x \in {"empty", "running", "raised"} : future' = [future EXCEPT ![t] = x]
      /\ flow' = flow \/ flow' = [flow EXCEPT ![t] = Entered]
      /\ failures' = failures \/ (failures < MaxFailures /\ failures' = failures + 1)
  BY DEF StartCard
<1>3. /\ future' \in [Target -> Future] /\ future'[t] \in {"empty", "running", "raised"}
      /\ \A u \in Target \ {t} : future'[u] = future[u]
  BY <1>1, <1>2 DEF Future
<1>4. /\ flow' \in [Target -> State] /\ \A u \in Target \ {t} : flow'[u] = flow[u]
      /\ Flows'
  <2>1. flow \in [Target -> State] /\ FlowOK(Entered) /\ Tried(t, Entered) /\ Entered \in State
    BY EnteredOK DEF IInv, TypeOK, FlowTypeOK, Tried, FlowOK
  <2>2. flow' \in [Target -> State] /\ \A u \in Target \ {t} : flow'[u] = flow[u]
    BY <1>2, <2>1
  <2>3. flow'[t] = flow[t] \/ flow'[t] = Entered
    BY <1>2, <2>1
  <2>4. FlowOK(flow'[t]) /\ Tried(t, flow'[t])
    BY <2>1, <2>3 DEF IInv, Flows
  <2> QED
    BY <2>2, <2>4 DEF IInv, Flows
<1>5. failures' \in 0 .. MaxFailures
  BY <1>2, FlowAssumption DEF IInv, TypeOK, FlowTypeOK
<1>6. TypeOK'
  BY <1>1, <1>3, <1>4, <1>5 DEF IInv, TypeOK, FlowTypeOK
<1>7. Versions' /\ NothingForgotten' /\ Owned'
  BY <1>1 DEF IInv, Versions, NothingForgotten, Pending, Owned
<1>8. Batches'
  BY <1>1, <1>3 DEF IInv, Batches, TypeOK, Track
<1>9. Futures'
  <2>1. \A u \in Target : future'[u] = "card" => Safe(flow'[u])
    BY <1>3, <1>4 DEF IInv, Futures
  <2>2. \A u \in listed' : future'[u] = "taken" /\ Safe(flow'[u])
    BY <1>1, <1>3, <1>4 DEF IInv, Futures, TypeOK
  <2>3. ASSUME track'.at \in {"collect", "index"}, NEW u \in track'.batch, Written(u)'
        PROVE  \/ /\ future'[u] = "running" /\ flow'[u].at = "end" /\ flow'[u].card
                  /\ u \notin Self /\ flow'[u].issue # "none"
               \/ future'[u] = "card"
               \/ future'[u] = "taken" /\ u \in listed'
    <3>1. u \in Target /\ Written(u)
      BY <1>1, <2>3 DEF IInv, TypeOK, Track, Written
    <3>2. u # t
      BY <1>1, <2>3, <3>1 DEF IInv, Futures
    <3> QED
      BY <1>1, <1>3, <1>4, <2>3, <3>1, <3>2 DEF IInv, Futures
  <2> QED
    BY <2>1, <2>2, <2>3 DEF Futures
<1> QED
  BY <1>1, <1>6, <1>4, <1>7, <1>8, <1>9 DEF IInv

LEMMA CollectIInv ==
  ASSUME NEW t \in Target, IInv, Collect(t) \/ CollectRaised(t)
  PROVE  IInv' /\ rows' = rows
<1>1. /\ UNCHANGED <<flow, issues, rows, failures, status, stops, tracks, indexed, asked, settled>>
      /\ future' = [future EXCEPT ![t] = "taken"] /\ future \in [Target -> Future]
      /\ track.at = "collect" /\ track \in Track /\ listed \subseteq Target
  BY DEF Collect, CollectRaised, flowVars, trackVars, IInv, TypeOK
<1>2. /\ future' \in [Target -> Future] /\ future'[t] = "taken"
      /\ \A u \in Target \ {t} : future'[u] = future[u]
  BY <1>1 DEF Future
<1>3. Flows' /\ Owned'
  BY <1>1 DEF IInv, Flows, Owned
<1>4. CASE Collect(t)
  <2>1. /\ track' = track /\ future[t] \in {"empty", "card"}
        /\ listed' = IF future[t] = "card" THEN listed \cup {t} ELSE listed
    BY <1>4 DEF Collect, trackVars
  <2>2. TypeOK'
    BY <1>1, <1>2, <2>1 DEF IInv, TypeOK, FlowTypeOK
  <2>3. Versions' /\ NothingForgotten'
    BY <1>1, <2>1 DEF IInv, Versions, NothingForgotten, Pending
  <2>4. Batches'
    BY <1>1, <2>1 DEF IInv, Batches
  <2>5. Futures'
    <3>1. \A u \in Target : future'[u] = "card" => Safe(flow'[u])
      BY <1>1, <1>2 DEF IInv, Futures
    <3>2. \A u \in listed' : future'[u] = "taken" /\ Safe(flow'[u])
      BY <1>1, <1>2, <2>1 DEF IInv, Futures
    <3>3. ASSUME NEW u \in track'.batch, Written(u)'
          PROVE  \/ /\ future'[u] = "running" /\ flow'[u].at = "end" /\ flow'[u].card
                    /\ u \notin Self /\ flow'[u].issue # "none"
                 \/ future'[u] = "card"
                 \/ future'[u] = "taken" /\ u \in listed'
      <4>1. u \in Target /\ u \in track.batch /\ Written(u)
        BY <1>1, <2>1, <3>3 DEF Track, Written
      <4> QED
        BY <1>1, <1>2, <2>1, <4>1 DEF IInv, Futures
    <3> QED
      BY <3>1, <3>2, <3>3 DEF Futures
  <2> QED
    BY <1>1, <1>3, <2>2, <2>3, <2>4, <2>5 DEF IInv
<1>5. CASE CollectRaised(t)
  <2>1. track' = [track EXCEPT !.at = "drain"] /\ listed' = {}
    BY <1>5 DEF CollectRaised
  <2>2. /\ track' \in Track /\ track'.at = "drain" /\ track'.batch = track.batch
        /\ track'.results = track.results /\ track'.version = track.version
        /\ track'.made = track.made
    BY <1>1, <2>1 DEF Track
  <2>3. TypeOK'
    BY <1>1, <1>2, <2>1, <2>2 DEF IInv, TypeOK, FlowTypeOK
  <2>4. Versions' /\ NothingForgotten'
    BY <1>1, <2>2 DEF IInv, Versions, NothingForgotten, Pending
  <2>5. Batches'
    BY <2>1, <2>2 DEF Batches
  <2>6. Futures'
    BY <1>1, <1>2, <2>1, <2>2 DEF IInv, Futures
  <2> QED
    BY <1>1, <1>3, <2>3, <2>4, <2>5, <2>6 DEF IInv
<1> QED
  BY <1>4, <1>5

\* A step of the track alone, away from the pool.
LEMMA QuietFacts ==
  ASSUME IInv, UNCHANGED <<flowVars, poolVars>>,
         track.at \notin {"collect", "index"}, track'.at \notin {"collect", "index"},
         status' \in [Article -> {"absent", "raw", "processed"}], track' \in Track,
         stops' \in 0 .. MaxStops, tracks' \in 0 .. MaxTracks
  PROVE  TypeOK' /\ Flows' /\ Owned' /\ Futures' /\ rows' = rows /\ listed' = {}
<1>1. UNCHANGED <<flow, issues, rows, failures, future, listed, indexed, asked, settled>>
  BY DEF flowVars, poolVars
<1>2. listed = {}
  BY DEF IInv, Batches
<1>3. Flows' /\ Owned'
  BY <1>1 DEF IInv, Flows, Owned
<1>4. Futures'
  BY <1>1, <1>2 DEF IInv, Futures
<1>5. TypeOK'
  BY <1>1 DEF IInv, TypeOK, FlowTypeOK
<1> QED
  BY <1>1, <1>2, <1>3, <1>4, <1>5

\* Steps of the track between results: nothing it holds changes.
LEMMA CrawlIInv ==
  ASSUME IInv, StartTrack \/ Crawl \/ AllCrawled \/ EndTrack
  PROVE  IInv' /\ rows' = rows
<1>1. /\ UNCHANGED <<flowVars, poolVars>> /\ stops' = stops
      /\ tracks' = tracks \/ (tracks < MaxTracks /\ tracks' = tracks + 1)
      /\ track.at \in {"idle", "crawl", "deliver"} /\ track \in Track
      /\ settled' = settled
  BY DEF StartTrack, Crawl, AllCrawled, EndTrack, IInv, TypeOK, poolVars
<1>2. /\ track' \in Track /\ track'.at \in {"idle", "crawl", "preprocess", "deliver"}
      /\ track'.batch = track.batch /\ track'.results = track.results
      /\ track'.version = track.version /\ track'.made = track.made
  <2>1. CASE StartTrack
    BY <1>1, <2>1 DEF StartTrack, Track
  <2>2. CASE Crawl
    <3>1. Feed[track.source] \in SUBSET Article
      <4>1. Feed \in Seq(SUBSET Article) /\ track.source \in Nat \ {0} /\ track.source <= Len(Feed)
        BY <1>1, <2>2, DeliveryAssumption DEF Crawl, Track
      <4> QED
        BY <4>1
    <3>2. PICK S \in SUBSET Feed[track.source] :
            track' = [track EXCEPT !.at = "preprocess", !.found = S]
      BY <2>2 DEF Crawl
    <3> QED
      BY <1>1, <3>1, <3>2 DEF Track
  <2>3. CASE AllCrawled
    BY <1>1, <2>3 DEF AllCrawled, Track
  <2>4. CASE EndTrack
    <3>1. track' = [track EXCEPT !.at = "idle", !.source = 1] /\ track \in Track
      BY <1>1, <2>4 DEF EndTrack
    <3> DEFINE first == 1
    <3>2. first \in Nat \ {0} /\ track' = [track EXCEPT !.at = "idle", !.source = first]
      BY <3>1
    <3> HIDE DEF first
    <3> QED
      BY <3>1, <3>2 DEF Track
  <2> QED
    BY <2>1, <2>2, <2>3, <2>4
<1>3. /\ status' \in [Article -> {"absent", "raw", "processed"}]
      /\ \A a \in Article : status'[a] = "processed" => status[a] = "processed"
  BY DEF StartTrack, Crawl, AllCrawled, EndTrack, IInv, TypeOK
<1>4. tracks' \in 0 .. MaxTracks /\ stops' \in 0 .. MaxStops
  BY <1>1, DeliveryAssumption DEF IInv, TypeOK
<1>5. TypeOK' /\ Flows' /\ Owned' /\ Futures' /\ rows' = rows /\ listed' = {}
  BY <1>1, <1>2, <1>3, <1>4, QuietFacts
<1>6. Versions'
  BY <1>2, <1>5 DEF IInv, Versions
<1>7. Batches'
  BY <1>1, <1>2, <1>5 DEF IInv, Batches
<1>8. NothingForgotten'
  BY <1>1, <1>2, <1>3 DEF IInv, NothingForgotten, Pending
<1> QED
  BY <1>5, <1>6, <1>7, <1>8 DEF IInv

LEMMA PreprocessIInv ==
  ASSUME IInv, Preprocess
  PROVE  IInv' /\ rows' = rows
<1>1. PICK L \in Loads(track.found \cap Raw) :
        /\ status' = [a \in Article |-> IF a \in L THEN "processed" ELSE status[a]]
        /\ track' = [track EXCEPT !.at = "classify", !.batch = Targets(L)]
  BY DEF Preprocess
<1>2. /\ UNCHANGED <<flowVars, poolVars>> /\ stops' = stops /\ tracks' = tracks
      /\ track.at = "preprocess" /\ track \in Track /\ settled' = settled
  BY DEF Preprocess, IInv, TypeOK, poolVars
<1>3. L \subseteq Article
  BY DEF Loads, Raw
<1>4. Targets(L) \subseteq Target
  BY <1>3, DeliveryAssumption DEF Targets
<1>5. /\ track' \in Track /\ track'.at = "classify" /\ track'.batch = Targets(L)
      /\ track'.results = track.results /\ track'.version = track.version
      /\ track'.made = track.made
  BY <1>1, <1>2, <1>4 DEF Track
<1>6. status' \in [Article -> {"absent", "raw", "processed"}]
  BY <1>1 DEF IInv, TypeOK
<1>7. TypeOK' /\ Flows' /\ Owned' /\ Futures' /\ rows' = rows /\ listed' = {}
  <2>1. stops' \in 0 .. MaxStops /\ tracks' \in 0 .. MaxTracks
    BY <1>2 DEF IInv, TypeOK
  <2> QED
    BY <1>2, <1>5, <1>6, <2>1, QuietFacts
<1>8. Versions'
  BY <1>5, <1>7 DEF IInv, Versions
<1>9. Batches'
  BY <1>5, <1>7 DEF Batches
<1>10. NothingForgotten'
  <2> SUFFICES ASSUME stops' = 0, NEW a \in Article, status'[a] = "processed"
      PROVE TargetOf[a] \in settled' \cup Pending'
    BY DEF NothingForgotten
  <2>1. CASE a \in L
    BY <1>5, <2>1 DEF Pending, Targets
  <2>2. CASE a \notin L
    <3>1. TargetOf[a] \in settled \cup Pending
      BY <1>1, <1>2, <2>2 DEF IInv, NothingForgotten
    <3>2. track.batch = {}
      BY <1>2 DEF IInv, Batches
    <3> QED
      BY <1>2, <1>5, <3>1, <3>2 DEF Pending
  <2> QED
    BY <2>1, <2>2
<1> QED
  BY <1>7, <1>8, <1>9, <1>10 DEF IInv

LEMMA ClassifyIInv ==
  ASSUME IInv, Classify
  PROVE  IInv' /\ rows' = rows
<1> DEFINE new == [of |-> track.batch, version |-> track.made + 1]
           results == track.results
<1>1. /\ UNCHANGED <<flowVars, poolVars>> /\ stops' = stops /\ tracks' = tracks
      /\ status' = status /\ track.at = "classify" /\ track \in Track /\ settled' = settled
      /\ track' = [track EXCEPT !.at = "crawl", !.source = @ + 1, !.found = {}, !.batch = {},
                                !.made = @ + 1, !.results = Append(results, new)]
  BY DEF Classify, IInv, TypeOK, trackVars, poolVars, Kept
<1>2. /\ new \in Result /\ new.of = track.batch /\ new.version = track.made + 1
      /\ results \in Seq(Result) /\ track.made \in Nat /\ track.version \in Nat
      /\ track.source + 1 \in Nat \ {0}
  BY <1>1 DEF Result, Track
<1> HIDE DEF new
<1>3. /\ Append(results, new) \in Seq(Result) /\ Len(Append(results, new)) = Len(results) + 1
      /\ Append(results, new)[Len(results) + 1] = new /\ Len(results) \in Nat
      /\ \A i \in 1 .. Len(results) : Append(results, new)[i] = results[i]
  BY <1>2
<1>4. /\ track' \in Track /\ track'.at = "crawl" /\ track'.batch = {}
      /\ track'.results = Append(results, new) /\ track'.version = track.version
      /\ track'.made = track.made + 1
  <2> DEFINE more == Append(results, new)
             m == track.made + 1
             n == track.source + 1
  <2>1. /\ track' = [track EXCEPT !.at = "crawl", !.source = n, !.found = {}, !.batch = {},
                                  !.made = m, !.results = more]
        /\ track \in Track
    BY <1>1
  <2>2. m \in Nat /\ n \in Nat \ {0} /\ more \in Seq(Result)
    BY <1>2, <1>3
  <2> HIDE DEF more, m, n
  <2>3. /\ track' \in Track /\ track'.at = "crawl" /\ track'.batch = {}
        /\ track'.results = more /\ track'.version = track.version /\ track'.made = m
    BY <2>1, <2>2 DEF Track
  <2> QED
    BY <2>3 DEF more, m
<1>5. TypeOK' /\ Flows' /\ Owned' /\ Futures' /\ rows' = rows /\ listed' = {}
  <2>1. stops' \in 0 .. MaxStops /\ tracks' \in 0 .. MaxTracks
        /\ status' \in [Article -> {"absent", "raw", "processed"}]
    BY <1>1 DEF IInv, TypeOK
  <2> QED
    BY <1>1, <1>4, <2>1, QuietFacts
<1>6. Versions'
  <2>1. \A i \in 1 .. Len(results) : results[i].version \in Nat
    <3>1. \A i \in 1 .. Len(results) : results[i] \in Result
      BY <1>2
    <3> QED
      BY <3>1 DEF Result
  <2>2. \A r \in RowId : rows'[r].version <= track'.version
    BY <1>4, <1>5 DEF IInv, Versions
  <2>3. track'.version <= track'.made
    BY <1>2, <1>4 DEF IInv, Versions
  <2>4. ASSUME NEW i \in 1 .. Len(track'.results)
        PROVE  track'.version < track'.results[i].version /\ track'.results[i].version <= track'.made
    <3>1. CASE i = Len(results) + 1
      BY <1>2, <1>3, <1>4, <3>1 DEF IInv, Versions
    <3>2. CASE i \in 1 .. Len(results)
      BY <1>2, <1>3, <1>4, <2>1, <3>2 DEF IInv, Versions
    <3> QED
      BY <1>3, <1>4, <3>1, <3>2
  <2>5. ASSUME NEW i \in 1 .. Len(track'.results), NEW j \in 1 .. Len(track'.results), i < j
        PROVE  track'.results[i].version < track'.results[j].version
    <3>1. i \in 1 .. Len(results)
      BY <1>3, <1>4, <2>5
    <3>2. CASE j = Len(results) + 1
      BY <1>2, <1>3, <1>4, <2>1, <3>1, <3>2 DEF IInv, Versions
    <3>3. CASE j \in 1 .. Len(results)
      BY <1>3, <1>4, <2>5, <3>1, <3>3 DEF IInv, Versions
    <3> QED
      BY <1>3, <1>4, <3>2, <3>3
  <2> QED
    BY <2>2, <2>3, <2>4, <2>5 DEF Versions
<1>7. Batches'
  BY <1>4, <1>5 DEF Batches
<1>8. NothingForgotten'
  <2> SUFFICES ASSUME stops' = 0, NEW a \in Article, status'[a] = "processed"
      PROVE TargetOf[a] \in settled' \cup Pending'
    BY DEF NothingForgotten
  <2>1. TargetOf[a] \in settled \cup Pending
    BY <1>1 DEF IInv, NothingForgotten
  <2>2. /\ DOMAIN track'.results = 1 .. Len(results) + 1 /\ DOMAIN results = 1 .. Len(results)
    BY <1>2, <1>3, <1>4
  <2>3. CASE TargetOf[a] \in track.batch
    BY <1>2, <1>3, <1>4, <2>2, <2>3 DEF Pending
  <2>4. CASE \E i \in 1 .. Len(results) : TargetOf[a] \in results[i].of
    <3>1. PICK i \in 1 .. Len(results) : TargetOf[a] \in results[i].of
      BY <2>4
    <3>2. i \in DOMAIN track'.results /\ track'.results[i] = results[i]
      BY <1>3, <1>4, <2>2
    <3> QED
      BY <3>1, <3>2 DEF Pending
  <2> QED
    BY <1>1, <2>1, <2>2, <2>3, <2>4 DEF Pending
<1> QED
  BY <1>5, <1>6, <1>7, <1>8 DEF IInv

LEMMA SubmitIInv ==
  ASSUME IInv, Submit
  PROVE  IInv' /\ rows' = rows
<1> DEFINE results == track.results
<1>1. /\ UNCHANGED <<flow, issues, rows, failures, status, stops, tracks, listed, indexed, settled>>
      /\ asked' = {} /\ track.at = "deliver" /\ results # <<>> /\ track \in Track
      /\ track' = [track EXCEPT !.at = "collect", !.results = Tail(results),
                                !.batch = Head(results).of, !.version = Head(results).version]
      /\ future' = [t \in Target |-> IF t \in Head(results).of THEN "queued" ELSE "none"]
  BY DEF Submit, NextResult, flowVars, IInv, TypeOK
<1>2. /\ results \in Seq(Result) /\ Len(results) \in Nat \ {0} /\ Head(results) = results[1]
      /\ results[1] \in Result
      /\ Tail(results) \in Seq(Result) /\ Len(Tail(results)) = Len(results) - 1
      /\ \A i \in 1 .. Len(results) - 1 : Tail(results)[i] = results[i + 1]
  <2>1. results \in Seq(Result) /\ results # <<>>
    BY <1>1 DEF Track
  <2> HIDE DEF results
  <2> QED
    BY <2>1
<1>3. results[1].of \subseteq Target /\ results[1].version \in Nat
  BY <1>2 DEF Result
<1>4. /\ track' \in Track /\ track'.at = "collect" /\ track'.batch = results[1].of
      /\ track'.results = Tail(results) /\ track'.version = results[1].version
      /\ track'.made = track.made
  <2> DEFINE rest == Tail(results)
             of == results[1].of
             v == results[1].version
  <2>1. /\ track' = [track EXCEPT !.at = "collect", !.results = rest, !.batch = of, !.version = v]
        /\ track \in Track /\ rest \in Seq(Result) /\ of \subseteq Target /\ v \in Nat
    BY <1>1, <1>2, <1>3
  <2> HIDE DEF rest, of, v
  <2>2. /\ track' \in Track /\ track'.at = "collect" /\ track'.batch = of
        /\ track'.results = rest /\ track'.version = v /\ track'.made = track.made
    BY <2>1 DEF Track
  <2> QED
    BY <2>2 DEF rest, of, v
<1>5. future' \in [Target -> Future] /\ \A t \in Target : future'[t] \in {"queued", "none"}
  BY <1>1 DEF Future
<1>6. TypeOK'
  BY <1>1, <1>4, <1>5 DEF IInv, TypeOK, FlowTypeOK
<1>7. Flows' /\ Owned'
  BY <1>1 DEF IInv, Flows, Owned
<1>8. \A r \in RowId : rows[r].version \in Nat /\ rows[r].version < track'.version
  <2>1. track.version < track'.version
    BY <1>2, <1>4 DEF IInv, Versions
  <2>2. \A r \in RowId : rows[r].version \in Nat /\ rows[r].version <= track.version
    BY DEF IInv, Versions, TypeOK, FlowTypeOK
  <2>3. track.version \in Nat /\ track'.version \in Nat
    BY <1>1, <1>4 DEF Track
  <2> QED
    BY <2>1, <2>2, <2>3
<1>9. Versions'
  <2>1. track'.version \in Nat
    BY <1>3, <1>4
  <2>2. \A r \in RowId : rows'[r].version <= track'.version
    BY <1>1, <1>8, <2>1
  <2>3. track'.version <= track'.made
    BY <1>2, <1>4 DEF IInv, Versions
  <2>4. ASSUME NEW i \in 1 .. Len(track'.results)
        PROVE  track'.version < track'.results[i].version /\ track'.results[i].version <= track'.made
    <3>1. i + 1 \in 1 .. Len(results) /\ 1 \in 1 .. Len(results) /\ 1 < i + 1
          /\ track'.results[i] = results[i + 1]
      BY <1>2, <1>4
    <3> QED
      BY <1>4, <3>1 DEF IInv, Versions
  <2>5. ASSUME NEW i \in 1 .. Len(track'.results), NEW j \in 1 .. Len(track'.results), i < j
        PROVE  track'.results[i].version < track'.results[j].version
    <3>1. i + 1 \in 1 .. Len(results) /\ j + 1 \in 1 .. Len(results) /\ i + 1 < j + 1
          /\ track'.results[i] = results[i + 1] /\ track'.results[j] = results[j + 1]
      BY <1>2, <1>4, <2>5
    <3> QED
      BY <3>1 DEF IInv, Versions
  <2> QED
    BY <2>2, <2>3, <2>4, <2>5 DEF Versions
<1>10. listed' = {}
  BY <1>1 DEF IInv, Batches
<1>11. Batches'
  BY <1>4 DEF Batches
<1>12. Futures'
  <2>1. ASSUME NEW t \in track'.batch PROVE ~Written(t)'
    <3>1. t \in RowId /\ rows'[t] = rows[t]
      BY <1>1, <1>3, <1>4 DEF RowId
    <3> QED
      BY <1>8, <3>1 DEF Written
  <2> QED
    BY <1>5, <1>10, <2>1 DEF Futures
<1>13. NothingForgotten'
  <2> SUFFICES ASSUME stops' = 0, NEW a \in Article, status'[a] = "processed"
      PROVE TargetOf[a] \in settled' \cup Pending'
    BY DEF NothingForgotten
  <2>1. TargetOf[a] \in settled \cup Pending /\ track.batch = {}
    BY <1>1 DEF IInv, NothingForgotten, Batches
  <2>2. DOMAIN results = 1 .. Len(results) /\ DOMAIN track'.results = 1 .. Len(results) - 1
    BY <1>2, <1>4
  <2>3. ASSUME NEW i \in 1 .. Len(results), TargetOf[a] \in results[i].of
        PROVE  TargetOf[a] \in Pending'
    <3>1. CASE i = 1
      BY <1>4, <2>3, <3>1 DEF Pending
    <3>2. CASE i # 1
      <4>1. i - 1 \in DOMAIN track'.results /\ track'.results[i - 1] = results[(i - 1) + 1]
            /\ (i - 1) + 1 = i
        BY <1>2, <1>4, <2>2, <3>2
      <4> QED
        BY <2>3, <4>1 DEF Pending
    <3> QED
      BY <3>1, <3>2
  <2> QED
    BY <1>1, <2>1, <2>2, <2>3 DEF Pending
<1> QED
  BY <1>1, <1>6, <1>7, <1>9, <1>11, <1>12, <1>13 DEF IInv

LEMMA AllTakenIInv ==
  ASSUME IInv, AllTaken
  PROVE  IInv' /\ rows' = rows
<1>1. /\ UNCHANGED <<flow, issues, rows, failures, status, stops, tracks,
                     future, listed, indexed, asked, settled>>
      /\ track.at = "collect" /\ track' = [track EXCEPT !.at = "index"] /\ track \in Track
      /\ \A t \in track.batch : future[t] = "taken"
  BY DEF AllTaken, flowVars, poolVars, IInv, TypeOK
<1>2. /\ track' \in Track /\ track'.at = "index" /\ track'.batch = track.batch
      /\ track'.results = track.results /\ track'.version = track.version
      /\ track'.made = track.made
  BY <1>1 DEF Track
<1>3. TypeOK'
  BY <1>1, <1>2 DEF IInv, TypeOK, FlowTypeOK
<1>4. Flows' /\ Owned' /\ Versions' /\ NothingForgotten'
  BY <1>1, <1>2 DEF IInv, Flows, Owned, Versions, NothingForgotten, Pending
<1>5. Batches'
  BY <1>1, <1>2 DEF IInv, Batches
<1>6. Futures'
  BY <1>1, <1>2 DEF IInv, Futures, Written
<1> QED
  BY <1>1, <1>3, <1>4, <1>5, <1>6 DEF IInv

\* The pool and the graphs are empty when a delivery or a track has ended.
LEMMA ResetFacts ==
  ASSUME IInv, future' = [t \in Target |-> "none"], flow' = [t \in Target |-> Idle],
         listed' = {}, UNCHANGED <<issues, rows, failures>>, track' \in Track,
         track'.at \notin {"collect", "index"}, track'.batch = {},
         track'.version = track.version, track'.made = track.made
  PROVE  /\ FlowTypeOK' /\ Flows' /\ Owned' /\ Batches' /\ Futures'
         /\ future' \in [Target -> Future]
         /\ (track'.results = track.results \/ track'.results = <<>>) => Versions'
<1>1. FlowOK(Idle) /\ ~Idle.card /\ Idle \in State
  BY IdleOK DEF FlowOK
<1>2. FlowTypeOK' /\ Flows'
  BY <1>1 DEF IInv, TypeOK, FlowTypeOK, Flows, Tried
<1>3. Owned' /\ Batches'
  BY DEF IInv, Owned, Batches
<1>4. Futures' /\ future' \in [Target -> Future]
  BY DEF Futures, Future
<1>5. track'.results = track.results => Versions'
  BY DEF IInv, Versions
<1>6. track'.results = <<>> => Versions'
  BY DEF IInv, Versions
<1> QED
  BY <1>2, <1>3, <1>4, <1>5, <1>6

LEMMA SettleIInv ==
  ASSUME IInv, Index \/ EndRaised
  PROVE  IInv' /\ rows' = rows
<1>1. /\ UNCHANGED <<issues, rows, failures, status, stops, tracks>>
      /\ Settle /\ track.at \in {"index", "drain"} /\ track \in Track
  BY DEF Index, EndRaised, IInv, TypeOK
<1>2. /\ track' = [track EXCEPT !.at = "deliver", !.batch = {}]
      /\ future' = [t \in Target |-> "none"] /\ flow' = [t \in Target |-> Idle]
      /\ listed' = {} /\ settled' = settled \cup track.batch
  BY <1>1 DEF Settle
<1>3. /\ track' \in Track /\ track'.at = "deliver" /\ track'.batch = {}
      /\ track'.results = track.results /\ track'.version = track.version
      /\ track'.made = track.made
  BY <1>1, <1>2 DEF Track
<1>4. /\ FlowTypeOK' /\ Flows' /\ Owned' /\ Batches' /\ Futures' /\ Versions'
      /\ future' \in [Target -> Future]
  BY <1>1, <1>2, <1>3, ResetFacts
<1>5. asked' \subseteq Target /\ indexed' \subseteq Target /\ settled' \subseteq Target
  <2>1. listed \subseteq Target /\ indexed \subseteq Target /\ asked \subseteq Target
        /\ settled \subseteq Target /\ track.batch \subseteq Target
    BY <1>1 DEF IInv, TypeOK, Track
  <2>2. CASE Index
    BY <1>2, <2>1, <2>2 DEF Index
  <2>3. CASE EndRaised
    BY <1>2, <2>1, <2>3 DEF EndRaised
  <2> QED
    BY <2>2, <2>3
<1>6. TypeOK'
  BY <1>1, <1>2, <1>3, <1>4, <1>5 DEF IInv, TypeOK
<1>7. NothingForgotten'
  BY <1>1, <1>2, <1>3 DEF IInv, NothingForgotten, Pending
<1> QED
  BY <1>1, <1>4, <1>6, <1>7 DEF IInv

LEMMA StopIInv ==
  ASSUME IInv, Stop
  PROVE  IInv' /\ rows' = rows
<1>1. /\ UNCHANGED <<issues, rows, failures, indexed, asked, settled, status, tracks>>
      /\ stops < MaxStops /\ stops' = stops + 1 /\ Forget /\ track \in Track
  BY DEF Stop, IInv, TypeOK
<1>2. /\ track' = [track EXCEPT !.at = "idle", !.source = 1, !.found = {},
                                !.results = <<>>, !.batch = {}]
      /\ future' = [t \in Target |-> "none"] /\ flow' = [t \in Target |-> Idle] /\ listed' = {}
  BY <1>1 DEF Forget
<1>3. /\ track' \in Track /\ track'.at = "idle" /\ track'.batch = {}
      /\ track'.results = <<>> /\ track'.version = track.version
      /\ track'.made = track.made
  <2> DEFINE first == 1
             none == <<>>
  <2>1. first \in Nat \ {0} /\ none \in Seq(Result)
        /\ track' = [track EXCEPT !.at = "idle", !.source = first, !.found = {},
                                  !.results = none, !.batch = {}]
    BY <1>2
  <2> HIDE DEF first, none
  <2>2. /\ track' \in Track /\ track'.at = "idle" /\ track'.batch = {}
        /\ track'.results = none /\ track'.version = track.version
        /\ track'.made = track.made
    BY <1>1, <2>1 DEF Track
  <2> QED
    BY <2>2 DEF none
<1>4. /\ FlowTypeOK' /\ Flows' /\ Owned' /\ Batches' /\ Futures' /\ Versions'
      /\ future' \in [Target -> Future]
  BY <1>1, <1>2, <1>3, ResetFacts
<1>5. stops' \in 0 .. MaxStops /\ stops' # 0
  BY <1>1, DeliveryAssumption DEF IInv, TypeOK
<1>6. TypeOK'
  BY <1>1, <1>2, <1>3, <1>4, <1>5 DEF IInv, TypeOK
<1>7. NothingForgotten'
  BY <1>5 DEF NothingForgotten
<1> QED
  BY <1>1, <1>4, <1>6, <1>7 DEF IInv

-----------------------------------------------------------------------------
(* The invariant and the theorems *)

LEMMA InitIInv == Init => IInv
<1> SUFFICES ASSUME Init PROVE IInv
  OBVIOUS
<1>1. FlowOK(Idle) /\ ~Idle.card /\ Idle \in State
  BY IdleOK DEF FlowOK
<1>2. FlowTypeOK
  BY <1>1, FlowAssumption DEF Init, FlowInit, FlowTypeOK, RowId
<1>3. TypeOK
  <2>1. track \in Track
    <3> DEFINE none == <<>>
    <3>1. none \in Seq(Result)
          /\ track = [at |-> "idle", source |-> 1, found |-> {}, results |-> none,
                      made |-> 0, batch |-> {}, version |-> 0]
      BY DEF Init
    <3> HIDE DEF none
    <3> QED
      BY <3>1 DEF Track
  <2> QED
    BY <1>2, <2>1, DeliveryAssumption DEF Init, TypeOK, Future
<1>4. Flows
  BY <1>1 DEF Init, FlowInit, Flows, Tried
<1>5. track.at = "idle" /\ track.results = <<>> /\ track.made = 0 /\ track.version = 0
      /\ track.batch = {} /\ listed = {}
  BY DEF Init
<1>6. \A r \in RowId : rows[r].version = 0 /\ rows[r].by = NoTarget
  BY DEF Init, FlowInit
<1>7. Versions /\ Batches
  BY <1>5, <1>6 DEF Versions, Batches
<1>8. Futures
  BY <1>5 DEF Init, Futures
<1>9. Owned
  BY <1>6, FlowAssumption DEF Owned, RowId
<1>10. NothingForgotten
  BY DEF Init, NothingForgotten
<1> QED
  BY <1>3, <1>4, <1>7, <1>8, <1>9, <1>10 DEF IInv

\* A step keeps the invariant and makes no row older.
LEMMA StepIInv ==
  ASSUME IInv, Next
  PROVE  IInv' /\ (rows' = rows \/ \A r \in RowId : rows'[r].version >= rows[r].version)
<1>1. CASE StartTrack \/ Crawl \/ AllCrawled \/ EndTrack
  BY <1>1, CrawlIInv
<1>2. CASE Preprocess \/ Classify
  BY <1>2, PreprocessIInv, ClassifyIInv
<1>3. CASE Submit \/ AllTaken
  BY <1>3, SubmitIInv, AllTakenIInv
<1>4. CASE EndRaised \/ Index \/ Stop
  BY <1>4, SettleIInv, StopIInv
<1>5. ASSUME NEW t \in Target, CardStep(t)
      PROVE  IInv' /\ (rows' = rows \/ \A r \in RowId : rows'[r].version >= rows[r].version)
  BY <1>5, StartIInv, AnalyseIInv, FinishIInv, CollectIInv DEF CardStep
<1> QED
  BY <1>1, <1>2, <1>3, <1>4, <1>5 DEF Next, TrackStep

LEMMA NextIInv == IInv /\ [Next]_vars => IInv'
<1> SUFFICES ASSUME IInv, [Next]_vars PROVE IInv'
  OBVIOUS
<1>1. CASE Next
  BY <1>1, StepIInv
<1>2. CASE UNCHANGED vars
  <2>1. UNCHANGED <<flow, issues, rows, failures, status, track, stops, tracks,
                    future, listed, indexed, asked, settled>>
    BY <1>2 DEF vars, flowVars, trackVars, poolVars
  <2>2. TypeOK' /\ Flows' /\ Versions'
    BY <2>1 DEF IInv, TypeOK, FlowTypeOK, Flows, Versions
  <2>3. Batches' /\ Futures' /\ Owned' /\ NothingForgotten'
    BY <2>1 DEF IInv, Batches, Futures, Written, Owned, NothingForgotten, Pending
  <2> QED
    BY <2>2, <2>3 DEF IInv
<1> QED
  BY <1>1, <1>2

LEMMA Invariance == Spec => []IInv
  BY InitIInv, NextIInv, PTL DEF Spec

\* Every variable stays in its type: also the lengths of the error lists, which
\* grow with every node, and the results, which only preprocessing appends.
THEOREM TypeCorrect == Spec => []TypeOK
<1>1. IInv => TypeOK
  BY DEF IInv
<1> QED
  BY <1>1, Invariance, PTL

\* _hard_validate passes only what both model nodes have answered validly,
\* although _logged_step lets the graph run on after any of them raised.
THEOREM PassSafe == Spec => []PassIsEarned
<1>1. IInv => PassIsEarned
  <2> SUFFICES ASSUME IInv, NEW t \in Target, flow[t].report = "pass"
      PROVE /\ flow[t].issue = "valid" /\ flow[t].insight = "valid"
            /\ flow[t].failed \cap {"issue_integrate", "strategic_insight", "validate"} = {}
    BY DEF PassIsEarned
  <2> QED
    BY DEF IInv, Flows, FlowOK
<1> QED
  BY <1>1, Invariance, PTL

\* The error list of the graph state tells the nodes that raised, whatever
\* operator.add makes of the list each node returns.
THEOREM ErrorsSafe == Spec => []ErrorsTellFailures
<1>1. IInv => ErrorsTellFailures
  BY DEF IInv, Flows, FlowOK, ErrorsTellFailures
<1> QED
  BY <1>1, Invariance, PTL

\* The rows of card_news: each target writes its own row or the one of the
\* empty issues, and the company itself writes none.
THEOREM RowsSafe == Spec => []RowsOwned
<1>1. IInv => RowsOwned
  BY DEF IInv, Flows, FlowOK, Owned, RowsOwned
<1> QED
  BY <1>1, Invariance, PTL

\* What preprocessing has marked PROCESSED is delivered or still in memory as
\* long as no track raised or died.
THEOREM ForgottenSafe == Spec => []NothingForgotten
<1>1. IInv => NothingForgotten
  BY DEF IInv
<1> QED
  BY <1>1, Invariance, PTL

\* A card that _generate_cards lists is in card_news unless it failed twice.
THEOREM ListedSafe == Spec => []ListedStored
<1>1. IInv => ListedStored
  BY DEF IInv, Futures, Safe, ListedStored
<1> QED
  BY <1>1, Invariance, PTL

\* What a delivery stored in rows of their own it also lists, however its
\* threads interleave.
THEOREM StoredSafe == Spec => []StoredListed
<1>1. IInv => StoredListed
  <2> SUFFICES ASSUME IInv, track.at = "index", NEW t \in track.batch,
                      rows[t].version = track.version
      PROVE t \in listed
    BY DEF StoredListed
  <2>1. future[t] = "taken"
    BY DEF IInv, Batches
  <2> QED
    BY <2>1 DEF IInv, Futures, Written
<1> QED
  BY <1>1, Invariance, PTL

\* No card is replaced by one of an earlier delivery.
THEOREM RowsAdvance == Spec => RowsNeverOlder
<1>1. IInv /\ [Next]_vars => [\A r \in RowId : rows'[r].version >= rows[r].version]_rows
  <2> SUFFICES ASSUME IInv, Next
      PROVE rows' = rows \/ \A r \in RowId : rows'[r].version >= rows[r].version
    BY DEF vars, flowVars
  <2> QED
    BY StepIInv
<1> QED
  BY <1>1, Invariance, PTL DEF Spec, RowsNeverOlder

-----------------------------------------------------------------------------
(* A track that runs goes on, and comes to its end *)

\* The guards of TrackStep.
CanTrack ==
  \/ track.at = "crawl"
  \/ track.at = "preprocess" /\ Loads(track.found \cap Raw) # {}
  \/ track.at \in {"classify", "deliver", "index"}
  \/ track.at = "collect" /\ \A t \in track.batch : future[t] = "taken"
  \/ track.at = "drain" /\ Drained

\* The guards of CardStep(t).
CanCard(t) ==
  \/ future[t] = "queued" /\ Cardinality(Running) < MaxWorkers
  \/ future[t] = "running" /\ flow[t].at \in Node
  \/ future[t] = "running" /\ flow[t].at = "end" /\ (SavesAgain(t) => Saved(t) # {})
  \/ future[t] \in {"empty", "card", "raised"} /\ track.at = "collect"

\* A track that has begun can go on, by itself or in one of its threads: a
\* delivery does not wait for a future that nobody works on.
NeverStuck == track.at = "idle" \/ CanTrack \/ \E t \in Target : CanCard(t)

Crawling == track.at \in {"crawl", "preprocess", "classify"}

\* What is left of a track: sources, results that wait, the stage it is in.
SourcesLeft == IF Crawling THEN Len(Feed) + 2 - track.source ELSE 0

ResultsLeft == IF Crawling THEN 0 ELSE Len(track.results)

Stage ==
  CASE track.at = "collect"                 -> 4
    [] track.at \in {"crawl", "drain", "index"} -> 3
    [] track.at \in {"preprocess", "deliver"} -> 2
    [] track.at = "classify"                -> 1
    [] track.at = "idle"                    -> 0

TrackCloser ==
  \/ SourcesLeft' < SourcesLeft
  \/ SourcesLeft' = SourcesLeft /\ ResultsLeft' < ResultsLeft
  \/ SourcesLeft' = SourcesLeft /\ ResultsLeft' = ResultsLeft /\ Stage' < Stage

NodesLeft == [n \in Node \cup {"idle", "end"} |->
  CASE n = "issue_integrate" -> 7
    [] n = "profile_context" -> 6
    [] n = "build_analysis_context" -> 5
    [] n = "strategic_insight" -> 4
    [] n = "validate" -> 3
    [] n = "assemble" -> 2
    [] n = "card_writer" -> 1
    [] OTHER -> 0]

\* What is left of the card of t.
CardLeft(t) ==
  CASE future[t] = "queued"                     -> 10
    [] future[t] = "running"                    -> 2 + NodesLeft[flow[t].at]
    [] future[t] \in {"empty", "card", "raised"} -> 1
    [] future[t] \in {"none", "taken"}          -> 0

WorkCounted ==
  /\ SourcesLeft \in Nat /\ ResultsLeft \in Nat /\ Stage \in Nat
  /\ \A t \in Target : CardLeft(t) \in Nat

\* Every step of a track that does not start one leaves it less to do, or
\* leaves one card less to do and the rest as it is.
WorkShrinks ==
  [][\/ StartTrack
     \/ TrackCloser
     \/ /\ track' = track
        /\ \E t \in Target :
             /\ CardLeft(t)' < CardLeft(t)
             /\ \A u \in Target : u # t => CardLeft(u)' = CardLeft(u)]_vars

\* Who has a future is in the batch, and the batch has futures; a thread that
\* runs is in the graph; the source is one of the track or just behind them.
Underway ==
  /\ track.source <= Len(Feed) + 1
  /\ track.at \in {"preprocess", "classify"} => track.source <= Len(Feed)
  /\ \A t \in Target : future[t] # "none" =>
       t \in track.batch /\ track.at \in {"collect", "drain", "index"}
  /\ track.at \in {"collect", "drain"} => \A t \in track.batch : future[t] # "none"
  /\ \A t \in Target : future[t] = "running" => flow[t].at # "idle"

WorkInv == IInv /\ Underway

LEMMA InitUnderway == Init => Underway
<1> SUFFICES ASSUME Init
    PROVE Underway
  OBVIOUS
<1>1. /\ track.at = "idle" /\ track.source = 1 /\ track.batch = {}
      /\ \A t \in Target : future[t] = "none"
  BY DEF Init
<1>2. PICK n \in Nat : n = Len(Feed)
  BY DeliveryAssumption
<1>3. 1 <= n + 1
  BY <1>2
<1> QED
  BY <1>1, <1>2, <1>3 DEF Underway

\* The track itself: which fields the steps of the loop over the sources set.
LEMMA CrawlUnderway ==
  ASSUME IInv, Underway, StartTrack \/ Crawl \/ Preprocess \/ Classify \/ AllCrawled
  PROVE  Underway'
<1>1. track \in Track /\ UNCHANGED <<future, flow>>
  BY DEF IInv, TypeOK, StartTrack, Crawl, Preprocess, Classify, AllCrawled, poolVars, flowVars
<1>2. PICK n \in Nat : n = Len(Feed)
  BY DeliveryAssumption
<1>3. PICK s \in Nat \ {0} : s = track.source
  BY <1>1 DEF Track
<1>4. s <= n + 1 /\ (track.at \in {"preprocess", "classify"} => s <= n)
  BY <1>2, <1>3 DEF Underway
<1>5. \A t \in Target : future'[t] = "none"
  BY <1>1 DEF Underway, StartTrack, Crawl, Preprocess, Classify, AllCrawled
<1> QED
  <2>1. CASE StartTrack
    <3>1. track'.at = "crawl" /\ track'.source = s /\ track'.batch = track.batch
      BY <1>1, <1>3, <2>1 DEF StartTrack, Track
    <3> QED
      BY <1>2, <1>4, <1>5, <3>1 DEF Underway
  <2>2. CASE Crawl
    <3>1. track'.at = "preprocess" /\ track'.source = s /\ track'.batch = track.batch /\ s <= n
      BY <1>1, <1>2, <1>3, <2>2 DEF Crawl, Track
    <3> QED
      BY <1>2, <1>4, <1>5, <3>1 DEF Underway
  <2>3. CASE Preprocess
    <3>1. track.at = "preprocess" /\ track'.at = "classify" /\ track'.source = s
      BY <1>1, <1>3, <2>3 DEF Preprocess, Track
    <3> QED
      BY <1>2, <1>4, <1>5, <3>1 DEF Underway
  <2>4. CASE Classify
    <3>1. track.at = "classify" /\ track'.at = "crawl" /\ track'.source = s + 1
      BY <1>1, <1>3, <2>4 DEF Classify, Track
    <3>2. s + 1 <= n + 1
      BY <1>4, <3>1
    <3> QED
      BY <1>2, <1>5, <3>1, <3>2 DEF Underway
  <2>5. CASE AllCrawled
    <3>1. track'.at = "deliver" /\ track'.source = s /\ track'.batch = track.batch
      BY <1>1, <1>3, <2>5 DEF AllCrawled, Track
    <3> QED
      BY <1>2, <1>4, <1>5, <3>1 DEF Underway
  <2> QED
    BY <2>1, <2>2, <2>3, <2>4, <2>5

\* Every step of a graph goes to the next node.
LEMMA StepAdvances ==
  ASSUME NEW t \in Target, NEW v, flow \in [Target -> State], FlowStep(t, v)
  PROVE  flow'[t].at = After[flow[t].at]
<1>1. flow[t] \in State
  OBVIOUS
<1>2. PICK f \in State : f = flow[t]
  BY <1>1
<1>3. f.at \in Node
  BY <1>2 DEF FlowStep, IssueIntegrate, LoadProfile, BuildContext, StrategicInsight, Validate,
         Assemble, WriteCard, Node
<1>4. ASSUME Raise(t)
      PROVE  flow'[t].at = After[f.at]
  BY <1>2, <1>3, <1>4, RaiseFacts
<1>5. ASSUME NEW h, h \in State, h.at = f.at, Succeed(t, h)
      PROVE  flow'[t].at = After[f.at]
  BY <1>3, <1>5, SucceedFacts
<1>6. CASE IssueIntegrate(t)
  <2>1. ASSUME NEW g \in Grade, Succeed(t, [f EXCEPT !.issue = g])
        PROVE  flow'[t].at = After[f.at]
    <3>1. [f EXCEPT !.issue = g] \in State /\ [f EXCEPT !.issue = g].at = f.at
      BY DEF State
    <3> QED
      BY <1>5, <2>1, <3>1
  <2> QED
    BY <1>2, <1>4, <1>6, <2>1 DEF IssueIntegrate
<1>7. CASE LoadProfile(t) \/ BuildContext(t)
  BY <1>2, <1>4, <1>5, <1>7 DEF LoadProfile, BuildContext
<1>8. CASE StrategicInsight(t)
  <2>1. ASSUME NEW g \in {"invalid", "valid"}, Succeed(t, [f EXCEPT !.insight = g])
        PROVE  flow'[t].at = After[f.at]
    <3>1. [f EXCEPT !.insight = g] \in State /\ [f EXCEPT !.insight = g].at = f.at
      BY DEF State
    <3> QED
      BY <1>5, <2>1, <3>1
  <2> QED
    BY <1>2, <1>4, <1>8, <2>1 DEF StrategicInsight, Insight
<1>9. CASE Validate(t)
  <2>1. ASSUME NEW r \in {"fail", "pass"}, Succeed(t, [f EXCEPT !.report = r])
        PROVE  flow'[t].at = After[f.at]
    <3>1. [f EXCEPT !.report = r] \in State /\ [f EXCEPT !.report = r].at = f.at
      BY DEF State
    <3> QED
      BY <1>5, <2>1, <3>1
  <2> QED
    BY <1>2, <1>4, <1>9, <2>1 DEF Validate
<1>10. CASE Assemble(t)
  <2>1. ASSUME NEW b \in BOOLEAN, Succeed(t, [f EXCEPT !.package = TRUE, !.issueId = b])
        PROVE  flow'[t].at = After[f.at]
    <3>1. [f EXCEPT !.package = TRUE, !.issueId = b] \in State
          /\ [f EXCEPT !.package = TRUE, !.issueId = b].at = f.at
      BY DEF State
    <3> QED
      BY <1>5, <2>1, <3>1
  <2> QED
    BY <1>2, <1>4, <1>10, <2>1 DEF Assemble
<1>11. CASE WriteCard(t, v)
  <2>1. ASSUME NEW b \in BOOLEAN,
               Succeed(t, [f EXCEPT !.card = TRUE, !.rowId = b,
                                    !.misses = IF b THEN @ ELSE @ + 1])
        PROVE  flow'[t].at = After[f.at]
    <3> DEFINE m == IF b THEN f.misses ELSE f.misses + 1
               h == [f EXCEPT !.card = TRUE, !.rowId = b, !.misses = m]
    <3>1. Succeed(t, h)
      BY <2>1
    <3>2. m \in Nat
      BY DEF State
    <3> HIDE DEF m
    <3>3. h \in State /\ h.at = f.at
      BY <3>2 DEF State
    <3> HIDE DEF h
    <3> QED
      BY <1>5, <3>1, <3>3
  <2> QED
    BY <1>2, <1>4, <1>5, <1>11, <2>1 DEF WriteCard, Saved
<1> QED
  BY <1>2, <1>6, <1>7, <1>8, <1>9, <1>10, <1>11 DEF FlowStep

\* The steps that leave no future behind.
LEMMA ResetUnderway ==
  ASSUME IInv, Underway, Stop \/ EndTrack \/ EndRaised \/ Index
  PROVE  Underway'
<1>1. track \in Track
  BY DEF IInv, TypeOK
<1>2. PICK n \in Nat : n = Len(Feed)
  BY DeliveryAssumption
<1>3. PICK s \in Nat \ {0} : s = track.source
  BY <1>1 DEF Track
<1>4. s <= n + 1 /\ 1 <= n + 1
  BY <1>2, <1>3 DEF Underway
<1>5. \A t \in Target : future'[t] = "none"
  BY DEF Underway, Stop, EndTrack, EndRaised, Index, Forget, Settle, poolVars
<1>6. track'.at \in {"idle", "deliver"} /\ track'.source \in {1, s}
  BY <1>1, <1>3 DEF Stop, EndTrack, EndRaised, Index, Forget, Settle, Track
<1> QED
  BY <1>2, <1>4, <1>5, <1>6 DEF Underway

LEMMA SubmitUnderway ==
  ASSUME IInv, Underway, Submit \/ AllTaken
  PROVE  Underway'
<1>1. track \in Track /\ future \in [Target -> Future] /\ UNCHANGED flow
  BY DEF IInv, TypeOK, Submit, AllTaken, flowVars
<1>2. PICK n \in Nat : n = Len(Feed)
  BY DeliveryAssumption
<1>3. PICK s \in Nat \ {0} : s = track.source
  BY <1>1 DEF Track
<1>4. s <= n + 1
  BY <1>2, <1>3 DEF Underway
<1>5. CASE Submit
  <2> DEFINE of == NextResult(track.results).first.of
  <2>1. track'.at = "collect" /\ track'.source = s /\ track'.batch = of
    BY <1>1, <1>3, <1>5 DEF Submit, Track
  <2>2. future' = [t \in Target |-> IF t \in of THEN "queued" ELSE "none"]
    BY <1>5 DEF Submit
  <2>3. track'.batch \subseteq Target
    BY <1>5, SubmitIInv DEF IInv, TypeOK, Track
  <2> HIDE DEF of
  <2>4. \A t \in Target : future'[t] # "none" => t \in track'.batch
    BY <2>1, <2>2
  <2>5. \A t \in track'.batch : future'[t] # "none"
    BY <2>1, <2>2, <2>3
  <2>6. \A t \in Target : future'[t] # "running"
    BY <2>2
  <2> QED
    BY <1>2, <1>4, <2>1, <2>4, <2>5, <2>6 DEF Underway
<1>6. CASE AllTaken
  <2>1. track.at = "collect" /\ track'.at = "index" /\ track'.source = s
        /\ track'.batch = track.batch /\ UNCHANGED future
    BY <1>1, <1>3, <1>6 DEF AllTaken, Track, poolVars
  <2> QED
    BY <1>1, <1>2, <1>4, <2>1 DEF Underway
<1> QED
  BY <1>5, <1>6

\* A step of the card of t: it has a future before and after.
LEMMA CardUnderway ==
  ASSUME IInv, Underway, NEW t \in Target, CardStep(t)
  PROVE  Underway'
<1>1. track \in Track /\ future \in [Target -> Future] /\ flow \in [Target -> State]
  BY DEF IInv, TypeOK, FlowTypeOK
<1>2. PICK n \in Nat : n = Len(Feed)
  BY DeliveryAssumption
<1>3. PICK s \in Nat \ {0} : s = track.source
  BY <1>1 DEF Track
<1>4. s <= n + 1
  BY <1>2, <1>3 DEF Underway
<1>5. /\ track'.source = s /\ track'.batch = track.batch
      /\ track'.at = track.at \/ (track.at = "collect" /\ track'.at = "drain")
  <2>1. CASE CollectRaised(t)
    BY <1>1, <1>3, <2>1 DEF CollectRaised, Track
  <2>2. CASE ~CollectRaised(t)
    <3>1. track' = track
      BY <2>2 DEF CardStep, StartCard, Analyse, FinishCard, Collect, trackVars
    <3> QED
      BY <1>3, <3>1
  <2> QED
    BY <2>1, <2>2
<1>6. future[t] # "none"
  BY DEF CardStep, StartCard, Analyse, FinishCard, Collect, CollectRaised
<1>7. /\ future' \in [Target -> Future] /\ future'[t] # "none"
      /\ \A u \in Target \ {t} : future'[u] = future[u]
  BY <1>1, <1>6 DEF CardStep, StartCard, Analyse, FinishCard, Collect, CollectRaised, poolVars, Future
<1>8. /\ \A u \in Target \ {t} : flow'[u] = flow[u]
      /\ future'[t] = "running" => flow'[t].at # "idle"
  <2>1. CASE StartCard(t)
    <3>1. Entered.at = "issue_integrate"
      BY DEF Entered, Idle
    <3> QED
      BY <1>1, <2>1, <3>1 DEF StartCard, Future
  <2>2. CASE Analyse(t)
    <3>1. FlowStep(t, track.version) /\ FlowOK(flow[t])
      BY <2>2 DEF Analyse, IInv, Flows
    <3>2. flow[t].at \in Node /\ (Moves(t) \/ WritesRow(t, track.version))
      BY <1>1, <3>1, FlowStepMoves
    <3>3. flow'[t].at = After[flow[t].at]
      BY <1>1, <3>1, StepAdvances
    <3> QED
      BY <3>2, <3>3, AfterValues DEF Moves, WritesRow, Node
  <2>3. CASE FinishCard(t)
    BY <1>1, <2>3 DEF FinishCard
  <2>4. CASE Collect(t)
    BY <1>1, <2>4 DEF Collect, flowVars
  <2>5. CASE CollectRaised(t)
    BY <1>1, <2>5 DEF CollectRaised, flowVars
  <2> QED
    BY <2>1, <2>2, <2>3, <2>4, <2>5 DEF CardStep
<1> QED
  <2>1. \A u \in Target : future'[u] # "none" => future[u] # "none"
    BY <1>6, <1>7
  <2>2. \A u \in Target : future'[u] # "none" => u \in track'.batch /\ track'.at \in {"collect", "drain", "index"}
    BY <1>5, <2>1 DEF Underway
  <2>3. track'.at \in {"collect", "drain"} => \A u \in track'.batch : future'[u] # "none"
    <3>1. track.batch \subseteq Target
      BY <1>1 DEF Track
    <3> QED
      BY <1>5, <1>7, <3>1 DEF Underway
  <2>4. \A u \in Target : future'[u] = "running" => flow'[u].at # "idle"
    BY <1>7, <1>8 DEF Underway
  <2>5. track'.source <= Len(Feed) + 1
    BY <1>2, <1>4, <1>5
  <2>6. track'.at \in {"preprocess", "classify"} => track'.source <= Len(Feed)
    BY <1>3, <1>5 DEF Underway
  <2> QED
    BY <2>2, <2>3, <2>4, <2>5, <2>6 DEF Underway

LEMMA NextUnderway == IInv /\ Underway /\ [Next]_vars => Underway'
<1>1. ASSUME IInv, Underway, Next
      PROVE  Underway'
  BY <1>1, CrawlUnderway, ResetUnderway, SubmitUnderway, CardUnderway DEF Next, TrackStep
<1>2. ASSUME Underway, UNCHANGED vars
      PROVE  Underway'
  BY <1>2 DEF vars, flowVars, trackVars, poolVars, Underway
<1> QED
  BY <1>1, <1>2

LEMMA WorkInvariance == Spec => []WorkInv
<1>1. Init => WorkInv
  BY InitIInv, InitUnderway DEF WorkInv
<1>2. WorkInv /\ [Next]_vars => WorkInv'
  BY NextIInv, NextUnderway DEF WorkInv
<1> QED
  BY <1>1, <1>2, PTL DEF Spec

LEMMA NodesLeftValues ==
  /\ NodesLeft \in [Node \cup {"idle", "end"} -> 0 .. 7]
  /\ NodesLeft["end"] = 0
  /\ NodesLeft["issue_integrate"] = 7
  /\ \A n \in Node : NodesLeft[After[n]] < NodesLeft[n]
<1>1. NodesLeft \in [Node \cup {"idle", "end"} -> 0 .. 7]
  BY DEF NodesLeft, Node
<1>2. /\ NodesLeft["issue_integrate"] = 7 /\ NodesLeft["profile_context"] = 6
      /\ NodesLeft["build_analysis_context"] = 5 /\ NodesLeft["strategic_insight"] = 4
      /\ NodesLeft["validate"] = 3 /\ NodesLeft["assemble"] = 2
      /\ NodesLeft["card_writer"] = 1 /\ NodesLeft["end"] = 0
  BY DEF NodesLeft, Node
<1>3. \A n \in Node : NodesLeft[After[n]] < NodesLeft[n]
  BY <1>2, AfterValues DEF Node
<1> QED
  BY <1>1, <1>2, <1>3

LEMMA CountedInv == WorkInv => WorkCounted
<1> SUFFICES ASSUME WorkInv
    PROVE WorkCounted
  OBVIOUS
<1>1. track \in Track /\ future \in [Target -> Future] /\ flow \in [Target -> State]
  BY DEF WorkInv, IInv, TypeOK, FlowTypeOK
<1>2. PICK n \in Nat : n = Len(Feed)
  BY DeliveryAssumption
<1>3. PICK s \in Nat \ {0} : s = track.source
  BY <1>1 DEF Track
<1>4. s <= n + 1
  BY <1>2, <1>3 DEF WorkInv, Underway
<1>5. PICK k \in Nat : k = Len(track.results)
  BY <1>1 DEF Track
<1>6. SourcesLeft \in Nat
  BY <1>2, <1>3, <1>4 DEF SourcesLeft
<1>7. ResultsLeft \in Nat
  BY <1>5 DEF ResultsLeft
<1>8. Stage \in Nat
  BY <1>1 DEF Stage, Track
<1>9. ASSUME NEW t \in Target
      PROVE  CardLeft(t) \in Nat
  <2>1. NodesLeft[flow[t].at] \in 0 .. 7
    BY <1>1, NodesLeftValues DEF State
  <2> HIDE DEF NodesLeft
  <2>2. PICK k2 \in 0 .. 7 : k2 = NodesLeft[flow[t].at]
    BY <2>1
  <2> QED
    BY <1>1, <2>2 DEF CardLeft, Future
<1> QED
  BY <1>6, <1>7, <1>8, <1>9 DEF WorkCounted

\* A step of the card of t that leaves the track alone leaves t less to do.
LEMMA CardCloser ==
  ASSUME WorkInv, NEW t \in Target, CardStep(t), track' = track
  PROVE  /\ CardLeft(t)' < CardLeft(t)
         /\ \A u \in Target : u # t => CardLeft(u)' = CardLeft(u)
<1>1. track \in Track /\ future \in [Target -> Future] /\ flow \in [Target -> State]
  BY DEF WorkInv, IInv, TypeOK, FlowTypeOK
<1>2. /\ future'[t] # future[t] \/ Analyse(t)
      /\ \A u \in Target \ {t} : future'[u] = future[u]
  BY <1>1 DEF CardStep, StartCard, Analyse, FinishCard, Collect, CollectRaised, poolVars, Future
<1>3. CASE StartCard(t)
  <2>1. Entered.at = "issue_integrate"
    BY DEF Entered, Idle
  <2>2. future[t] = "queued"
    BY <1>3 DEF StartCard
  <2>3. \/ future'[t] \in {"empty", "raised"} /\ flow' = flow
        \/ future'[t] = "running" /\ flow' = [flow EXCEPT ![t] = Entered]
    BY <1>1, <1>3 DEF StartCard
  <2>4. \A u \in Target \ {t} : flow'[u] = flow[u]
    BY <1>1, <2>3
  <2>5. CardLeft(t) = 10
    BY <2>2 DEF CardLeft
  <2>6. CardLeft(t)' < CardLeft(t)
    <3>1. CASE future'[t] \in {"empty", "raised"}
      <4>1. CardLeft(t)' = 1
        BY <3>1 DEF CardLeft
      <4> QED
        BY <2>5, <4>1
    <3>2. CASE future'[t] = "running" /\ flow' = [flow EXCEPT ![t] = Entered]
      <4>1. flow'[t].at = "issue_integrate"
        BY <1>1, <2>1, <3>2
      <4>2. CardLeft(t)' = 2 + NodesLeft[flow'[t].at]
        BY <3>2 DEF CardLeft
      <4>3. CardLeft(t)' = 9
        BY <4>1, <4>2, NodesLeftValues
      <4> QED
        BY <2>5, <4>3
    <3> QED
      BY <2>3, <3>1, <3>2
  <2> QED
    BY <1>2, <2>4, <2>6 DEF CardLeft
<1>4. CASE Analyse(t)
  <2>1. future[t] = "running" /\ future' = future /\ FlowStep(t, track.version) /\ FlowOK(flow[t])
    BY <1>4 DEF Analyse, poolVars, WorkInv, IInv, Flows
  <2>2. flow[t].at \in Node /\ (Moves(t) \/ WritesRow(t, track.version))
    BY <1>1, <2>1, FlowStepMoves
  <2>3. flow'[t].at = After[flow[t].at]
    BY <1>1, <2>1, StepAdvances
  <2>4. \A u \in Target \ {t} : flow'[u] = flow[u]
    BY <2>2 DEF Moves, WritesRow
  <2>5. CardLeft(t) = 2 + NodesLeft[flow[t].at] /\ CardLeft(t)' = 2 + NodesLeft[flow'[t].at]
    BY <2>1 DEF CardLeft
  <2>6. PICK m \in 0 .. 7, n \in 0 .. 7 : m = NodesLeft[flow[t].at] /\ n = NodesLeft[flow'[t].at]
    <3>1. flow[t].at \in Node \cup {"idle", "end"} /\ flow'[t].at \in Node \cup {"idle", "end"}
      BY <2>2, <2>3, AfterValues DEF Node
    <3> QED
      BY <3>1, NodesLeftValues
  <2>7. n < m
    BY <2>2, <2>3, <2>6, NodesLeftValues
  <2>8. CardLeft(t)' < CardLeft(t)
    BY <2>5, <2>6, <2>7
  <2> QED
    BY <1>2, <2>4, <2>8 DEF CardLeft
<1>5. CASE FinishCard(t)
  <2>1. /\ future[t] = "running" /\ flow[t].at = "end" /\ future'[t] \in {"card", "empty"}
        /\ \A u \in Target \ {t} : flow'[u] = flow[u]
    BY <1>1, <1>5 DEF FinishCard
  <2>2. CardLeft(t) = 2 /\ CardLeft(t)' = 1
    BY <2>1, NodesLeftValues DEF CardLeft
  <2>3. CardLeft(t)' < CardLeft(t)
    BY <2>2
  <2> QED
    BY <1>2, <2>1, <2>3 DEF CardLeft
<1>6. CASE Collect(t) \/ CollectRaised(t)
  <2>1. future[t] \in {"empty", "card", "raised"} /\ future'[t] = "taken" /\ flow' = flow
    BY <1>1, <1>6 DEF Collect, CollectRaised, flowVars
  <2>2. CardLeft(t) = 1 /\ CardLeft(t)' = 0
    BY <2>1 DEF CardLeft
  <2>3. CardLeft(t)' < CardLeft(t)
    BY <2>2
  <2> QED
    BY <1>2, <2>1, <2>3 DEF CardLeft
<1> QED
  BY <1>3, <1>4, <1>5, <1>6 DEF CardStep

\* The loop over the sources: each step goes on with a source, or to the next.
LEMMA CrawlCloser ==
  ASSUME WorkInv, Crawl \/ Preprocess \/ Classify \/ AllCrawled
  PROVE  TrackCloser
<1>1. track \in Track
  BY DEF WorkInv, IInv, TypeOK
<1>2. PICK n \in Nat : n = Len(Feed)
  BY DeliveryAssumption
<1>3. PICK s \in Nat \ {0} : s = track.source
  BY <1>1 DEF Track
<1>4. s <= n + 1
  BY <1>2, <1>3 DEF WorkInv, Underway
<1>5. CASE Crawl \/ Preprocess
  <2>1. \/ track.at = "crawl" /\ track'.at = "preprocess"
        \/ track.at = "preprocess" /\ track'.at = "classify"
    BY <1>1, <1>5 DEF Crawl, Preprocess, Track
  <2>2. track'.source = track.source
    BY <1>1, <1>5 DEF Crawl, Preprocess, Track
  <2>3. SourcesLeft' = SourcesLeft /\ ResultsLeft' = 0 /\ ResultsLeft = 0
    BY <2>1, <2>2 DEF SourcesLeft, ResultsLeft, Crawling
  <2>4. Stage' < Stage
    BY <2>1 DEF Stage
  <2> QED
    BY <2>3, <2>4 DEF TrackCloser
<1>6. CASE Classify
  <2>1. track.at = "classify" /\ track'.at = "crawl" /\ track'.source = s + 1
    BY <1>1, <1>3, <1>6 DEF Classify, Track
  <2>2. SourcesLeft = n + 2 - s /\ SourcesLeft' = n + 2 - (s + 1)
    BY <1>2, <1>3, <2>1 DEF SourcesLeft, Crawling
  <2> QED
    BY <2>2 DEF TrackCloser
<1>7. CASE AllCrawled
  <2>1. track.at = "crawl" /\ track'.at = "deliver"
    BY <1>1, <1>7 DEF AllCrawled, Track
  <2>2. SourcesLeft = n + 2 - s /\ SourcesLeft' = 0
    BY <1>2, <1>3, <2>1 DEF SourcesLeft, Crawling
  <2> QED
    BY <1>4, <2>2 DEF TrackCloser
<1> QED
  BY <1>5, <1>6, <1>7

\* A delivery: each step goes on with a result, or takes the next, or ends.
LEMMA DeliverCloser ==
  ASSUME WorkInv, NEW t,
         EndTrack \/ Submit \/ EndRaised \/ AllTaken \/ Index \/ CollectRaised(t)
  PROVE  TrackCloser
<1>1. track \in Track
  BY DEF WorkInv, IInv, TypeOK
<1>2. PICK q \in Seq(Result) : q = track.results
  BY <1>1 DEF Track
<1>3. CASE Submit
  <2>1. q # <<>> /\ track.at = "deliver" /\ track'.at = "collect" /\ track'.results = Tail(q)
    BY <1>1, <1>2, <1>3 DEF Submit, NextResult, Track
  <2>2. Len(Tail(q)) < Len(q)
    BY <1>2, <2>1
  <2>3. SourcesLeft' = SourcesLeft /\ ResultsLeft = Len(q) /\ ResultsLeft' = Len(Tail(q))
    BY <1>2, <2>1 DEF SourcesLeft, ResultsLeft, Crawling
  <2> QED
    BY <2>2, <2>3 DEF TrackCloser
<1>4. CASE EndTrack \/ EndRaised \/ AllTaken \/ Index \/ CollectRaised(t)
  <2>1. /\ \/ track.at = "deliver" /\ track'.at = "idle"
           \/ track.at = "drain" /\ track'.at = "deliver"
           \/ track.at = "collect" /\ track'.at \in {"index", "drain"}
           \/ track.at = "index" /\ track'.at = "deliver"
        /\ track'.results = track.results
    BY <1>1, <1>4 DEF EndTrack, EndRaised, AllTaken, Index, CollectRaised, Settle, Track
  <2>2. SourcesLeft' = SourcesLeft /\ ResultsLeft' = ResultsLeft
    BY <2>1 DEF SourcesLeft, ResultsLeft, Crawling
  <2>3. Stage' < Stage
    BY <2>1 DEF Stage
  <2> QED
    BY <2>2, <2>3 DEF TrackCloser
<1> QED
  BY <1>3, <1>4

\* A track that raises or dies has nothing left to do.
LEMMA StopCloser ==
  ASSUME WorkInv, Stop
  PROVE  TrackCloser
<1>1. track \in Track
  BY DEF WorkInv, IInv, TypeOK
<1>2. PICK n \in Nat : n = Len(Feed)
  BY DeliveryAssumption
<1>3. PICK s \in Nat \ {0} : s = track.source
  BY <1>1 DEF Track
<1>4. s <= n + 1
  BY <1>2, <1>3 DEF WorkInv, Underway
<1>5. PICK k \in Nat : k = Len(track.results)
  BY <1>1 DEF Track
<1>6. track.at # "idle" /\ track'.at = "idle" /\ track'.results = <<>>
  BY <1>1 DEF Stop, Forget, Track
<1>7. SourcesLeft' = 0 /\ ResultsLeft' = 0 /\ Stage' = 0
  BY <1>6 DEF SourcesLeft, ResultsLeft, Stage, Crawling
<1>8. CASE Crawling
  <2>1. SourcesLeft = n + 2 - s
    BY <1>2, <1>3, <1>8 DEF SourcesLeft
  <2> QED
    BY <1>4, <1>7, <2>1 DEF TrackCloser
<1>9. CASE ~Crawling
  <2>1. SourcesLeft = 0 /\ ResultsLeft = k
    BY <1>5, <1>9 DEF SourcesLeft, ResultsLeft
  <2>2. Stage > 0
    BY <1>1, <1>6 DEF Stage, Track
  <2> QED
    BY <1>7, <2>1, <2>2 DEF TrackCloser
<1> QED
  BY <1>8, <1>9

\* A track and its delivery come to an end: every step that does not start a
\* track brings the one that runs closer to it, by a source, a result, a stage
\* of either, or a stage of one card.
THEOREM WorkShrinksSafe == Spec => []WorkCounted /\ WorkShrinks
<1>1. ASSUME WorkInv, Next
      PROVE  \/ StartTrack
             \/ TrackCloser
             \/ /\ track' = track
                /\ \E t \in Target :
                     /\ CardLeft(t)' < CardLeft(t)
                     /\ \A u \in Target : u # t => CardLeft(u)' = CardLeft(u)
  <2>1. CASE StartTrack
    BY <2>1
  <2>2. CASE Crawl \/ Preprocess \/ Classify \/ AllCrawled
    BY <1>1, <2>2, CrawlCloser
  <2>3. ASSUME EndTrack \/ Submit \/ EndRaised \/ AllTaken \/ Index
        PROVE  TrackCloser
    BY <1>1, <2>3, DeliverCloser
  <2>4. ASSUME NEW t \in Target, CardStep(t)
        PROVE  TrackCloser \/ (track' = track /\ CardStep(t))
    <3>1. CASE CollectRaised(t)
      BY <1>1, <3>1, DeliverCloser
    <3>2. CASE ~CollectRaised(t)
      BY <2>4, <3>2 DEF CardStep, StartCard, Analyse, FinishCard, Collect, trackVars
    <3> QED
      BY <3>1, <3>2
  <2>5. CASE Stop
    BY <1>1, <2>5, StopCloser
  <2>6. CASE \E t \in Target : CardStep(t)
    <3>1. PICK t \in Target : CardStep(t)
      BY <2>6
    <3> QED
      BY <1>1, <2>4, <3>1, CardCloser
  <2> QED
    BY <1>1, <2>1, <2>2, <2>3, <2>5, <2>6 DEF Next, TrackStep
<1>2. WorkInv /\ [Next]_vars =>
        [\/ StartTrack
         \/ TrackCloser
         \/ /\ track' = track
            /\ \E t \in Target :
                 /\ CardLeft(t)' < CardLeft(t)
                 /\ \A u \in Target : u # t => CardLeft(u)' = CardLeft(u)]_vars
  BY <1>1
<1> QED
  BY <1>2, CountedInv, WorkInvariance, PTL DEF Spec, WorkShrinks

\* load_raw_ids always has an answer: some rows are a choice of at most Limit.
LEMMA LoadsExist ==
  ASSUME NEW S, IsFiniteSet(S)
  PROVE  Loads(S) # {}
<1>1. PICK k \in Nat \ {0} : k = Limit
  BY DeliveryAssumption
<1>2. CASE Cardinality(S) <= Limit
  BY <1>2 DEF Loads
<1>3. CASE ~(Cardinality(S) <= Limit)
  <2> DEFINE T == {L \in FiniteSubsetsOf(S) : Cardinality(L) >= Limit}
  <2>1. \A L \in SUBSET S : IsFiniteSet(L)
    BY FS_Subset
  <2>2. S \in T
    <3>1. Cardinality(S) \in Nat
      BY FS_CardinalityType
    <3>2. Cardinality(S) >= Limit
      BY <1>1, <1>3, <3>1
    <3> QED
      BY <3>2 DEF FiniteSubsetsOf
  <2>3. \E L \in T : \A M \in T : ~(<<M, L>> \in StrictSubsetOrdering(S))
    <3>1. T \subseteq FiniteSubsetsOf(S) /\ T # {}
      BY <2>2
    <3>2. IsWellFoundedOn(StrictSubsetOrdering(S), FiniteSubsetsOf(S))
      BY FS_StrictSubsetOrderingWellFounded
    <3> HIDE DEF T
    <3> QED
      BY <3>1, <3>2, WFMin
  <2>4. PICK L \in T : \A M \in T : ~(<<M, L>> \in StrictSubsetOrdering(S))
    BY <2>3
  <2>5. L \in SUBSET S /\ IsFiniteSet(L) /\ Cardinality(L) \in Nat /\ Cardinality(L) >= k
    BY <1>1, <2>1, <2>4, FS_CardinalityType DEF FiniteSubsetsOf
  <2>6. L # {}
    BY <1>1, <2>5, FS_EmptySet
  <2>7. PICK x \in L : TRUE
    BY <2>6
  <2>8. Cardinality(L \ {x}) = Cardinality(L) - 1
    BY <2>5, FS_RemoveElement
  <2>9. <<L \ {x}, L>> \in StrictSubsetOrdering(S)
    BY <2>5, <2>7 DEF StrictSubsetOrdering
  <2>10. L \ {x} \notin T
    BY <2>4, <2>9
  <2>11. ~(Cardinality(L \ {x}) >= k)
    <3>1. L \ {x} \in FiniteSubsetsOf(S)
      BY <2>1, <2>5 DEF FiniteSubsetsOf
    <3> QED
      BY <1>1, <2>10, <3>1
  <2>12. Cardinality(L) = Limit
    BY <1>1, <2>5, <2>8, <2>11
  <2> QED
    BY <1>3, <2>5, <2>12 DEF Loads
<1> QED
  BY <1>2, <1>3

\* A future that is submitted and not done has someone to go on with it: its
\* own thread, or, when no thread is free, one of those that run.
LEMMA ThreadGoesOn ==
  ASSUME WorkInv, NEW t \in Target, future[t] \in {"queued", "running"}
  PROVE  \E u \in Target : CanCard(u)
<1>1. flow \in [Target -> State] /\ future \in [Target -> Future]
  BY DEF WorkInv, IInv, TypeOK, FlowTypeOK
<1>2. ASSUME NEW u \in Target, future[u] = "running"
      PROVE  CanCard(u)
  <2>1. flow[u].at \in Node \cup {"end"}
    BY <1>1, <1>2 DEF WorkInv, Underway, State
  <2>2. Saved(u) # {}
    <3>1. CASE u \in Self
      <4>1. FALSE \in Saved(u)
        BY <3>1 DEF Saved
      <4> QED
        BY <4>1
    <3>2. CASE u \notin Self
      <4>1. TRUE \in Saved(u)
        BY <3>2 DEF Saved
      <4> QED
        BY <4>1
    <3> QED
      BY <3>1, <3>2
  <2> QED
    BY <1>2, <2>1, <2>2 DEF CanCard
<1>3. CASE Running = {}
  <2>1. Cardinality(Running) = 0
    BY <1>3, FS_EmptySet
  <2>2. Cardinality(Running) < MaxWorkers
    BY <2>1, DeliveryAssumption
  <2> QED
    BY <1>2, <2>2 DEF CanCard
<1>4. CASE Running # {}
  BY <1>2, <1>4 DEF Running
<1> QED
  BY <1>3, <1>4

\* A track never waits in vain: neither the main thread for a future that no
\* thread works on, nor the pool for a thread that cannot go on.
THEOREM NeverStuckSafe == Spec => []NeverStuck
<1>1. WorkInv => NeverStuck
  <2> SUFFICES ASSUME WorkInv
      PROVE NeverStuck
    OBVIOUS
  <2>1. track \in Track /\ future \in [Target -> Future]
    BY DEF WorkInv, IInv, TypeOK
  <2>2. track.batch \subseteq Target
    BY <2>1 DEF Track
  <2>3. CASE track.at \in {"idle", "crawl", "classify", "deliver", "index"}
    BY <2>3 DEF NeverStuck, CanTrack
  <2>4. CASE track.at = "preprocess"
    <3>1. IsFiniteSet(track.found \cap Raw)
      BY DeliveryAssumption, FS_Subset DEF Raw
    <3> QED
      BY <2>4, <3>1, LoadsExist DEF NeverStuck, CanTrack
  <2>5. CASE track.at = "collect"
    <3>1. CASE \A t \in track.batch : future[t] = "taken"
      BY <2>5, <3>1 DEF NeverStuck, CanTrack
    <3>2. ASSUME NEW t \in track.batch, future[t] # "taken"
          PROVE  NeverStuck
      <4>1. t \in Target /\ future[t] \in {"queued", "running", "empty", "card", "raised"}
        BY <2>1, <2>2, <2>5, <3>2 DEF WorkInv, Underway, Future
      <4>2. CASE future[t] \in {"queued", "running"}
        BY <4>1, <4>2, ThreadGoesOn DEF NeverStuck
      <4>3. CASE future[t] \in {"empty", "card", "raised"}
        BY <2>5, <4>1, <4>3 DEF NeverStuck, CanCard
      <4> QED
        BY <4>1, <4>2, <4>3
    <3> QED
      BY <3>1, <3>2
  <2>6. CASE track.at = "drain"
    <3>1. CASE Drained
      BY <2>6, <3>1 DEF NeverStuck, CanTrack
    <3>2. CASE ~Drained
      BY <2>2, <3>2, ThreadGoesOn DEF Drained, NeverStuck
    <3> QED
      BY <3>1, <3>2
  <2> QED
    BY <2>1, <2>3, <2>4, <2>5, <2>6 DEF Track
<1> QED
  BY <1>1, WorkInvariance, PTL

=============================================================================
