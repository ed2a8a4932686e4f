---------------------------- MODULE AnalysisFlow ----------------------------
(***************************************************************************)
(* The analysis flow graph (src/pipeline/analysis_flow_graph.py): one      *)
(* bundle of articles goes through seven nodes and ends as a card.  A node *)
(* that raises does not stop the graph: the decorator _logged_step notes   *)
(* the error and returns the old state, and the next node runs on whatever *)
(* is missing.  Several bundles run in the threads of a delivery and share *)
(* the tables integrated_issues and card_news.                             *)
(*                                                                         *)
(* What the language models and the text rules answer is a choice among    *)
(* the grades the graph tells apart.                                       *)
(***************************************************************************)
EXTENDS Integers, FiniteSets

CONSTANTS
  Target,     \* what is analysed: news clusters and single documents
  Self,       \* targets about the company that runs the system
  SharedRow,  \* card id of the cards whose integrated issue is empty
  NoTarget,   \* a card row that was never written
  MaxFailures \* bound: node errors and failed saves of a behaviour

ASSUME FlowAssumption ==
  /\ Self \subseteq Target
  /\ SharedRow \notin Target
  /\ NoTarget \notin Target
  /\ MaxFailures \in Nat

VARIABLES
  flow,    \* SupervisorState of each target
  issues,  \* integrated_issues: targets that have a row
  rows,    \* card_news: who wrote each row last, and in which delivery
  failures \* node errors and failed saves so far

flowVars == <<flow, issues, rows, failures>>

-----------------------------------------------------------------------------
(* Types and helpers *)

Node == {"issue_integrate", "profile_context", "build_analysis_context",
         "strategic_insight", "validate", "assemble", "card_writer"}

\* Mutant: the validation leads to the node for human review.
AfterReview == [n \in Node |->
  CASE n = "issue_integrate" -> "profile_context"
    [] n = "profile_context" -> "build_analysis_context"
    [] n = "build_analysis_context" -> "strategic_insight"
    [] n = "strategic_insight" -> "validate"
    [] n = "validate" -> "human_review"
    [] n = "assemble" -> "card_writer"
    [] n = "card_writer" -> "end"]

\* The edges of the graph.
After == [n \in Node |->
  CASE n = "issue_integrate" -> "profile_context"
    [] n = "profile_context" -> "build_analysis_context"
    [] n = "build_analysis_context" -> "strategic_insight"
    [] n = "strategic_insight" -> "validate"
    [] n = "validate" -> "assemble"
    [] n = "assemble" -> "card_writer"
    [] n = "card_writer" -> "end"]

\* The integrated issue: missing ({}), unusable, usable although its summary
\* was marked invalid (a candidate signal), or valid.
Grade == {"none", "invalid", "nonfatal", "valid"}

Usable == {"nonfatal", "valid"}

RowId == Target \cup {SharedRow}

\* insight: analysis and implication; issueId, rowId: the stored ids are known;
\* errors: length of the error list; failed, misses: history, the nodes that
\* raised and the failed saves of the card.
State == [at : Node \cup {"idle", "end"}, issue : Grade,
          insight : {"none", "invalid", "valid"}, report : {"none", "fail", "pass"},
          package : BOOLEAN, issueId : BOOLEAN, card : BOOLEAN, rowId : BOOLEAN,
          errors : Nat, failed : SUBSET Node, misses : Nat]

Idle == [at |-> "idle", issue |-> "none", insight |-> "none", report |-> "none",
         package |-> FALSE, issueId |-> FALSE, card |-> FALSE, rowId |-> FALSE,
         errors |-> 0, failed |-> {}, misses |-> 0]

\* run_supervisor starts here.
Entered == [Idle EXCEPT !.at = "issue_integrate"]

\* The reducer of the field errors: operator.add.
Reduced(old, returned) == old + returned

\* A node that returns a state returns the errors it was given, too.
Succeed(t, f) ==
  flow' = [flow EXCEPT ![t] = [f EXCEPT !.at = After[f.at],
                                        !.errors = Reduced(f.errors, f.errors)]]

\* Mutant: the handler returns the state without the new error.
ReturnedUnnoted(n) == n

\* Length of the error list a failing node returns.
Returned(n) == n + 1

\* A node raises: _logged_step returns the old state with one more error.
Raise(t) ==
  LET f == flow[t] IN
  /\ failures < MaxFailures
  /\ failures' = failures + 1
  /\ flow' = [flow EXCEPT ![t] = [f EXCEPT !.at = After[f.at],
                                           !.errors = Reduced(f.errors, Returned(f.errors)),
                                           !.failed = @ \cup {f.at}]]

\* Mutant: an answer without an implication counts as valid.
PassesByDefault(f) == f.issue \in {"none", "valid"} /\ f.insight # "invalid"

\* _hard_validate, but for the numbers in the text: missing flags count as
\* valid, but an implication without a model in its provenance breaks the
\* evidence chain.
Passes(f) ==
  /\ f.issue \in {"none", "valid"}
  /\ f.insight # "invalid"
  /\ f.insight # "none"

\* _card_news_id: date and cluster id, which an empty issue does not have.
\* All targets are of one date.
CardRow(t) == IF flow[t].issue = "none" THEN SharedRow ELSE t

\* save_card_news(card of t), in delivery v: an upsert, or an error that is
\* caught.  A card of the company itself is not saved and gets no id.
Saved(t) == {b \in BOOLEAN : IF b THEN t \notin Self
                             ELSE t \in Self \/ failures < MaxFailures}

SaveCard(t, v, saved) ==
  /\ rows' = IF saved THEN [rows EXCEPT ![CardRow(t)] = [by |-> t, version |-> v]] ELSE rows
  /\ failures' = IF saved \/ t \in Self THEN failures ELSE failures + 1

-----------------------------------------------------------------------------
(* Actions *)

FlowInit ==
  /\ flow = [t \in Target |-> Idle]
  /\ issues = {}
  /\ rows = [r \in RowId |-> [by |-> NoTarget, version |-> 0]]
  /\ failures = 0

\* IntegrationAgent: one issue out of the articles of the bundle.
IssueIntegrate(t) ==
  /\ flow[t].at = "issue_integrate"
  /\ \/ /\ \E g \in Grade \ {"none"} : Succeed(t, [flow[t] EXCEPT !.issue = g])
        /\ UNCHANGED failures
     \/ Raise(t)
  /\ UNCHANGED <<issues, rows>>

\* A failed profile load is replaced by an empty profile.
LoadProfile(t) ==
  /\ flow[t].at = "profile_context"
  /\ Succeed(t, flow[t])
  /\ UNCHANGED <<issues, rows, failures>>

BuildContext(t) ==
  /\ flow[t].at = "build_analysis_context"
  /\ \/ Succeed(t, flow[t]) /\ UNCHANGED failures
     \/ Raise(t)
  /\ UNCHANGED <<issues, rows>>

\* The agent answers an unusable issue with an empty insight, marked invalid.
Insight(f) == IF f.issue \in Usable THEN {"invalid", "valid"} ELSE {"invalid"}

StrategicInsight(t) ==
  /\ flow[t].at = "strategic_insight"
  /\ \/ /\ \E g \in Insight(flow[t]) : Succeed(t, [flow[t] EXCEPT !.insight = g])
        /\ UNCHANGED failures
     \/ Raise(t)
  /\ UNCHANGED <<issues, rows>>

\* A report; numbers without a source fail it, too.
Validate(t) ==
  /\ flow[t].at = "validate"
  /\ \/ /\ \E r \in {"fail", "pass"} :
             /\ r = "pass" => Passes(flow[t])
             /\ Succeed(t, [flow[t] EXCEPT !.report = r])
        /\ UNCHANGED failures
     \/ Raise(t)
  /\ UNCHANGED <<issues, rows>>

\* save_integrated_issue stores the issue and its parts in one transaction, or
\* returns no id; the node may still raise after that.
Assemble(t) ==
  /\ flow[t].at = "assemble"
  /\ \E stored \in BOOLEAN :
       /\ stored => flow[t].issue # "none"
       /\ issues' = IF stored THEN issues \cup {t} ELSE issues
       /\ \/ /\ Succeed(t, [flow[t] EXCEPT !.package = TRUE, !.issueId = stored])
             /\ UNCHANGED failures
          \/ Raise(t)
  /\ UNCHANGED rows

\* Mutant: any package becomes a card.
WritesAny(f) == f.package

\* card_writer makes a card unless there is no package or the issue is unusable.
Writes(f) == f.package /\ f.issue # "invalid"

WriteCard(t, v) ==
  /\ flow[t].at = "card_writer"
  /\ \/ /\ ~Writes(flow[t])
        /\ Succeed(t, flow[t])
        /\ UNCHANGED <<rows, failures>>
     \/ /\ Writes(flow[t])
        /\ \E saved \in Saved(t) :
             /\ SaveCard(t, v, saved)
             /\ Succeed(t, [flow[t] EXCEPT !.card = TRUE, !.rowId = saved,
                                           !.misses = IF saved THEN @ ELSE @ + 1])
     \/ /\ Writes(flow[t])
        /\ Raise(t)
        /\ UNCHANGED rows
  /\ UNCHANGED issues

FlowStep(t, v) ==
  \/ IssueIntegrate(t)
  \/ LoadProfile(t)
  \/ BuildContext(t)
  \/ StrategicInsight(t)
  \/ Validate(t)
  \/ Assemble(t)
  \/ WriteCard(t, v)

-----------------------------------------------------------------------------
(* Properties *)

FlowTypeOK ==
  /\ flow \in [Target -> State]
  /\ issues \subseteq Target
  /\ rows \in [RowId -> [by : Target \cup {NoTarget}, version : Nat]]
  /\ failures \in 0 .. MaxFailures

\* A report passes only what was made: both model nodes answered, and validly.
\* Missing flags count as valid in _hard_validate, so that a graph in which a
\* node failed is told apart by the evidence chain alone.
PassIsEarned ==
  \A t \in Target :
    flow[t].report = "pass" =>
      /\ flow[t].issue = "valid" /\ flow[t].insight = "valid"
      /\ flow[t].failed \cap {"issue_integrate", "strategic_insight", "validate"} = {}

\* The error list is empty exactly when no node failed, and is long enough for
\* every node that did, although the reducer adds to the list what a node
\* returns and nodes return the whole list.
ErrorsTellFailures ==
  \A t \in Target : flow[t].errors >= Cardinality(flow[t].failed)
                    /\ (flow[t].errors = 0 <=> flow[t].failed = {})

\* A row of card_news that is a target's own is that target's; cards of
\* different targets meet only in the row of those whose integration failed,
\* and a bundle judged unusable has no card in any row.
RowsOwned ==
  /\ \A t \in Target : rows[t].by \in {t, NoTarget}
  /\ \A t \in Target : flow[t].rowId => flow[t].issue # "invalid"
  /\ \A t \in Self, r \in RowId : rows[r].by # t

=============================================================================
