---------------------------- MODULE ArticleLedger ----------------------------
(***************************************************************************)
(* What storing articles promises about raw_articles, whoever else stores  *)
(* at the same time: a crawl run registers its batch at most once and in   *)
(* ONE step, which stores URLs that nobody stored and links the run to     *)
(* each of them, and to others that are stored.  Rows and links stay for   *)
(* ever, a run that settled registers nothing more, and the content index  *)
(* takes in nothing that is not stored.                                    *)
(***************************************************************************)
CONSTANTS Run, Url,
          NoRow      \* the URL is not stored

VARIABLES rows,      \* the run that stored each URL, or NoRow
          links,     \* what each run reported: pairs of a URL and an action
          state,     \* where each run stands
          vdb        \* URLs in the content index

vars == <<rows, links, state, vdb>>

Stored == {u \in Url : rows[u] # NoRow}

Init ==
  /\ rows = [u \in Url |-> NoRow]
  /\ links = [r \in Run |-> {}]
  /\ state = [r \in Run |-> "none"]
  /\ vdb = {}

Open(r) ==
  /\ state[r] = "none"
  /\ state' = [state EXCEPT ![r] = "running"]
  /\ UNCHANGED <<rows, links, vdb>>

\* One report per URL; "inserted" is claimed for new rows alone, no new row
\* goes unreported, and nothing is reported that is not stored now.
Honest(report, new) ==
  /\ \A l, m \in report : l[1] = m[1] => l = m
  /\ \A u \in Url : <<u, "inserted">> \in report => u \in new
  /\ \A u \in new : \E l \in report : l[1] = u
  /\ \A l \in report : l[1] \in Stored \cup new

\* The batch and its report appear together.  A caller that cannot tell
\* whether they did calls the run failed.
Register(r) ==
  /\ state[r] = "running" /\ links[r] = {}
  /\ \E new \in SUBSET (Url \ Stored), report \in SUBSET (Url \X {"inserted", "duplicate"}) :
       /\ Honest(report, new)
       /\ rows' = [u \in Url |-> IF u \in new THEN r ELSE rows[u]]
       /\ links' = [links EXCEPT ![r] = report]
  /\ \/ UNCHANGED state
     \/ state' = [state EXCEPT ![r] = "failed"]
  /\ UNCHANGED vdb

Settle(r) ==
  /\ state[r] = "running"
  /\ \E s \in {"success", "failed"} : state' = [state EXCEPT ![r] = s]
  /\ UNCHANGED <<rows, links, vdb>>

Index ==
  /\ \E S \in SUBSET Stored : vdb' = vdb \cup S
  /\ UNCHANGED <<rows, links, state>>

Next == Index \/ \E r \in Run : Open(r) \/ Register(r) \/ Settle(r)

Spec == Init /\ [][Next]_vars
=============================================================================
