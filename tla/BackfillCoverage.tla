-------------------------- MODULE BackfillCoverage --------------------------
(***************************************************************************)
(* What the backfill promises about one table of cursors: days get done in *)
(* contiguous windows, and the frontier of a source may stand at a day     *)
(* only when every day from it up to the start of the backfill is done.    *)
(* Days that are done stay done.                                           *)
(***************************************************************************)
EXTENDS Integers

CONSTANTS Source, NoRow,
          Day        \* the day numbers a backfill can begin at or go back to

VARIABLES frontier,  \* how far back each source has come, NoRow before it begins
          start,     \* the day the backfill of each source began
          done       \* the days of each source that are done

vars == <<frontier, start, done>>

Init ==
  /\ frontier = [s \in Source |-> NoRow]
  /\ start = [s \in Source |-> NoRow]
  /\ done = [s \in Source |-> {}]

Begin(s) ==
  /\ frontier[s] = NoRow
  /\ \E d \in Day :
       /\ frontier' = [frontier EXCEPT ![s] = d]
       /\ start' = [start EXCEPT ![s] = d]
  /\ UNCHANGED done

\* A window that ends where everything later is done already.
DoWindow(s) ==
  /\ frontier[s] # NoRow
  /\ \E lo, hi \in Day :
       /\ lo < hi /\ hi <= start[s]
       /\ hi < start[s] => hi .. start[s] \subseteq done[s]
       /\ done' = [done EXCEPT ![s] = @ \cup (lo .. hi)]
  /\ UNCHANGED <<frontier, start>>

Move(s) ==
  /\ frontier[s] # NoRow
  /\ \E d \in Day :
       /\ d < start[s] /\ d .. start[s] \subseteq done[s]
       /\ frontier' = [frontier EXCEPT ![s] = d]
  /\ UNCHANGED <<start, done>>

Next == \E s \in Source : Begin(s) \/ DoWindow(s) \/ Move(s)

Spec == Init /\ [][Next]_vars
=============================================================================
