---------------------------- MODULE MCCardSources -----------------------------
(* Constants for model checking CardSources: a card of a company some      *)
(* articles are about, and a newer one of another company.                 *)
EXTENDS CardSources

CONSTANTS c1, c2, a1, a2, a3

Age == [c \in Card |-> IF c = c1 THEN 1 ELSE 2]

\* a1 is about both companies, a2 about the newer card's and a3 about the
\* older card's.
About == {<<c1, a1>>, <<c1, a3>>, <<c2, a1>>, <<c2, a2>>} \cap (Card \X Article)

=============================================================================
