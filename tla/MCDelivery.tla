----------------------------- MODULE MCDelivery -----------------------------
(* Instances of Delivery for TLC. *)
EXTENDS Delivery, TLC

CONSTANTS a1, a2, a3, d1, c1, c2, doc

\* A cluster that both sources report, one of the company itself, a document.
MCTargetOf == (a1 :> c1) @@ (a2 :> c1) @@ (a3 :> c2) @@ (d1 :> doc)
MCFeed == <<{a1, a3, d1}, {a2}>>

=============================================================================
