--------------------------- MODULE MCContentIndex ---------------------------
(* Instances of ContentIndex for TLC. *)
EXTENDS ContentIndex, TLC

CONSTANTS card, article, result, direction, body

\* A card with two kinds, of which one may be blank, and an article.
MCRowOf == (result :> card) @@ (direction :> card) @@ (body :> article)

MCCardOf == (result :> card) @@ (direction :> card)

Symmetry == Permutations(Indexer)

=============================================================================
