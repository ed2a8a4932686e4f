---------------------------- MODULE MCNewsClusters ----------------------------
(* Small instances of NewsClusters for TLC. *)
EXTENDS NewsClusters

\* Neighbours are similar, ends are not: a chain, which similarity makes of
\* news about one developing story.
Chain == {<<a, b>> \in News \X News : a - b \in {-1, 0, 1}}

\* The fourth article is similar to the third and about another event.
ChainOfThree == {<<a, b>> \in Chain : (a > 3) = (b > 3)}

\* The first article is published late: it joins a cluster of the second, but
\* not the other way round.
LateFirst == ChainOfThree \ {<<2, 1>>}

\* In half days: the first article comes five and a half days after the second,
\* so that one is a candidate for a batch with the third but not for it alone.
Dates == [a \in News |-> <<11, 0, 4, -1, 6>>[a]]

\* The fourth article has no company, and the first none of the second's.
Companies == ((News \ {4}) \X News) \ {<<1, 2>>}

AllRelevant == [a \in News |-> "relevant"]

\* The article with the highest id is held for review.
Mixed ==
  [a \in News |-> IF a = Cardinality(News) THEN "review" ELSE "relevant"]

=============================================================================
