-------------------------- MODULE MCRawArticleStore --------------------------
(* Small instances of RawArticleStore for TLC. *)
EXTENDS RawArticleStore

CONSTANTS a, b, c

\* Two sources of one track that overlap, and one that returns a bad article.
Overlapping == {<<a, b>>, <<b, a>>, <<c, a>>}

=============================================================================
