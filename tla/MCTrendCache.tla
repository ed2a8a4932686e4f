---------------------------- MODULE MCTrendCache ----------------------------
(* An instance of TrendCache for TLC: two threads of one process, and the     *)
(* agents of that process and of another.                                     *)
EXTENDS TrendCache, TLC

CONSTANTS api, job, t1, t2

MCProcessOf == (t1 :> api) @@ (t2 :> api)

Symmetry == Permutations(Reader)

=============================================================================
