----------------------------- MODULE MCBackfill -----------------------------
(* Small instances of Backfill: a strict source with one-day windows and a    *)
(* lenient one with two-day windows, whose until_date is not a whole number   *)
(* of windows away from the initial date.                                     *)
EXTENDS Backfill, TLC

CONSTANT naver

MCUntil == [s \in Source |-> IF s = naver THEN 2 ELSE 1]
MCWindowDays == [s \in Source |-> IF s = naver THEN 1 ELSE 2]
MCWindowsPerRun == [s \in Source |-> IF s = naver THEN 2 ELSE 1]
MCInitialDate == {4}

Symmetry == Permutations(Runner)
=============================================================================
