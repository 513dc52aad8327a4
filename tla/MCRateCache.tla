---------------------------- MODULE MCRateCache ----------------------------
(* An instance of RateCache for TLC: one currency with a rate, one without. *)
EXTENDS RateCache, TLC

CONSTANTS consume, reclaim, eur, xts

Tasks == Permutations(Task)
=============================================================================
