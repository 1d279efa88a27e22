------------------------- MODULE MCBenchmarkRunner -------------------------
(* Two iterations over a catalog of one free and two non-free counters     *)
(* sampled one at a time: two groups, so four iterations with counters.    *)
EXTENDS BenchmarkRunner

CONSTANTS Cycles, CacheMisses, BranchMisses, On, Off

MCAllMetrics == {Cycles, CacheMisses, BranchMisses}
MCFreeMetrics == {Cycles}
MCNonFreeMetrics == {CacheMisses, BranchMisses}
MCPreloadValues == {On, Off}

MCAllCalls == Calls

(* Only the creation of the temporary directory fails.                     *)
MCMkdTempFails == {"MkdTemp"}

(* Nothing fails: Chrome is only slow or gone.                             *)
MCNothingFails == {}

(* Only the start of the ETW session fails.                                *)
MCEtwStartFails == {"EtwStart"}
=============================================================================
