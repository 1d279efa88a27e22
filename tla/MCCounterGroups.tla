-------------------------- MODULE MCCounterGroups --------------------------
(* A catalog of one free counter (the CYCLES counter) and four non-free   *)
(* ones, sampled two at a time: enough for two groups, a partial last      *)
(* group and every order of the non-free list.                            *)
EXTENDS CounterGroups

CONSTANTS Cycles, InstrRetired, CacheMisses, BranchMisses, TlbMisses

MCAllMetrics == {Cycles, InstrRetired, CacheMisses, BranchMisses, TlbMisses}
MCFreeMetrics == {Cycles}
MCNonFreeMetrics == {InstrRetired, CacheMisses, BranchMisses, TlbMisses}
=============================================================================
