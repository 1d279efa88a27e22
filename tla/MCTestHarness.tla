--------------------------- MODULE MCTestHarness ---------------------------
(* Two executable tests, each edited at most once, and two runs of the     *)
(* suite.                                                                  *)
EXTENDS TestHarness

CONSTANTS T1, T2

MCExeTests == {T1, T2}
=============================================================================
