-------------------------- MODULE MCProfileRunner --------------------------
(* The default ten iterations of profile.py and the five liveness polls of the code.                 *)
EXTENDS ProfileRunner

(* Every call and event may fail.                                          *)
MCAllCalls == Calls
=============================================================================
