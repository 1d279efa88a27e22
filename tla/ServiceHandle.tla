--------------------------- MODULE ServiceHandle ---------------------------
(***************************************************************************)
(* What the handle of an external service promises (the External Service   *)
(* Handle of the spec, section 4.2), for one handle object: it is started  *)
(* once, goes through the liveness check, and is released either by a     *)
(* failed check or by a stop; the captured log of the service is surfaced  *)
(* exactly when the handle is released, and only a handle whose start was *)
(* confirmed is stopped.  A failed stop command may leave the handle       *)
(* started for good: that is a stutter here.                               *)
(***************************************************************************)
EXTENDS Naturals

VARIABLES
  hstate,    \* "Idle", "Checking", "Started" or "Released"
  logShown   \* times the captured log was surfaced

hvars == <<hstate, logShown>>

HInit == hstate = "Idle" /\ logShown = 0

(* Start: the service process is launched and the liveness check begins.  *)
Start == hstate = "Idle" /\ hstate' = "Checking" /\ UNCHANGED logShown

(* The liveness check passes.                                              *)
Confirm == hstate = "Checking" /\ hstate' = "Started" /\ UNCHANGED logShown

(* The liveness check finds the service gone: its log is surfaced and the *)
(* handle released.                                                        *)
StartFail ==
  hstate = "Checking" /\ hstate' = "Released" /\ logShown' = logShown + 1

(* A stop that reaches the service: the log is surfaced, the handle        *)
(* released.                                                               *)
Stop == hstate = "Started" /\ hstate' = "Released" /\ logShown' = logShown + 1

HNext == Start \/ Confirm \/ StartFail \/ Stop

HSpec == HInit /\ [][HNext]_hvars

=============================================================================
