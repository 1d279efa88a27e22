--------------------------- MODULE MCDashboard ------------------------------
EXTENDS Dashboard

CONSTANTS P1, C1, M1, W1, W2

(* One product, client and metric, so that every request of two workers    *)
(* meets the other's entities; two workers, so that requests interleave.   *)
MCProducts == {P1}
MCClients == {C1}
MCMetrics == {M1}
MCWorkers == {W1, W2}
=============================================================================
