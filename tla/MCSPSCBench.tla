----------------------------- MODULE MCSPSCBench -----------------------------
(* SPSCBench on a small instance: see MCSPSCBench.cfg. *)
EXTENDS SPSCBench

MCItem == 0 .. Elements - 1

=============================================================================
