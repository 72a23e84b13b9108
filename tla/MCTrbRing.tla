----------------------------- MODULE MCTrbRing -----------------------------
(* A page of four TRBs: three laps of the driver, two of the controller.    *)
EXTENDS TrbRing
=============================================================================
