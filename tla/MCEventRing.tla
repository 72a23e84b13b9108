---------------------------- MODULE MCEventRing ----------------------------
(* A ring of five TRBs: every pair of index positions, both cycles, several *)
(* laps, a full ring and an empty one.                                      *)
EXTENDS EventRing
=============================================================================
