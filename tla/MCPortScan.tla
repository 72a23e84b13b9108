----------------------------- MODULE MCPortScan -----------------------------
(* One port, every state firmware can leave it in.                          *)
EXTENDS PortScan
=============================================================================
