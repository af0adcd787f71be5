---------------------------- MODULE MCNetScanDb ----------------------------
(* NetScanDb for TLC: two or three devices and as many addresses, so that   *)
(* an address can be handed on and devices can swap theirs.                 *)
EXTENDS NetScanDb

CONSTANTS m1, m2, m3, a1, a2, a3
=============================================================================
