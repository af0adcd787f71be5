----------------------------- MODULE MCTextScans -----------------------------
(* TextScans for TLC: every text of up to MaxText characters.                *)
EXTENDS TextScans

AllScanners == {"words", "queries", "pairs", "sleepy"}
=============================================================================
