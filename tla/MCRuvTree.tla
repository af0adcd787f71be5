------------------------------ MODULE MCRuvTree ------------------------------
(* RuvTree for TLC: a plain tag, a group and a group nested in it.  The      *)
(* groups share a member, as NoOrders and NoAllocs do, and one member also   *)
(* stands outside.  With start and stop: two kinds of groups.                *)
EXTENDS RuvTree

CONSTANTS text, legs, leg, parties, party, soh, eoh, strd, etrd

NestedGroups == (legs :> {leg, text, parties}) @@ (parties :> {party, leg})
StartsAndStops == (soh :> eoh) @@ (strd :> etrd)
=============================================================================
