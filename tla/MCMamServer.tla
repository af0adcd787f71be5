---------------------------- MODULE MCMamServer ----------------------------
(***************************************************************************)
(* MamServer for TLC: a handful of clients, fewer descriptors than clients *)
(* so that they run out and are reused, and a one-slot table that has to   *)
(* grow.                                                                   *)
(***************************************************************************)
EXTENDS MamServer, TLC

CONSTANTS c1, c2, c3

ClientSymmetry == Permutations(Clients)
=============================================================================
