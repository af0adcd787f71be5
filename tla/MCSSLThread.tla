---------------------------- MODULE MCSSLThread ----------------------------
(* SSLThread for TLC: three threads with up to two instances each.          *)
EXTENDS SSLThread

CONSTANTS t1, t2, t3
=============================================================================
