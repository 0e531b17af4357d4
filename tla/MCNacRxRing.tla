----------------------------- MODULE MCNacRxRing -----------------------------
(* Small instances of NacRxRing for TLC; the constants are in the cfg files. *)
EXTENDS NacRxRing
=============================================================================
