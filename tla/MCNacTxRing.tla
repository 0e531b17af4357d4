----------------------------- MODULE MCNacTxRing -----------------------------
(* Small instances of NacTxRing for TLC; the constants are in the cfg files. *)
EXTENDS NacTxRing
=============================================================================
