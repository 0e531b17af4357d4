-------------------------- MODULE MCNacFlowShutdown --------------------------
(* Small instances of NacFlowShutdown for TLC; constants are in the cfg files. *)
EXTENDS NacFlowShutdown
=============================================================================
