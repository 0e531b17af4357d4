----------------------------- MODULE MCNacFlowRx -----------------------------
(* Small instances of NacFlowRx for TLC; the constants are in the cfg files.
   A network that reorders more and loses nothing, and one that reorders less
   and loses two packets; the run of two streams has one that only reorders. *)
EXTENDS NacFlowRx

MCNetworks ==
  {[overtakes |-> 2, losses |-> 0], [overtakes |-> 1, losses |-> 2]}
MCLossless == {[overtakes |-> 1, losses |-> 0]}
=============================================================================
