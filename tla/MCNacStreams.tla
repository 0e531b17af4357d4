---------------------------- MODULE MCNacStreams ----------------------------
(* A card with two streams each way; the constants are in the cfg files.  The
   handles are told apart by nothing, and all properties are invariants. *)
EXTENDS NacStreams, TLC

HandleSymmetry == Permutations(Handles)
=============================================================================
