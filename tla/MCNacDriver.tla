----------------------------- MODULE MCNacDriver -----------------------------
EXTENDS NacDriver, TLC

(* Neither the PCI devices nor the files differ from one another. *)
DeviceSymmetry == Permutations(Devices) \cup Permutations(Files)

(* An offset in front of the area, and one of half of what a card wants. *)
DriverOffsets == {-4, 4}
=============================================================================
