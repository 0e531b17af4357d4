----------------------------- MODULE MCNacRegs ------------------------------
EXTENDS NacRegs, TLC

(* Ports of both pairs, with registers and ports at and just past their
   bounds, and past those of uint8_t and uint16_t, where they come round to
   ports that exist and register 0; every kind of list the programs work
   through. *)
RegJobs ==
  {Pcsreg(256, 256, {1, PcsLoopback}), ClearFlag(0, PcsLoopback)} \cup
  {SetFlag(0, AutonegEnable), SetFlag(2, AutonegEnable), MdioInit(1)} \cup
  {CaptureStart, CaptureStopStream(0)} \cup
  {BypassInit({0}), Gstats, GsetFibre, GsetCopper} \cup
  {Macreg(0, 1024, {1}), Macreg(257, 65536, {2}), Pcsreg(1, 32, {1})} \cup
  {Phyreg(4, 0, {1}), Phyreg(259, 256, {1, 20})} \cup
  {SsetAutoneg(3, TRUE), SsetSpeed(3, "1000"), Testreg(Capture, {9})}

(* They are lists of the kind the theorems about NacRegs are about. *)
ASSUME RegJobsListed == JobsListed /\ FlagJobs

(* The processes are interchangeable. *)
ProcSymmetry == Permutations(Procs)
=============================================================================
