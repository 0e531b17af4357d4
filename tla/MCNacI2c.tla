------------------------------ MODULE MCNacI2c ------------------------------
EXTENDS NacI2c, TLC

Call(x, s) == [port |-> x, steps |-> s]

(* Ports 0 and 2, whose masters are swapped, with modules; port 1 without one;
   port 4, which is not there. *)
I2cCalls ==
  {Call(x, I2cInit) : x \in {0, 1, 2}} \cup
  {Call(x, ModuleId(x)) : x \in {0, 1, 2, 4}} \cup
  {Call(x, ReadBytes(x, 1, 2)) : x \in {0, 2, 4}} \cup
  {Call(x, Write16(x, 1, 200, 201)) : x \in {0, 1, 2, 4}} \cup
  {Call(0, VendorId(0, 0, 2))}

(* They are the calls that the theorems about NacI2c are about. *)
ASSUME I2cCallsListed == LibraryCalls

(* The processes are interchangeable. *)
ProcSymmetry == Permutations(Procs)
=============================================================================
