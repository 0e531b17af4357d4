------------------------------- MODULE NacI2c -------------------------------
(***************************************************************************)
(* The I2C functions of lib/nacapi.c: four bus masters behind one register *)
(* each, driven byte by byte, and a module with a small memory at the end  *)
(* of each bus.                                                            *)
(*                                                                         *)
(* A function presents a byte, commands the master to send or to receive   *)
(* it, and polls the status until the transfer is over; the master takes   *)
(* its time, and a command given too early spoils the one under way.  The  *)
(* acknowledge bit of the module is never looked at.  A function is a list *)
(* of such steps; a step that settles an access to the memory carries it.  *)
(*                                                                         *)
(* usleep(100) is long enough for one access to a register of the master   *)
(* and for a stop.  No two processes use the same port at once, and a port *)
(* is used after nac_i2c_init() only.                                      *)
(***************************************************************************)
EXTENDS Integers, SequencesExt

CONSTANTS
  Procs,     \* processes that use the library
  Calls,     \* calls they may make
  MaxCalls,  \* bound: calls begun
  Plugged,   \* ports that have a module
  MemSize    \* bytes of the memory of a module that are looked at

ASSUME I2cAssumption ==
  /\ MaxCalls \in Nat /\ MemSize \in 2 .. 100
  /\ Plugged \subseteq 0 .. 3

VARIABLES
  rest,      \* steps a process has left of its call
  port,      \* port of its call
  byte,    \* the byte it read last
  begun,     \* calls begun
  master,    \* the registers of each bus master
  command,   \* the command it executes (a set of bits), {} when none
  phase,     \* module: what it takes the next byte for
  pointer,   \* module: its memory address
  memory     \* module: its memory

modules == <<phase, pointer, memory>>
busVars == <<rest, port, byte, begun, master, command, modules>>

Ports == 0 .. 3
NoByte == -1
Addresses == 0 .. MemSize - 1

SlaveAddr == 160    \* SFP_MSA_E2PROM
WR == 0
RD == 1

(* The master of a port, as nac_wb_write and nac_wb_read number them. *)
Master(x) == IF x < 2 THEN x + 2 ELSE x - 2

(* The port a master is wired to. *)
Wired(m) == (m + 2) % 4

-----------------------------------------------------------------------------
(* The functions, as lists of steps. *)

Access(x, a, write, v) ==
  [space |-> "i2c", port |-> x, reg |-> a, write |-> write, keep |-> {},
   set |-> IF write THEN {v} ELSE {}]

Put(reg, v) == [do |-> "put", reg |-> reg, value |-> v, accesses |-> <<>>]
Wait == [do |-> "wait", accesses |-> <<>>]
WaitFor(access) == [do |-> "wait", accesses |-> <<access>>]
Fetch(access) == [do |-> "fetch", accesses |-> <<access>>]
Refuse(access) == [do |-> "refuse", accesses |-> <<access>>]

(* nac_i2c_init *)
I2cInit == <<Put("CTR", 0), Put("PRER_LO", 199), Put("PRER_HI", 0), Put("CTR", 128)>>

(* Variant: the address goes out without waiting for the byte before it. *)
SendHasty(v, bits) == <<Put("TXR", v), Put("CR", bits)>>

(* A byte out, and the wait until it is gone. *)
Send(v, bits) == <<Put("TXR", v), Put("CR", bits), Wait>>

(* The device is told where in its memory to go on. *)
GoTo(a) == Send(SlaveAddr + WR, {"start", "write"}) \o Send(a, {"write"})

(* Variant: every byte is acknowledged and the bus is left as it is. *)
ReceiveAll(x, a, n) ==
  [i \in 1 .. 3 * n |->
     CASE i % 3 = 1 -> Put("CR", {"read"})
       [] i % 3 = 2 -> Wait
       [] i % 3 = 0 -> Fetch(Access(x, a + (i \div 3) - 1, FALSE, 0))]

(* n bytes in; the last one is not acknowledged, and a stop follows. *)
Receive(x, a, n) ==
  [i \in 1 .. 3 * n |->
     CASE i % 3 = 1 -> Put("CR", IF i \div 3 = n - 1 THEN {"read", "nack"} ELSE {"read"})
       [] i % 3 = 2 -> Wait
       [] i % 3 = 0 -> Fetch(Access(x, a + (i \div 3) - 1, FALSE, 0))]
  \o <<Put("CR", {"stop"})>>

(* nac_i2c_random_read8 (n = 1), nac_i2c_sequential_read, and
   nac_i2c_random_read16 (n = 2); a port there is not is refused, and the
   caller gets what happens to be in the variable. *)
ReadBytes(x, a, n) ==
  IF x \notin Ports THEN [i \in 1 .. n |-> Refuse(Access(x, a + i - 1, FALSE, 0))]
  ELSE GoTo(a) \o Send(SlaveAddr + RD, {"start", "write"}) \o Receive(x, a, n)

(* nac_i2c_random_write16 *)
Write16(x, a, hi, lo) ==
  IF x \notin Ports
  THEN <<Refuse(Access(x, a, TRUE, hi)), Refuse(Access(x, a + 1, TRUE, lo))>>
  ELSE GoTo(a) \o
       <<Put("TXR", hi), Put("CR", {"write"}), WaitFor(Access(x, a, TRUE, hi)),
         Put("TXR", lo), Put("CR", {"write", "stop"}),
         WaitFor(Access(x, a + 1, TRUE, lo))>>

(* phy_get_module_id (and phy_get_connector_id, at address 2): one byte. *)
ModuleId(x) == ReadBytes(x, 0, 1)

(* phy_get_vendor_id: n calls of nac_i2c_random_read8, one after the other. *)
VendorId(x, a, n) == FlattenSeq([i \in 1 .. n |-> ReadBytes(x, a + i - 1, 1)])

-----------------------------------------------------------------------------
BusInit ==
  /\ rest = [p \in Procs |-> <<>>]
  /\ port = [p \in Procs |-> 0]
  /\ byte = [p \in Procs |-> NoByte]
  /\ begun = 0
  /\ master = [m \in Ports |-> [CTR |-> 0, PRER_LO |-> 255, PRER_HI |-> 255,
                                TXR |-> 0, RXR |-> 0]]
  /\ command = [m \in Ports |-> {}]
  /\ phase = [x \in Ports |-> "free"]
  /\ pointer = [x \in Ports |-> 0]
  /\ memory = [x \in Ports |-> [a \in Addresses |-> 10 * x + a + 1]]

MasterReady(x) == x \in Ports => master[Master(x)].CTR = 128

(* A process calls a function on a port nobody else uses. *)
Begin(p) ==
  /\ rest[p] = <<>> /\ begun < MaxCalls
  /\ \E c \in Calls :
       /\ \A q \in Procs : rest[q] # <<>> => port[q] # c.port
       /\ MasterReady(c.port) \/ c.steps = I2cInit
       /\ rest' = [rest EXCEPT ![p] = c.steps]
       /\ port' = [port EXCEPT ![p] = c.port]
  /\ begun' = begun + 1
  /\ UNCHANGED <<byte, master, command, modules>>

At(p, what) == rest[p] # <<>> /\ Head(rest[p]).do = what
Advance(p) == rest' = [rest EXCEPT ![p] = Tail(@)] /\ UNCHANGED <<port, begun>>

(* nac_wb_write of any register but the command register. *)
WriteRegister(p) ==
  /\ At(p, "put") /\ Head(rest[p]).reg # "CR" /\ Advance(p)
  /\ master' = [master EXCEPT ![Master(port[p])][Head(rest[p]).reg] = Head(rest[p]).value]
  /\ UNCHANGED <<byte, command, modules>>

(* nac_wb_write of the command register: a transfer begins, whatever was under
   way; a stop alone is over when the sleep is. *)
WriteCommand(p) ==
  /\ At(p, "put") /\ Head(rest[p]).reg = "CR" /\ Advance(p)
  /\ LET bits == Head(rest[p]).value
         m == Master(port[p])
     IN  IF bits = {"stop"}
         THEN /\ phase' = [phase EXCEPT ![Wired(m)] = "free"]
              /\ command' = [command EXCEPT ![m] = {}]
         ELSE command' = [command EXCEPT ![m] = bits] /\ UNCHANGED phase
  /\ UNCHANGED <<byte, master, pointer, memory>>

(* nac_wait_trans_done returns when the transfer bit of SR is clear. *)
WaitDone(p) ==
  /\ At(p, "wait") /\ Advance(p)
  /\ command[Master(port[p])] = {}
  /\ UNCHANGED <<byte, master, command, modules>>

(* nac_wb_read(RXR) *)
FetchByte(p) ==
  /\ At(p, "fetch") /\ Advance(p)
  /\ byte' = [byte EXCEPT ![p] = master[Master(port[p])].RXR]
  /\ UNCHANGED <<master, command, modules>>

RefusePort(p) ==
  /\ At(p, "refuse") /\ Advance(p)
  /\ \E v \in {0, 255} :
       byte' = IF Head(Head(rest[p]).accesses).write THEN byte
                 ELSE [byte EXCEPT ![p] = v]
  /\ UNCHANGED <<master, command, modules>>

-----------------------------------------------------------------------------
(* The card and the modules: a transfer ends. *)

Configured(m) == master[m].CTR = 128 /\ master[m].PRER_LO = 199 /\ master[m].PRER_HI = 0

(* The master sends a byte that is not an address of a module. *)
Taken(c) == "write" \in c /\ "start" \notin c

(* What the module of port x takes the next byte for, after command c with
   byte v in phase ph. *)
NextPhase(x, c, v, ph) ==
  CASE "stop" \in c -> "free"
    [] "start" \in c /\ x \in Plugged /\ v = SlaveAddr + WR -> "address"
    [] "start" \in c /\ x \in Plugged /\ v = SlaveAddr + RD -> "read"
    [] "start" \in c /\ (x \notin Plugged \/ v \notin SlaveAddr .. SlaveAddr + 1) -> "off"
    [] c = {"write"} /\ ph = "address" -> "write"
    [] c = {"read", "nack"} -> "off"
    [] OTHER -> ph

(* Its memory address, of which a was the last. *)
NextPointer(c, v, ph, a) ==
  CASE Taken(c) /\ ph = "address" -> v % MemSize
    [] (Taken(c) /\ ph = "write") \/ ("read" \in c /\ ph = "read") -> (a + 1) % MemSize
    [] OTHER -> a

Transfer(m) ==
  /\ command[m] # {} /\ Configured(m)
  /\ command' = [command EXCEPT ![m] = {}]
  /\ LET x == Wired(m)
         c == command[m]
         v == master[m].TXR
     IN  /\ phase' = [phase EXCEPT ![x] = NextPhase(x, c, v, @)]
         /\ pointer' = [pointer EXCEPT ![x] = NextPointer(c, v, phase[x], @)]
         /\ memory' = IF Taken(c) /\ phase[x] = "write"
                      THEN [memory EXCEPT ![x][pointer[x]] = v] ELSE memory
         /\ master' = IF "read" \in c
                      THEN [master EXCEPT ![m].RXR =
                              IF phase[x] = "read" THEN memory[x][pointer[x]] ELSE 255]
                      ELSE master
  /\ UNCHANGED <<rest, port, byte, begun>>

BusNext ==
  \/ \E p \in Procs :
       \/ Begin(p) \/ WriteRegister(p) \/ WriteCommand(p)
       \/ WaitDone(p) \/ FetchByte(p) \/ RefusePort(p)
  \/ \E m \in Ports : Transfer(m)

BusSpec == BusInit /\ [][BusNext]_busVars

-----------------------------------------------------------------------------
(* Properties. *)

(* The accesses that a list of steps settles. *)
Accesses(steps) == FlattenSeq([i \in DOMAIN steps |-> steps[i].accesses])

(* Those a process has left; a byte is in the memory before the wait for it is
   over. *)
Pending(p) ==
  IF At(p, "wait") /\ command[Master(port[p])] = {}
  THEN Accesses(Tail(rest[p])) ELSE Accesses(rest[p])

(* The state of the modules' memories as the callers see it. *)
CallJobs == {Accesses(c.steps) : c \in Calls}
Cells == {<<"i2c", x, a>> : x \in Plugged, a \in Addresses}
Contents == [q \in Cells |-> {memory[q[2]][q[3]]}]
Left == [p \in Procs |-> Pending(p)]
Answers == [p \in Procs |-> {byte[p]} \ {NoByte}]

File == INSTANCE RegisterFile WITH
  Jobs <- CallJobs,
  Places <- Cells,
  Initial <- [q \in Cells |-> {10 * q[2] + q[3] + 1}],
  Junk <- {{0}, {255}},
  regs <- Contents,
  todo <- Left,
  answer <- Answers

(* Byte by byte, the bus functions read and write the memory of the module in
   their port and no other: each byte a function returns is the one at its
   address, the two bytes of a 16-bit write land at the address and behind it,
   the high one first, and a port without a module reads as 255. *)
ImplementsMemory == File!Spec

(* A function that has returned leaves the bus of its port free, with no
   transfer under way and the module listening for a start. *)
BusLeftFree ==
  \A x \in Ports :
    (\A p \in Procs : rest[p] # <<>> => port[p] # x) =>
      phase[x] = "free" /\ command[Master(x)] = {}

-----------------------------------------------------------------------------
(* The functions above, with bytes and with addresses within the memory. *)
LibraryCalls ==
  \A c \in Calls :
    \/ c.port \in Ports /\ c.steps = I2cInit
    \/ \E a \in Addresses : \E n \in 1 .. MemSize - a :
         c.steps = ReadBytes(c.port, a, n) \/ c.steps = VendorId(c.port, a, n)
    \/ \E a \in 0 .. MemSize - 2 : \E hi, lo \in 0 .. 255 : c.steps = Write16(c.port, a, hi, lo)
=============================================================================
