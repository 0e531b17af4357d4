------------------------------- MODULE NacRegs -------------------------------
(***************************************************************************)
(* The register functions of lib/nacapi.c and the programs that use them:  *)
(* the MACs and PCSs behind the two pairs of an address and a data         *)
(* register, the PHYs behind one MDIO register per port, the plain control *)
(* registers (capture, bypass, timer), the two halves of a 64-bit          *)
(* statistics counter, and the commands of nactool and the library's       *)
(* read-change-write functions as lists of such accesses.                  *)
(*                                                                         *)
(* Every access to a register of the card is a step of its own, and the    *)
(* card carries commands out on its own time; usleep(100) is long enough   *)
(* for it.  There is no lock.  What is checked is checked for processes    *)
(* that do not use the same pair, MDIO port or register at the same time.  *)
(*                                                                         *)
(* A register is the set of its bits that are 1.  An access is a record:   *)
(* the space it goes to, port, register, whether it writes, and for a      *)
(* write the bits kept of what was read before and the bits set.  The      *)
(* arguments of a call are narrower than the numbers the menus of nactool  *)
(* take: they are cut when the function is called, before it checks them.  *)
(***************************************************************************)
EXTENDS Integers, Sequences

CONSTANTS
  Procs,      \* processes that have the card open
  Jobs,       \* lists of calls they may work through, with the caller's arguments
  MaxJobs,    \* bound: jobs begun
  MacRegs,    \* registers of a MAC that are looked at
  PcsRegs,    \* registers of a PCS
  PhyRegs,    \* registers of a PHY
  PlainRegs,  \* plain registers that are looked at
  Half,       \* values of half a counter (2^32)
  MaxCount    \* bound on the counter

ASSUME RegsAssumption ==
  /\ MaxJobs \in Nat /\ MaxCount \in Nat
  /\ Half \in Nat \ {0, 1}
  /\ MacRegs \subseteq 0 .. 1023
  /\ PcsRegs \subseteq 0 .. 31 /\ PhyRegs \subseteq 0 .. 31

VARIABLES
  core,     \* card: register behind <<pair, address>>
  data,     \* MAC0_DATA, MAC1_DATA
  command,  \* card: what an address register was last told and is not done yet
  phy,      \* card: register of <<PHY, register>>
  mdio,     \* the MDIO register of each port, when it is read
  frame,    \* card: the MDIO frame of each port that is not done yet
  plain,    \* the plain registers
  count,    \* card: a statistics counter
  job,      \* accesses a process has left, the one under way first
  at,       \* step of the access under way
  tmp,      \* what the process read last
  halves,   \* halves of the counter it has read
  total,    \* the counter it put together
  begun     \* jobs begun

card == <<core, data, command, phy, mdio, frame, plain, count>>
vars == <<card, job, at, tmp, halves, total, begun>>

Ports == 0 .. 3
Pairs == {0, 1}
AllOnes == 0 .. 31
Low16 == 0 .. 15
NoCommand == [busy |-> FALSE]

(* Each pair has two blocks of 1024 addresses, one per MAC; the PCSs are PHYs
   on the management bus of the blocks, number 1 in the first one (the PCS of
   the pair's second port) and 2 in the second. *)
MacHome(port, r) == <<port \div 2, 1024 * (port % 2) + r>>
PcsHome(port, r) == <<port \div 2, IF port % 2 = 1 THEN 32 + r ELSE 1024 + 64 + r>>
PhyHome(port, r) == <<3 - port, r>>

Homes == {MacHome(p, r) : p \in Ports, r \in MacRegs} \cup
         {PcsHome(p, r) : p \in Ports, r \in PcsRegs}

-----------------------------------------------------------------------------
(* Where an access goes. *)

(* mac < 2: MAC0_*, else MAC1_*; nac_pcs_* swaps the ports of a pair. *)
Pair(a) == a.port \div 2

(* What goes into the address register, without the write bit. *)
Address(a) ==
  IF a.space = "mac" THEN (IF a.port % 2 = 1 THEN 1024 ELSE 0) + a.reg
  ELSE IF a.port % 2 = 1 THEN 32 + a.reg ELSE 1024 + 2 * 32 + a.reg

(* What the functions get: uint8_t port, uint16_t address of a MAC and uint8_t
   of a PCS or PHY, uint16_t data of a PHY. *)
Converted(a) ==
  CASE a.space = "mac" -> [a EXCEPT !.port = @ % 256, !.reg = @ % 65536]
    [] a.space = "pcs" -> [a EXCEPT !.port = @ % 256, !.reg = @ % 256]
    [] a.space = "phy" -> [a EXCEPT !.port = @ % 256, !.reg = @ % 256,
                                    !.keep = @ \cap Low16, !.set = @ \cap Low16]
    [] OTHER -> a

(* The accesses the functions are asked for. *)
Calls == {[i \in 1 .. Len(j) |-> Converted(j[i])] : j \in Jobs}

(* The arguments they let through. *)
Legal(a) ==
  CASE a.space = "mac" -> a.port <= 3 /\ a.reg <= 1023
    [] a.space \in {"pcs", "phy"} -> a.port <= 3 /\ a.reg <= 31
    [] OTHER -> TRUE

(* Variant: the address goes out first. *)
MacWriteAddrFirst == <<"addr", "data", "sleep">>

(* The steps of the functions, in the order of the code. *)
MacWrite == <<"data", "addr", "sleep">>
MacRead == <<"addr", "sleep", "fetch">>
MdioWrite == <<"frame", "rest">>
MdioRead == <<"frame", "rest", "collect">>

(* Variant: the low half first. *)
CounterLowFirst == <<"low", "high">>

(* The halves of a counter, the high one first. *)
Counter == <<"high", "low">>

Steps(a) ==
  CASE ~Legal(a) -> <<"refuse">>
    [] Legal(a) /\ a.space \in {"mac", "pcs"} -> IF a.write THEN MacWrite ELSE MacRead
    [] Legal(a) /\ a.space = "phy" -> IF a.write THEN MdioWrite ELSE MdioRead
    [] Legal(a) /\ a.space = "reg" -> IF a.write THEN <<"put">> ELSE <<"get">>
    [] a.space = "count" -> Counter

(* What an access uses of the card. *)
Resource(a) ==
  CASE a.space \in {"mac", "pcs"} -> <<"pair", Pair(a)>>
    [] a.space = "phy" -> <<"mdio", a.port>>
    [] a.space = "reg" -> <<"reg", a.reg>>
    [] a.space = "count" -> <<"count", 0>>

Uses(j) == {Resource(j[i]) : i \in {k \in 1 .. Len(j) : j[k].space # "count"}}

-----------------------------------------------------------------------------
(* The lists of accesses the library and nactool work through. *)

ReadOf(space, port, reg) ==
  [space |-> space, port |-> port, reg |-> reg, write |-> FALSE, keep |-> {}, set |-> {}]
WriteOf(space, port, reg, v) ==
  [space |-> space, port |-> port, reg |-> reg, write |-> TRUE, keep |-> {}, set |-> v]

(* Read, change, write back. *)
Change(space, port, reg, keep, set) ==
  <<ReadOf(space, port, reg),
    [WriteOf(space, port, reg, set) EXCEPT !.keep = keep]>>

(* nac_set_pcs_reset, _loopback, _autoneg_enable, ..: a flag of the control
   register of the PCS. *)
SetFlag(port, bit) == Change("pcs", port, 0, AllOnes, {bit})
ClearFlag(port, bit) == Change("pcs", port, 0, 0 .. 15 \ {bit}, {})
PcsReset == 15
PcsLoopback == 14
AutonegEnable == 12
PhyPowerdown == 11
PhyIsolate == 10
AutonegRestart == 9

(* nac_get_link_status and its siblings: one read. *)
Status(port, reg) == <<ReadOf("pcs", port, reg)>>

(* nac_mdio_init: the clock of the management bus. *)
MdioInit(port) == <<WriteOf("mac", port, 832, {3, 4, 6})>>

(* capture_start, _stop, _start_stream, _stop_stream: bit 0 for all, then one
   bit per stream; the bypass bits are above. *)
Capture == "capture"
CaptureStart == Change("reg", 0, Capture, AllOnes, 0 .. 8)
CaptureStop == Change("reg", 0, Capture, 9 .. 31, {})
CaptureStartStream(n) == Change("reg", 0, Capture, AllOnes, {n + 1, 0})
CaptureStopStream(n) == Change("reg", 0, Capture, AllOnes \ {n + 1}, {0})

(* bypass_switch_on and _off, and bypass_init, which sets the threshold too. *)
BypassOn == <<WriteOf("reg", 0, "bypass", {0})>>
BypassOff == <<WriteOf("reg", 0, "bypass", {1})>>
BypassInit(v) == BypassOn \o <<WriteOf("reg", 0, "threshold", v)>>

(* A statistics counter (nac_statistics_cnt, nactool's read_tx_bytes), and the
   two samples of nactool's do_gstats. *)
Statistics == <<ReadOf("count", 0, 0)>>
Gstats == Statistics \o Statistics

(* nactool's menus do_testreg, do_phyreg, do_pcsreg and do_macreg: a write is
   read back. *)
MenuWrite(space, port, reg, v) == <<WriteOf(space, port, reg, v), ReadOf(space, port, reg)>>
Testreg(reg, v) == MenuWrite("reg", 0, reg, v)
Phyreg(port, reg, v) == MenuWrite("phy", port, reg, v)
Pcsreg(port, reg, v) == MenuWrite("pcs", port, reg, v)
Macreg(port, reg, v) == MenuWrite("mac", port, reg, v)

(* do_gset, the table of all ports, for fibre and for copper cards. *)
EachPort(space, reg) == [i \in 1 .. 4 |-> ReadOf(space, i - 1, reg)]
GsetFibre == EachPort("pcs", 0) \o EachPort("pcs", 1) \o EachPort("pcs", 1)
GsetCopper ==
  EachPort("phy", 0) \o EachPort("phy", 1) \o
  EachPort("pcs", 5) \o EachPort("pcs", 5) \o EachPort("pcs", 5) \o
  <<ReadOf("reg", 0, "bypass")>>

(* do_sset on copper cards: autonegotiation on or off; a speed, which resets
   the PHY first and then finds that 1000 cannot be forced. *)
SsetAutoneg(port, on) == <<WriteOf("phy", port, 0, IF on THEN {8, 9, 12} ELSE {6, 8})>>
SsetSpeed(port, mode) ==
  <<WriteOf("phy", port, 0, {15})>> \o
  CASE mode = "100 full" -> <<WriteOf("phy", port, 0, {8, 13})>>
    [] mode = "100 half" -> <<WriteOf("phy", port, 0, {13})>>
    [] mode = "10 full" -> <<WriteOf("phy", port, 0, {8})>>
    [] mode = "10 half" -> <<WriteOf("phy", port, 0, {})>>
    [] mode = "1000" -> <<>>

-----------------------------------------------------------------------------
Init ==
  /\ core = [x \in Homes |-> {}]
  /\ data = [x \in Pairs |-> {}]
  /\ command = [x \in Pairs |-> NoCommand]
  /\ phy = [x \in Ports \X PhyRegs |-> {}]
  /\ mdio = [x \in Ports |-> {}]
  /\ frame = [x \in Ports |-> NoCommand]
  /\ plain = [x \in PlainRegs |-> {}]
  /\ count = 0
  /\ job = [p \in Procs |-> <<>>]
  /\ at = [p \in Procs |-> 1]
  /\ tmp = [p \in Procs |-> {}]
  /\ halves = [p \in Procs |-> [high |-> 0, low |-> 0]]
  /\ total = [p \in Procs |-> 0]
  /\ begun = 0

(* A process calls a function or takes up a command; the others leave what it
   uses alone. *)
Begin(p) ==
  /\ job[p] = <<>> /\ begun < MaxJobs
  /\ \E j \in Calls :
       /\ \A q \in Procs : Uses(j) \cap Uses(job[q]) = {}
       /\ job' = [job EXCEPT ![p] = j]
  /\ begun' = begun + 1
  /\ UNCHANGED <<card, at, tmp, halves, total>>

(* The process is at this step of its access. *)
At(p, step) == job[p] # <<>> /\ Steps(Head(job[p]))[at[p]] = step

(* To the next step of the access, or to the next access. *)
Advance(p) ==
  IF at[p] < Len(Steps(Head(job[p])))
  THEN at' = [at EXCEPT ![p] = @ + 1] /\ UNCHANGED job
  ELSE at' = [at EXCEPT ![p] = 1] /\ job' = [job EXCEPT ![p] = Tail(@)]

(* Variant: the mask keeps the low half only. *)
ValueForgets(p) == LET a == Head(job[p]) IN (tmp[p] \cap a.keep \cap 0 .. 7) \cup a.set

(* What a write puts into the register: bits of what was read before, and
   bits of its own. *)
Value(p) == LET a == Head(job[p]) IN (tmp[p] \cap a.keep) \cup a.set

Unread == <<tmp, halves, total, begun>>

(* A port or register out of range: the MAC and PCS functions answer -1, the
   MDIO ones return without a value of their 16 bits. *)
Refuse(p) ==
  /\ At(p, "refuse") /\ Advance(p)
  /\ LET a == Head(job[p]) IN
     tmp' \in {[tmp EXCEPT ![p] = v] :
               v \in CASE a.write -> {tmp[p]}
                      [] ~a.write /\ a.space = "phy" -> {{}, Low16}
                      [] ~a.write /\ a.space # "phy" -> {AllOnes}}
  /\ UNCHANGED <<card, halves, total, begun>>

(* reg_write(MACx_DATA) *)
WriteData(p) ==
  /\ At(p, "data") /\ Advance(p)
  /\ data' = [data EXCEPT ![Pair(Head(job[p]))] = Value(p)]
  /\ UNCHANGED <<core, command, phy, mdio, frame, plain, count, Unread>>

(* reg_write(MACx_ADDR): the card begins what it says. *)
WriteAddr(p) ==
  /\ At(p, "addr") /\ Advance(p)
  /\ LET a == Head(job[p]) IN
     command' = [command EXCEPT ![Pair(a)] =
                   [busy |-> TRUE, write |-> a.write, address |-> Address(a)]]
  /\ UNCHANGED <<core, data, phy, mdio, frame, plain, count, Unread>>

(* usleep(100) after an address: the card has done it when it is over. *)
Sleep(p) ==
  /\ At(p, "sleep") /\ Advance(p)
  /\ ~command[Pair(Head(job[p]))].busy
  /\ UNCHANGED <<card, Unread>>

(* reg_read(MACx_DATA) *)
Fetch(p) ==
  /\ At(p, "fetch") /\ Advance(p)
  /\ tmp' = [tmp EXCEPT ![p] = data[Pair(Head(job[p]))]]
  /\ UNCHANGED <<card, halves, total, begun>>

(* What ge_mdio_random_write and _read put together, port = 3 - port. *)
Frame(p) ==
  LET a == Head(job[p]) IN
  [busy |-> TRUE, write |-> a.write, phyad |-> 3 - a.port, regad |-> a.reg, value |-> Value(p)]

WriteFrame(p) ==
  /\ At(p, "frame") /\ Advance(p)
  /\ frame' = [frame EXCEPT ![3 - Head(job[p]).port] = Frame(p)]
  /\ UNCHANGED <<core, data, command, phy, mdio, plain, count, Unread>>

(* usleep(100) after a frame. *)
Rest(p) ==
  /\ At(p, "rest") /\ Advance(p)
  /\ ~frame[3 - Head(job[p]).port].busy
  /\ UNCHANGED <<card, Unread>>

(* The frame comes back with the value: (uint16_t) takes the low half. *)
Collect(p) ==
  /\ At(p, "collect") /\ Advance(p)
  /\ tmp' = [tmp EXCEPT ![p] = mdio[3 - Head(job[p]).port] \cap Low16]
  /\ UNCHANGED <<card, halves, total, begun>>

(* reg_write and reg_read of a plain register. *)
Put(p) ==
  /\ At(p, "put") /\ Advance(p)
  /\ plain' = [plain EXCEPT ![Head(job[p]).reg] = Value(p)]
  /\ UNCHANGED <<core, data, command, phy, mdio, frame, count, Unread>>

Get(p) ==
  /\ At(p, "get") /\ Advance(p)
  /\ tmp' = [tmp EXCEPT ![p] = plain[Head(job[p]).reg]]
  /\ UNCHANGED <<card, halves, total, begun>>

(* The halves of a counter; the second one completes it. *)
ReadHalf(p, half, value) ==
  /\ At(p, half)
  /\ halves' = [halves EXCEPT ![p][half] = value]
  /\ total' = [total EXCEPT ![p] = IF at[p] = 2
                 THEN halves'[p].high * Half + halves'[p].low ELSE @]
  /\ Advance(p)
  /\ UNCHANGED <<card, tmp, begun>>

ReadHigh(p) == ReadHalf(p, "high", count \div Half)
ReadLow(p) == ReadHalf(p, "low", count % Half)

-----------------------------------------------------------------------------
(* The card. *)

(* A pair carries out what its address register was told; addresses that are
   not looked at read as nothing. *)
ServePair(x) ==
  /\ command[x].busy
  /\ LET r == <<x, command[x].address>> IN
     IF command[x].write
     THEN /\ core' = [core EXCEPT ![r] = data[x]]
          /\ UNCHANGED data
     ELSE /\ data' = [data EXCEPT ![x] = IF r \in DOMAIN core THEN core[r] ELSE {}]
          /\ UNCHANGED core
  /\ command' = [command EXCEPT ![x] = NoCommand]
  /\ UNCHANGED <<phy, mdio, frame, plain, count, job, at, Unread>>

(* An MDIO port carries out its frame; only the PHY with the number of the
   port is on its bus. *)
ServeMdio(x) ==
  /\ frame[x].busy
  /\ LET f == frame[x]
         r == <<f.phyad, f.regad>>
         there == f.phyad = x /\ r \in DOMAIN phy
     IN  /\ phy' = IF f.write /\ there THEN [phy EXCEPT ![r] = f.value] ELSE phy
         /\ mdio' = IF f.write THEN mdio
                    ELSE [mdio EXCEPT ![x] = IF there THEN phy[r] ELSE Low16]
  /\ frame' = [frame EXCEPT ![x] = NoCommand]
  /\ UNCHANGED <<core, data, command, plain, count, job, at, Unread>>

(* Traffic. *)
Traffic ==
  /\ count < MaxCount
  /\ count' = count + 1
  /\ UNCHANGED <<core, data, command, phy, mdio, frame, plain, job, at, Unread>>

Process(p) ==
  \/ Begin(p) \/ Refuse(p)
  \/ WriteData(p) \/ WriteAddr(p) \/ Sleep(p) \/ Fetch(p)
  \/ WriteFrame(p) \/ Rest(p) \/ Collect(p)
  \/ Put(p) \/ Get(p)
  \/ ReadHigh(p) \/ ReadLow(p)

Next ==
  \/ \E p \in Procs : Process(p)
  \/ \E x \in Pairs : ServePair(x)
  \/ \E x \in Ports : ServeMdio(x)
  \/ Traffic

Spec == Init /\ [][Next]_vars

-----------------------------------------------------------------------------
(* Properties. *)

Places ==
  {<<"mac", p, r>> : p \in Ports, r \in MacRegs} \cup
  {<<"pcs", p, r>> : p \in Ports, r \in PcsRegs} \cup
  {<<"phy", p, r>> : p \in Ports, r \in PhyRegs} \cup
  {<<"reg", 0, r>> : r \in PlainRegs}

Held(q) ==
  CASE q[1] = "mac" -> core[MacHome(q[2], q[3])]
    [] q[1] = "pcs" -> core[PcsHome(q[2], q[3])]
    [] q[1] = "phy" -> phy[PhyHome(q[2], q[3])]
    [] q[1] = "reg" -> plain[q[3]]

(* The write under way has reached its register; the process still sleeps. *)
Landed(p) ==
  /\ job[p] # <<>> /\ Head(job[p]).write
  /\ \/ At(p, "sleep") /\ ~command[Pair(Head(job[p]))].busy
     \/ At(p, "rest") /\ ~frame[3 - Head(job[p]).port].busy

File == INSTANCE RegisterFile WITH
  Jobs <- Calls,
  Initial <- [q \in Places |-> {}],
  Junk <- {{}, Low16, AllOnes},
  regs <- [q \in Places |-> Held(q)],
  todo <- [p \in Procs |-> IF Landed(p) THEN Tail(job[p]) ELSE job[p]],
  answer <- tmp

(* The windows, buses and plain registers behave as one register per place:
   each write reaches the register its converted arguments name and no
   other, whole, a change keeps the bits it is not about, and each read answers
   for its own register, although four MACs and four PCSs share two pairs of
   registers. *)
ImplementsRegisters == File!Spec

(* A raw write, from the menu, of the control register of a port's PCS. *)
MenuWriteTo(port) ==
  \E p \in Procs :
    /\ job[p] # <<>>
    /\ LET a == Head(job[p]) IN
       a.space = "pcs" /\ a.write /\ a.port = port /\ a.reg = 0 /\ a.keep = {}

(* The functions that set or clear a flag of a PCS read the whole control
   register and write it back through the shared window: the register of each
   port changes by one flag at a time, and never by another port's flags. *)
FlagsKept ==
  [][\A port \in Ports :
       LET old == core[PcsHome(port, 0)]
           new == core'[PcsHome(port, 0)]
       IN  old # new /\ ~MenuWriteTo(port) => \E b \in AllOnes : (old \ new) \cup (new \ old) = {b}]_vars

(* A counter that is put together from two reads while traffic runs is never
   ahead of the card's, agrees with it in the low half, and lags only by the
   carries that came in between. *)
CountNeverAhead ==
  [][\A p \in Procs :
       at[p] = 2 /\ job[p] # <<>> /\ Head(job[p]).space = "count" /\ at'[p] = 1 =>
         /\ total'[p] <= count
         /\ total'[p] % Half = count % Half]_vars

-----------------------------------------------------------------------------
(* What the lists above have in common, for any Jobs, as the
   functions get them. *)

PlaceOf(a) == <<a.space, a.port, a.reg>>

(* An access to one of the registers that are looked at, or refused; those of
   a PHY have 16 bits. *)
Listed(a) ==
  /\ a.space \in {"mac", "pcs", "phy", "reg", "count"}
  /\ a.port \in Nat /\ a.write \in BOOLEAN /\ a.set \subseteq AllOnes
  /\ a.space = "phy" => a.keep \subseteq Low16 /\ a.set \subseteq Low16
  /\ Legal(a) /\ a.space # "count" => PlaceOf(a) \in Places

(* A write that keeps bits follows the read of what it keeps. *)
Follows(a, b) ==
  b.write /\ b.keep # {} => ~a.write /\ PlaceOf(a) = PlaceOf(b)

WellListed(j) ==
  /\ Len(j) \in Nat /\ j = [i \in 1 .. Len(j) |-> j[i]]
  /\ \A i \in 1 .. Len(j) : Listed(j[i])
  /\ \A i \in 1 .. Len(j) - 1 : Follows(j[i], j[i + 1])

(* The addresses of the PCSs are within the blocks of the MACs. *)
PlacesApart == MacRegs \cap 32 .. 95 = {}

JobsListed ==
  /\ PlacesApart
  /\ \A j \in Calls : WellListed(j) /\ (j # <<>> /\ j[1].write => j[1].keep = {})

(* The control register of a PCS has 16 bits, and is written from a menu or a
   flag at a time. *)
FlagWrite(a) ==
  \/ a.keep = {} /\ a.set \subseteq 0 .. 15
  \/ \E b \in 0 .. 15 : \/ a.keep = AllOnes /\ a.set = {b}
                        \/ a.keep = 0 .. 15 \ {b} /\ a.set = {}

FlagJobs ==
  /\ 0 \in PcsRegs
  /\ \A j \in Calls : \A i \in 1 .. Len(j) :
       j[i].space = "pcs" /\ j[i].write /\ j[i].reg = 0 => FlagWrite(j[i])
=============================================================================
