# NAC capture card: verification development

The repository is the host software of the NAC network card: a user library
(`lib/`) that maps the card's registers and DMA memory into an application, a
Linux driver (`drv/`) that finds the cards and reserves their memory, and
programs on top of the library (`src/flow_test`, `src/nactool`,
`src/debugTools`). The card itself is not in the repository; what is assumed of
it is listed below.

This directory holds TLA+ models of that software, the TLC configurations that
check them, and TLAPS proofs. `PROJECT.json` lists, for machines, what is listed
here for people: components, runs, hazards, findings, theorems, and for every
definition the source lines it stands for.

## The system

| Component | State it keeps | Operations | Interacts with |
|---|---|---|---|
| Receive stream ring (`lib/nac_stream.c`) | record and limit registers, DMA pause bit, `stream->size`, the application's bottom pointer | `nac_start_stream`, `nac_advance_stream`, `nac_stop_stream` | the card (shared registers and memory), one reader thread |
| Transmit stream ring (`lib/nac_stream.c`) | record and limit registers, `offset`, `free_space`, `last_bus_bottom` | `nac_tx_get_stream_space`, `nac_tx_stream_commit_bytes`, `nac_tx_stream_copy_bytes`, `nac_tx_stop_stream` | the card, a writer thread, a stopping thread |
| Inline forwarding (`lib/nac_stream.c`) | both rings over one buffer | `nac_inline_advance_stream` | both DMAs of the card |
| Configuration and life cycle (`lib/nac_stream.c`, `lib/nacapi.c`) | `herd[]`: opened, attached, started, pbm, buf of each stream | `nac_open`, `nac_msu_configure`, `nac_inline_msu_configure`, attach, detach, `nac_close` | driver (mmap, ioctl) |
| Flow table refresh (`lib/nac_stream.c`) | stream 16 | `nac_rft_*`, `nac_write_flowtable` | the card |
| Register interface (`lib/nacapi.c`) | shared control registers, the address and data pairs of MACs and PCSs, MDIO ports, halves of counters | capture start/stop, bypass, statistics, link and PHY setters, `nactool`'s tables and menus | every thread and process that opened the card |
| I2C (`lib/nacapi.c`) | none of its own: bus masters, memories of the modules in the ports | init, random and sequential read, 16-bit write, module identification | the card, a module per port |
| Flash and remote update (`lib/nacapi.c`, `nactool.c:do_isp`) | none of its own: the flash part's cells, locks, error bits and command in progress | unlock, erase, program, read; `nactool isp`, `dsn`, `gsn` | flash part, the user who ends a tool |
| Driver memory pool (`drv/nac_mem.c`) | table of pieces, areas, `cstart` | `nac_mem_init`, `nac_mem_exit` | kernel page allocator |
| Driver boards and files (`drv/nac_main.c`) | `nac_array`, `nac_mem_inuse`, the unit of each open file | probe, remove, load and unload; open, mmap, read, write, release | PCI core, memory pool, processes |
| DUCK clock (`drv/nacts.c`) | drift, phase, two timers | interrupt, timer callbacks, ioctl; all calls of it are commented out | nothing |
| flow_test (`src/flow_test/flow_test.c`) | `list`, `verify_seq`, flags between threads | `run_rx`, `run_tx`, `anReport`, `shutdown_flow` | both rings, signals |
| nactool, debug tools, loader, 64-bit division | none of interest | | |

What makes this code hard: the card runs between any two register accesses of
the library; pointers are kept in three coordinate systems (bus address, offset,
second mapping) and are compared after one side has moved; free space is cached;
waits have no bound unless `maxwait` is set; a register behind an address and
data pair takes three accesses, and there is no lock; the driver's error paths
undo nothing, and its files outlive the cards they were opened for; and
flow_test's threads are coupled by flags which some exits forget.

## Modules

| Module | Models | Composes |
|---|---|---|
| `CaptureFifo` | what a receive stream promises: a bounded FIFO, a prefix of which is lent | |
| `NacRxRing` | one receive stream, its card and its reader | implements `CaptureFifo` |
| `NacRxRing_proofs` | theorems about it | extends `NacRxRing`, `NumberFacts` |
| `TransmitFifo` | what a transmit stream promises: a bounded FIFO | |
| `NacTxRing` | one transmit stream, its card, writer and stopping thread | implements `TransmitFifo` |
| `NacTxRing_proofs` | theorems about it | extends `NacTxRing`, `NumberFacts` |
| `NacStreams` | the life cycle of a card's streams in several processes: memory, pbms, DMA registers | rings as `NacRxRing` and `NacTxRing` run them |
| `NacStreams_proofs` | theorems about it | extends `NacStreams` |
| `NacMemPool` | the driver's memory from load to unload | |
| `NacBoards` | the driver's units under probes, removes, loading and unloading | |
| `NacFiles` | the driver's files: open, mapped, copied through, over cards that come and go | extends `NacBoards` |
| `NacDriver` | the kernel side as `nacload` puts it together | `NacMemPool` below an instance of `NacFiles` |
| `RegisterFile` | what the register functions promise: one register per place, read and written as a whole | |
| `NacRegs` | MAC, PCS, PHY, control and counter registers, access by access | implements `RegisterFile` |
| `NacRegs_proofs` | theorems about it | extends `NacRegs`, `NumberFacts` |
| `NacI2c` | the I2C functions over bus masters and module memories, byte by byte | implements `RegisterFile` |
| `NacDevices_proofs` | theorems about the pool, the boards, the files and the I2C buses | extends `NacDriver`, `NacI2c`, `NumberFacts` |
| `NacFlowRx` | flow_test's receivers, reordering and repeated rounds | |
| `NacFlowShutdown` | flow_test's threads, set-up, time-outs and shutdown | |
| `NacFlowTest_proofs` | theorems about one receiver, and about the threads | extends `NacFlowRx`, `NacFlowShutdown`, `NumberFacts` |
| `NacFlash` | `nactool isp`, `dsn` and `gsn` over the card's flash | |
| `NacFlash_proofs` | theorems about it | extends `NacFlash`, `NumberFacts` |
| `NumberFacts` | division with remainder, least elements and sequences of sequences, for the proofs | |
| `MC...` | instances for TLC, constants in the `.cfg` files | |

Definitions marked "Variant" in a module are not part of the model: each is a
mistake the code could have made, and `PROJECT.json` ("mutants") names the
property that finds it when it takes the place of the real definition.

### Correspondence with the code

*NacRxRing.* Pointers are offsets from `stream->buf` or `stream->phyaddr`; the
ring is mapped twice, so the application's pointers run to `Size + ExtraWindow`.
`pc` is where the reader is inside `nac_advance_stream`: `AdvanceBegin` reads the
record pointer (line 868), `PauseDma`, `WriteLimit` and `ResumeDma` are the three
register writes that follow, `Poll` is one round of the waiting loop,
`AdvanceReturn` its end with the arithmetic of the returned pointer. `Consume` is
the application moving its bottom over a record. `CardWrite` and `CardWrap` run
at any time in between. `SetStreamPoll` is the application choosing `mindata`
and `maxwait` before it starts the stream. `mem` holds the number of the captured byte in each cell,
so overwriting, repeating or skipping a byte is visible.

*NacTxRing.* `using` is the set of interfaces this application uses on the
stream, chosen in the initial state among `Uses`. `freeSpace` is `stream->free_space`: `SpacePoll` and `CopyPoll` are
the rounds in which the registers are read, all other grants are paid out of the
cached number. `Fill` is the application writing into granted space, `CopyFill`
the two-part memcpy; committing is a step of its own because the card sees the
limit only then. `nac_tx_stop_stream` is four actions: `StopBegin` reads the record
pointer (line 1186), `StopLimit` the limit (1187), `StopPoll` reads the record again
while the two differ, `StopEnd` pauses the DMA when they do not. The ghost `room` is
what the writer may still commit before the limit has gone all the way round to the
record that was read; `lapped` says that it had when the limit was read.

*NacStreams.* A handle is an open descriptor; what `herd` keeps for it is in
`stream`, the registers all handles share are in `block`. One action per function
that divides the memory, attaches, starts, stops or detaches; a call is one step,
since what interleaves here are calls of different processes and the end of a
process, which `Close` stands for too. `configured` and `division` are what the
callers know: the whole card is set up only while no stream is attached, and a
stream is configured again before it is attached again. The record pointer is kept
as it was last loaded. `orphans` are the streams that still run for a process that
has ended, until a program has set up the card.

*NacMemPool.* A piece is a block of pages of the order the kernel could give;
`LoadTable` takes any set of pieces, so every fragmentation is covered.
`CarveFound` and `CarveFailed` are calls of `nac_mem_findcontig` with its static
`cstart`; the loop over the table is the choice of the first slot that ends it.
`held` remembers what was taken from the kernel.

*NacBoards.* One action for each early return of `nac_init_one` and one for success:
what a probe leaves behind in between is what one of its early returns leaves.
`nac_remove_one` is four: `RemoveBegin` takes away what only the kernel sees,
`RemoveMemory` gives the area back (line 739), `RemoveRegisters` unmaps the registers
and releases their region (744-745), `RemoveClear` is the `memset` (749); there is no
lock, and the files go on in between with the fields as they are. A unit keeps what was stored in it before
the return, because
the code undoes nothing. `Load` is `nac_init`; `nac_cleanup` is `Leave`, the
removes the PCI core calls, and `Left`, with which the units of failed probes go
uncleared; the ghost `lost` keeps the areas that went with them.

*NacFiles.* `file` is `file->private_data`: a unit, not a card. `view` is the part
of an area that the process has mapped, or that `nac_mem_read` or `nac_mem_write`
is copying, in pages; `iomView` the same for the registers of a card. So that
a removal can come in the middle, a mapping and a copy last until `Finish`. The
offset of a mapping is signed and only its end is compared with what is left of the
area (`MapLimit`); the position of a read or write is not negative. The fields of a
unit are read in one step, where the code reads some twice: of an operation that is
under way while the unit is cleared the model says nothing.

*NacDriver.* The areas of `NacFiles` are what the variables of `NacMemPool` say:
carved when `vaddr` is not 0, and of the size `nac_mem()` found.
The module's steps are taken while the driver is out, the driver's while the
module is loaded.

*NacRegs.* A process works through a list of accesses: the calls of a list in `Jobs`,
with the arguments cut to the parameters' 8 or 16 bits (`Converted`, `Calls`), since the
menus of `nactool` pass whatever number was typed; bounds are checked after that
(`Legal`), and what a PHY answers is cut to 16 bits in `Collect`. Lists are built by
operators with the names of the library's functions (`SetFlag`, `CaptureStart`)
and of `nactool`'s commands (`GsetCopper`, `SsetSpeed`, `Macreg`). `Steps` says
which register accesses an access is made of, in the order of the code, and each
of them is an action: `WriteData`, `WriteAddr`, `Sleep`, `Fetch` for the MAC and
PCS pairs, `WriteFrame`, `Rest`, `Collect` for MDIO, `Put`, `Get`, `ReadHigh`,
`ReadLow`. The card takes up what it was told in `ServePair` and `ServeMdio`,
which are external, as is `Traffic`. In the refinement of `RegisterFile` a write
takes effect when the card has served it, before the process wakes (`Landed`).
Values are sets of bits, so that masks are intersections.

*NacI2c.* A function is a list of steps: a register write (`Put`), a wait for the
transfer bit, a read of the receive register. A step that settles an access to
the module's memory carries it, and the list of those is what the function
promises to `RegisterFile`. `Transfer` is one byte on the bus and is external:
the module listens, takes the byte for an address or for data, or answers.

*NacFlowRx.* `wire` holds the packets under way in the order they were sent;
`Arrivals` lets at most `network.overtakes` later ones pass any packet and `Lose`
takes at most `network.losses` away. Writing a packet
to the file is `Write`, the same for `run_rx` and `find_nextpacketinlist`;
`DrainOne` is one round of the latter. Packets carry only the number inside the
round, the ghost `idx` tells rounds apart.

*NacFlowShutdown.* Time is counted in ticks of ten seconds, the unit of the
program's sleeps and time-outs: a thread that can go on does so before the next
tick, and inside a tick the order is free. `Signal` and the `Handler...` actions
are `shutdown_flow` on the main thread; while it runs main creates nothing. What
can go wrong outside this module (a receiver gives up, no log file, a signal
during the set-up, a stalled link) happens freely, and the ghost `fault` keeps
which of it has. The handler's `exit(-1)` after a call that fails
(flow_test.c:188-210) is left out: it is met only for a stream no thread has
started yet (an early signal), and ends the process where the model goes on.

*NacFlash.* A tool's run is a constant sequence of steps, one for each call of a
library function, built by operators with the functions' names (`Isp`,
`bank_program`, `buffer_program`, ...); `run` is the place in it. `FlashWrite` is
one `flash_write`; `PollStatus`, `CheckUnlocked`, `ReadOn` and `Compare` are what
the functions do after their writes, with the early `exit()`. `Kill` is the user
ending the tool between two accesses. The three places where a size is cut into
banks, blocks and buffers are one operator, `Pieces`. A word is the set of its
ones, so that programming is intersection and `bit_swap` a reflection. The flash
part (`FirstWrite`, `LaterWrite`, `ChipDone`, `ChipFault`, `PowerCycle`) is
external; it ignores a data word sent to a ready command interface, and the command
of a buffer program and its first read of the status are one write.

## Assumed of the card and the system

* The DMA stops when record equals limit and does nothing while paused. Pausing
  takes effect with the register write.
* At the end of the buffer the record register reads `Size` until the card goes
  on. The library relies on this: `nac_rft_start` (lib/nac_stream.c:1723-1731)
  and `nac_tx_stop_stream` (lib/nac_stream.c:1186-1194) wait for record to equal
  a limit that may be the end of the buffer.
* Register reads and writes are atomic and take effect in program order.
* The flash part keeps its command interface, error bits and unlocked blocks until
  the power goes, and answers reads per bank with cells, status or identifiers. A
  read of the array needs the configuration all readers set first (0xBDDF). An
  operation under way is finished before the power goes. One tool uses it at a
  time: nothing in the code keeps two apart.
* The PCI core calls probe and remove one at a time, remove only after a
  successful probe, and at any time, files open or not (a card taken out, or
  unbound by the administrator).
* The kernel loads nac only after nacmem, whose function it calls, unloads neither
  while something uses it, and calls release after the last unmap.
* `usleep(100)` is long enough for the card to carry out what an address register,
  an MDIO register or a register of an I2C master was told.
* No two processes use the same address and data pair, MDIO port, control register
  or I2C port at a time. Nothing in the code keeps them apart: this is a premise of
  `NacRegs` and `NacI2c` (`Begin`), not a result.
* A transfer on an I2C bus ends; a module takes each byte when it comes (the code
  never looks at the acknowledge bit, nor waits for a write cycle); `nac_i2c_init`
  is called for a port before it is used.
* A signal for flow_test is handled by its main thread.

## Runs

All cfg files but `Flash.cfg` set `CHECK_DEADLOCK FALSE`: a stopped stream, a
program that has ended, an unloaded module and a process with nothing left to
call do nothing any more.

Type invariants are stated for the two rings, where they are proved and where
`TypeOK` says that no pointer leaves the double mapping. In the other modules they
would say nothing the remaining properties depend on, and are left out.

| Run | Shows |
|---|---|
| `rx_ring` | no overrun, only captured bytes lent, data intact, limit never retreats, no pointer leaves the double mapping, a bounded FIFO is implemented; with `maxwait` every byte that is more than a window behind the newest is consumed and a stalled card gets room; without it, waiting for as much as `Size - Window` bytes ends if traffic goes on |
| `tx_ring` | reservations or copies: the ring is never booked full, unsent bytes are never touched, a stop drains unless the limit came round between its two reads, a bounded FIFO is implemented; requests are served, committed bytes sent, a stop returns when the writer has ended |
| `streams` | attached streams have a pbm, started ones run over the memory their process has mapped, and a card that has been set up again writes nowhere else, whatever process has ended when |
| `streams_fewer` | finding: a program with fewer streams leaves the DMA of the others running |
| `mem_pool_odd` | finding: sizes that are no whole number of pieces |
| `driver` | areas held, disjoint and returned, the first card served whenever a run of pieces exists; units and areas exact over failing probes, removes in four steps and reloads; what files map of an area is held, nothing behind it is mapped, and files get nothing of a card that has gone |
| `regs` | every access reaches the register its converted arguments name, or none; pairs, MDIO ports and plain registers behave as one register per place; flags of a port change one at a time; a counter of two halves is never ahead |
| `i2c` | each byte read or written is the one at its address in its own module; a function leaves the bus free |
| `flow_rx` | in-order writing over several rounds, files keep coming, also after one loss; giving up only after losses |
| `flow_rx_shared` | finding: the table shared by two receivers |
| `flow_shutdown` | with every fault: no stream taken away under a receiver; without: the shutdown ends; no sender loses its stream unless its link was stalled |
| `flash` | the card is reconfigured only from a flash that holds the file; nothing outside image and logic number changes; a run fails only because of a fault or an interrupted command |

### Bounds, and why they are enough

* *Rings.* The receive ring is four windows of two bytes: the smallest ring in
  which the first, the last and two inner blocks of `WRSAFE` differ, in which
  record, limit and bottom can be on different laps, and in which a reader held
  up by the limit has read past two windows. The transmit ring has five bytes, two
  and a half windows, since only one is kept free: the limit can come round to
  any record the stopping thread has read, over two or three requests.
  A byte of the model is not a byte of
  traffic but any unit by which pointers move; the arithmetic is the same, and the
  theorems cover all sizes. `TagCount` is twice `Size`, so that no two bytes in the
  ring have the same number. The second mapping is shorter than the ring, so that
  clamping the returned pointer matters, and as long as the longest record and a
  window, less than which it cannot be if every byte is to be consumed. `mindata`
  is one window, or all the limit can leave room for. In the transmit runs `Slack`
  equals `Window` (2048 and 128 bytes in the code, both far below the ring);
  requests of every length up to `MaxRequest`, the longest that can be served,
  occur.
* *Streams.* Two streams each way and two descriptors, told apart by nothing
  (symmetry); memory of ten units, the flow table's part two. Two set-ups of the
  card, with any number of single-stream configurations: one to leave something
  behind and one to run into it. Programs configure both streams, one or both in
  `streams_fewer`.
* *Driver.* Nine slots, ten pieces, pieces of two units, requests of four pieces,
  alignment of two pieces: runs can be too short, unaligned, exactly long enough,
  at the end of the table; halvings happen; the second area starts where the first
  stopped. A unit is a page in the file operations: offsets -4 and 4 and lengths 4
  and 8 are in front of the area, across its start, within it, at its end and beyond,
  for areas of 8 and halved ones. Three
  devices for two units and at most two areas: each can run out first, and
  a unit is given to another card while one of two files is open on it. Symmetry
  over devices and files, which nothing orders.
* *Registers.* Two processes and three lists, so that two lists overlap and a third
  meets what they left. Ports of both pairs, with arguments at and just past the
  bounds, and past 8 or 16 bits, where they come round to ports and registers that
  exist, and a PHY value with a bit in its upper half; a control register, a
  status register and a link register of each PCS, MAC
  addresses 0 and 832 (the management bus clock). A half counter has two values and
  the count goes to 2: one carry, at any point between the two reads of two samples.
* *I2C.* Two processes and four calls, so that on each port an initialisation and a
  write or read come before another. Ports 0 and 2, whose masters are swapped, and
  3 have modules, 1 has none, 4 does not exist; memories of three bytes, none of
  them equal, so that a byte from a wrong place is seen.
* *flow_test receivers.* Rounds of five packets and five slots (ten in the code),
  under two networks: one in which two packets may pass a packet and none is lost,
  one in which one may pass and two are lost. Five slots hold what a single loss
  leaves behind, and not what two leave, so both recovery and giving up occur.
  Numbers are modulo two rounds, since fewer than one round is ever under way.
* *Flash.* Words of two bits, numbers of two words, buffers of two words, blocks of
  three, banks of two blocks, three banks: a block ends in a buffer that is not
  full. Three files: one that ends within a bank, one that needs a second bank for
  a word, one that reaches into the bank of the serial numbers; each with or
  without a number appended. Two runs of the tools, so that everything a first one
  leaves behind, at any access, is met by a second; one failure of the chip, which
  leaves all cells of an operation or one of them as they were.
* *flow_test threads.* Three streams of eight; with two the set-up already takes
  as long as the receivers' time-out. `capture` may be set from the start, as an
  earlier program may leave it.

### Fairness

* `FairReader`: the reader thread runs on and time passes. Nothing is assumed of
  traffic; `AdvanceReturns`, about calls without `maxwait`, has it as a premise.
* `NacTxRing!FairSpec`: writer, stopping thread and card run on; the link drains.
* `NacFlowRx!FairSpec`: threads run; packets under way arrive.
* `NacFlowShutdown!FairShutdownSpec`: threads and time go on; signals, faults and link
  changes need not happen.

All are weak fairness of steps that stay enabled until taken, as the scheduler
of the operating system gives to runnable threads.

## Proofs

The theorems hold for all values of the constants, under the named ASSUMEs of the
modules (sizes positive, the ring a multiple of the window, and the like) and the
premises in the last column. Each premise is there because the property is false
without it; where a run or an instance shows that, it is named below.

| Theorem | Says | Premise |
|---|---|---|
| `NacRxRing_proofs!TypeCorrect` | `[]TypeOK` | |
| `NacRxRing_proofs!NeverOverrun` | `[]NoOverrun` | |
| `NacRxRing_proofs!OnlyCapturedLent` | `[]LentIsCaptured` | |
| `NacRxRing_proofs!LimitNeverRetreats` | `LimitOnlyAdvances` | |
| `NacRxRing_proofs!RefinesFifo` | `ImplementsFifo` | |
| `NacTxRing_proofs!TypeCorrect` | `[]TypeOK` | `OneInterface` |
| `NacTxRing_proofs!NeverOverbooked` | `[]NeverFull` | `OneInterface` |
| `NacTxRing_proofs!StopAfterDrain` | `StopDrains` | `OneInterface` |
| `NacTxRing_proofs!UnsentKept` | `[]UnsentIntact` | `OneInterface` |
| `NacTxRing_proofs!RefinesFifo` | `ImplementsFifo` | `OneInterface` |
| `NacStreams_proofs!Usable` | `[]AttachedUsable` | |
| `NacStreams_proofs!OwnMemory` | `[]RunsWhatItMaps` | |
| `NacStreams_proofs!WritersStarted` | `[]OnlyStartedWrite` | `Counts \subseteq {N}` |
| `NacDevices_proofs!PoolHeld` | `[]AreaHeld` | `WholePieces` |
| `NacDevices_proofs!PoolReturned` | `[]AllReturned` | `WholePieces` |
| `NacDevices_proofs!FirstServed` | `FirstCardServed` | |
| `NacDevices_proofs!DriverRefinesPool` | the driver implements the memory pool | |
| `NacDevices_proofs!Served` | `[]BoundServed` | |
| `NacDevices_proofs!AreasCounted` | `[]AreasExact` | |
| `NacDevices_proofs!StaleRefused` | `StaleFileRefused` | |
| `NacDevices_proofs!DriverPoolHeld` | `[](AreaHeld /\ AllReturned)` | `WholePieces` |
| `NacDevices_proofs!DriverFirstServed` | `FirstCardServed` | |
| `NacDevices_proofs!MappedMemoryHeld` | `[]MappedHeld` | `WholePieces` |
| `NacFlowTest_proofs!WrittenInOrder` | `[]InOrder` | `OneReceiver` |
| `NacFlowTest_proofs!GivesUpAfterLoss` | `[]LostMeansLost` | `OneReceiver` |
| `NacFlowTest_proofs!ReceiversKept` | `[]RxDetachedUnused` | |
| `NacFlowTest_proofs!SendersKept` | `[]TxDetachedUnused` | `IdleLimit >= 2` |
| `NacRegs_proofs!RegistersImplemented` | `ImplementsRegisters` | `JobsListed` |
| `NacRegs_proofs!CounterBehind` | `CountNeverAhead` | `JobsListed` |
| `NacRegs_proofs!FlagsChange` | `FlagsKept` | `JobsListed`, `FlagJobs` |
| `NacFlash_proofs!OthersSurvive` | `[]OthersKept` | |
| `NacFlash_proofs!UpdateVerified` | `ReconfiguredIsImage` | |
| `NacFlash_proofs!FailureExplained` | `[]FailsOnlyByFault` | |
| `NacDevices_proofs!BusFreed` | `[]BusLeftFree` | `LibraryCalls` |
| `NacDevices_proofs!MemoryImplemented` | `ImplementsMemory` | `LibraryCalls` |

The inductive invariants are theorems too: `Invariance` for the two rings,
`StreamsInductive`, `PoolInductive`, `DriverInductive`, `FlowInductive`, `RegsInductive`,
`FlashInductive`, `UpdateInductive`, `SuccessInductive` and `BusInductive`; the two about flow_test's threads are the lemmas
`OrderStep` and `LastIdleStep`.

*Receive.* `NoOverrun` says that pending bytes and the card's room fit in the
ring. It is not inductive, because room depends on which lap the limit is on.
`IInv` says it in the reader's coordinates: either the limit is ahead of record
on the lap the reader is on (`ThisLap`), or it is one window below a block
boundary the reader has reached, one lap on (`NextLap`). Writing the limit goes
from either to either, depending on whether `WRSAFE` wrapped (`AfterWrsafe`);
consuming keeps both; a card write or wrap keeps the one that holds. The value
of record that the call has read and not used yet is old but never new
(`OffsetInv`), which gives `LentIsCaptured`. That masking finds the greatest
multiple of the window below a pointer is the lemma `AlignFacts`.

*Transmit.* `IInv` keeps an account: cached free space, the grant in progress and
the backlog never exceed what can be free (the ring, less a window for copies),
and the grant and the backlog together stay below the ring. With it, the position
of the limit relative to record is the backlog, around the end or not, and what a
stopping thread still waits for ends at the limit it has read. For the thread that has
read the record and not yet the limit, `LapInv` keeps how far the limit may still go
before it is at that record again (`room`); only there do two equal reads not mean that
all is sent, which is the exception in `StopDrains`. `OneInterface`: with
`Uses = {{"space", "copy"}}` TLC finds `UnsentIntact` violated.

*The FIFOs.* In both rings a byte of the abstract queue lies in the cell its place
has modulo the size (`Cell`). The steps are sorted by what they do to the queue
(`StepKinds`: a byte comes, bytes go, nothing), and for each kind it is shown that the cells of
the remaining bytes are the same ones before and after, also across the end of the
buffer and where the second mapping is left for the first (`NormaliseCells`), and
that the cell that is written holds none of them (`WrittenCell`). For the transmit
ring this is a second invariant, `Unsent`: the backlog is numbered without gaps up
to the last byte written.

*Streams.* That a running stream uses its own memory relates registers of the card, the
record of a handle and what callers agreed on, written by calls of different
processes. `StreamsInv` says that they agree for every stream that may be attached,
long before it is (`PreparedInv`), that `nac_proc_config` finds what `nac_proc_init`
of another process left (`ProcInv`), and that one handle at most uses a stream.
`WritersStarted` needs that all programs configure the same number of streams: run
`streams_fewer` is the counterexample otherwise.

*Memory pool.* `PoolInv`: each piece is in one slot at most, an area consists of pieces
over its whole length, and what is held is in the table or in exactly one area. The
step that matters is `nac_mem_findcontig`: a run of slots it accepts holds
successive pieces (`RunPieces`), as many as the area needs if that is a whole number
(`WholePieces`; run `mem_pool_odd` shows what happens otherwise). `FirstServed` has an
invariant of its own, that the table is sorted until the first area is taken.

*Driver.* Every step of `NacDriver` is a step of `NacMemPool` or leaves its variables
alone (`DriverRefinesPool`), so what is proved of the pool is inherited. `DriverInv`
relates five tables that the code keeps apart: the units, `nac_mem`'s use counts,
the kernel's regions, the devices' driver data and the open files; a free unit has
neither memory nor registers, and no two units share either. From both comes
`MappedMemoryHeld`: a process can have mapped the area of a card that is gone, and
it is still held. While `nac_remove_one` is at work its unit still has fields that are
no longer its own: `RemoveInv` says which card and step that is, `Leaving` and `Holds`
leave that unit out of the use counts and regions once its part has been given back,
and everything else of `DriverInv` holds throughout.

*flow_test's receivers.* Packets carry only their place in the round, so the thread writes the
right one only if nothing a round away can be in its hands, and its table suffices
only if few packets are early. `FlowInv` counts in distances from the packet the file
needs: for every packet under way, its distance, those behind it and those that have
overtaken it add up to what has been sent (`Counted`); what list holds has overtaken
whatever is still missing (`Overtaken`); nothing is missing or there twice
(`Complete`, `Apart`). Four lemmas about distances alone (`FlowSend`, `FlowTake`,
`FlowKeep`, `FlowDrain`) say that sending, writing, keeping and finding a packet keep
this; the rest connects them to sequences and numbers modulo a round (`SeqnumFacts`).
`OneReceiver` bounds the packets that can overtake one by the slots of list and by
half a round; in instances with three packets in a round or one slot, and two that
may overtake, TLC finds `InOrder` and `LostMeansLost` violated, and run
`flow_rx_shared` is the counterexample for two receivers.

*flow_test's shutdown.* The handler waits for the receivers' flags, so their safety
follows from the order of its steps (`OrderInv`). For senders it does not wait; that
they have left first follows from time, by way of the last receiver: it is idle for
two ticks only after a whole tick of the shutdown, before which every sender had left
(`LastIdle`). With `IdleLimit = 1` TLC finds `TxDetachedUnused` violated.

*Registers.* A function that goes through a pair of an address and a data register
makes three accesses, and what it means depends on who else uses the pair in between.
`RegsInv` says of each process, at each step of each kind of access, what the pair or
the MDIO port holds (`WindowAt`, `ManagedAt`): what this process put there, and then
either an order the card has still to carry out or what that order has done. `KeptOf`
says that what was read before a change is still in the register. Two things carry it:
nobody else uses what a process uses (`Apart`, which `Begin` establishes), and an access
of one process leaves pairs, ports and places of the others alone (`Undisturbed`,
`OthersStay`), for which the addresses of MACs and PCSs must not meet. The card's step
that carries out an order is the one that changes the abstract register (`Landed`);
all others are stutters of `RegisterFile` or its reads (`FileStep`). `JobsListed` says
what the lists of accesses, once their arguments are converted, have in common that the
library and `nactool` build, instead of the lists themselves, so the theorems hold for any of that kind; TLC evaluates it,
and `FlagJobs`, on the lists of the run. For `FlagsKept` a second invariant, `FlagInv`,
says that a control register has no more than its 16 bits, so that a mask of 16 bits
loses none.

*Flash, the cells.* `OthersKept` is not inductive: a killed tool leaves the chip within a
command, and the next one, which knows nothing of it, completes it by what it writes.
`FlashInv` says that whatever the chip may change, in whichever state its command
interface is, and whatever the tool has left to write, lies in the banks of the image and
the block of the logic number. An erase stays there since these are whole blocks; `gsn`,
which appends a number to the file, only makes them more. That all writes of an update go
there is shown from its parts, through `Pieces` and `FlattenSeq`, whose elements are found
by induction over numbers in the form of least counterexamples (`UpTo`), without the
library's induction theorems.

*Flash, the update.* `ReconfiguredIsImage` depends on what an earlier, killed run has left,
since the first writes of the next run may be data to it. `UpdateInv` says that a run of
`isp` is either in step with the chip (`InStep`: the command the chip is within is the one
the tool is writing) or behind by no more writes than come before the first erase is over
(`Behind`); that from the reading on the chip is ready, in the mode the access needs and
reads its array (`LateInv`); that the words read so far are those of the cells they are to
be compared with (`ReadBack`, `Covered`); and that after the comparison the cells hold the
file (`Written`). That needs to know which command each step of the update is and where:
`IspParts`, `IspSteps` and `LatePlace` list them for every image. `BufferAssumption` bounds
how far behind the chip can be: a buffer takes 32 words (lib/nacapi.c:1331), and
unlocking and erasing a bank of 8 blocks makes more writes than that. TLC found no
violation in an instance without it; the argument, which does not look at what the
data of a buffer are, does not work there. The invariant was checked by TLC on run `flash`
before it was proved.

*Flash, why an update succeeds.* `FailsOnlyByFault` is about a whole run: that no check
fails follows from what every step before has done to locks, error bits and cells.
`SuccessInv` adds to `UpdateInv` that, in an update that has met no failure and whose image
leaves the bank of the number alone, the chip is exactly where the writes so far bring it
(`On`), that the error bits are clear once the second step has cleared them, and that every step behind
has achieved, and nothing has undone since, what it is for (`Made`): its block is unlocked,
the cells of the block it erased have every bit the file wants there (`Aim`), the words it
gave are in their cells. The last needs the order of the steps (`Prepared`, shown for every
image by `IspPrepared`): each block is unlocked before it is erased, erased before it is
programmed, and not erased afterwards. Then the status is read as status and shows no error
(`NoError`), the block reads as unlocked (`NotLocked`), and what is read back is the file
(`NoDifference`). For an image that reaches the block of the number `Prepared` is false, as
the number's erase comes after the image's programming: the exception in the property is
needed. TLC found no violation of that part of `SuccessInv` on the instance of run `flash`
before it was proved.

*I2C.* What a byte does depends on the ones before it: after a start it is an address of
a module, then one in its memory, then data. So `BusInv` is about what a call has been
told of its bus (`Known`): what the module takes the next byte for, its memory address,
the command under way, the byte that goes out and where the one received is from.
`Proper` says when a step comes right, knowing that: no command while another is under
way, no wait for a transfer that is not determined, a byte fetched or sent for the place
its access names. `After` is what is known then, and `Leads` and `FitsCall` chain
both through a list of steps, which `CallFits` shows for every function, address and
length; for a sequential read it says byte by byte what is known before each step
(`LeadsReceive`), for the vendor id it is an induction over the calls (`VendorFits`).
`BusInv` says that the steps left fit a knowledge that agrees with the registers of the
master and with the module, or will agree when the wait that comes next has noticed that
its transfer is over (`Ended`). A transfer can end only for
the call that waits for it (`TransferAt`), and what it does is what that call knows
(`TransferOver`). The refinement follows step by step: a `Transfer` that stores a
byte is the write of `RegisterFile`, a fetch is its read, all else a stutter
(`NothingDone`). `LibraryCalls` says that calls are those of the library, within the
memory and with bytes; TLC evaluates it on the calls of the run. TLC cannot evaluate `BusInv` itself,
which asks for a knowledge among all there could be.

Only model-checked, and why:

* liveness: no theorem about fairness or ENABLED is within reach of the prover;
* the distances of two or more receivers: the property is false there.

## Findings

Each is a run that TLC ends with a counterexample to something a comment or a
message of the repository says; `PROJECT.json` quotes both.

* `mem_pool_odd`: `nac_mem_findcontig` takes too few slots for sizes that are not a
  whole number of pieces.
* `streams_fewer`: `nac_msu_configure` stops only the streams it configures, and one
  that was left running above them writes into another stream's buffer.
* `flow_rx_shared`: the reorder table is shared by all receivers of flow_test, and
  one gives up although nothing was lost.

The models also show limits of use, which their constants and premises state:

* The returned window of `nac_advance_stream` may hold up to one safety window less
  than `mindata`; the loop's condition is about bytes captured (`TopOf`).
* The two transmit interfaces cannot be mixed on a stream: a copy spends cached free
  space that was computed without a safety window for a reservation. No program of
  the repository mixes them.
* Once the first card has taken slot 0, `nac_mem_findcontig` fails on every retry:
  a failure sets `cstart` to 0 (drv/nac_mem.c:487), and an empty slot there ends the
  search at line 450. `FirstCardServed` speaks of the first card only.
* `do_isp` does not look whether the image leaves the bank of the serial numbers
  alone: a larger one is overwritten by the number and never verifies, and the
  hardware number is lost (`FailsOnlyByFault`, `OthersKept`). A file of 8 bytes or
  less makes its sizes wrap, and one larger than the flash reaches past its end
  (`FileAssumption` leaves out both); a file without a number loses its
  last words to it.
* A tool killed between the writes of a command makes the next run fail or write
  into bank 0, whose image is incomplete or not verified then; it takes another
  run, or a power cycle.
* Copies above `Size - Window` and reservations above `Size - Slack` pass the size
  checks and are never served: `RequestServed` fails with a larger `MaxRequest`.
* A stream that is detached and attached again without being configured in between
  has a freed pbm (`NacStreams!Detach` takes the stream out of `configured`).
* In overlap mode a transmit stream starts with a limit of 0 and keeps its old end
  address (`RunsWhatItMaps` excepts it).
* `nac_proc_init` places the flow table behind `NUM_STREAM` streams: with fewer of
  them it lies outside the card's memory.
* The flow table's DMA loads its address before the address is written
  (`RftLoaded`), and `nac_rft_start` follows a pbm nothing allocates.
* Failed probes keep their unit until the driver is unloaded, and their area until
  nacmem is (`lost`).
* `nac_tx_stop_stream` does not wait if the limit has come round to the record pointer
  it read before (lib/nac_stream.c:1186-1188): a writer that fills the ring between the
  two reads leaves up to a ring of committed bytes unsent under a paused DMA
  (`lapped` in `StopDrains`).
* `nac_remove_one` gives the area back and unmaps the registers before it clears the
  unit (drv/nac_main.c:739-749), and nothing keeps an open file away: an operation in
  between is given an area that is free, and may be another card's next, or
  registers that are not mapped (`FreshlyMapped` excepts it). `BoundServed` speaks of
  cards until their removal begins.
* The offset of a mapping is signed: a negative one makes what is left of the area larger
  and passes the check (drv/nac_main.c:381-393), and the pages in front of the area are
  mapped too. `MappedHeld` says nothing of those, only that none behind the area is
  mapped.
* The numbers typed into `nactool`'s menus are cut to 8 or 16 bits before they are
  checked: port 0x100 is port 0, register 0x100 of a PCS register 0, and a PHY is
  written the lower half of the value (`Converted`). The menu prints the numbers
  as they were typed.
* A file keeps its unit when its card is removed; if the unit is given to another
  card, the file reaches that card. A mapping of the removed card's area stays, and
  the next card may be given the area: it is held memory (`MappedHeld`), not the
  removed card's alone.
* Two processes that use the same pair of an address and a data register read each
  other's answers and write to each other's registers (`NacRegs!Begin` keeps them
  apart; nothing in the code does). MAC addresses below 512 of `nactool`'s menu
  include those of the PCSs, so a raw write there can be a write to a PCS.
* A counter read while its low half wraps is too small by a half
  (`CountNeverAhead` bounds it from above), and the difference of two samples in
  `do_gstats` is wrong by it.
* `do_sset` with speed 1000 resets the PHY before it refuses (`SsetSpeed`).
* `nac_wait_trans_done` polls without limit; `nac_i2c_sequential_read` of no bytes
  writes in front of its buffer (`ReadBytes` is for one or more).
* A file of one packet (`TxCount = 1`) is opened and never closed (`ClosesFile`).
* A network that lets more than half of a file's packets overtake one makes a receiver
  write a packet of the next round in the place of one of this (`OneReceiver`).
* `ShutdownEnds` and `TxDetachedUnused` exclude the faults: a receiver that gave up,
  a missing log file or a signal during the set-up leave a flag unset for ever, and
  a stalled sender can outlive its stream. The receivers' time-out can also pass
  while main is still setting up (`RxIdleOut` needs no capture).

## Not modelled, and the plan

Next, in this order:

1. `NacRxRing`: restarting a stopped stream, a stop from another thread,
   `nac_get_next_record`, `nac_clear_buf`; `NacTxRing`: restarting.
2. `NacStreams`: failures of `nac_open` and `nac_proc_config`; `nac_proc_rft_config`.
3. `NacFlowShutdown`: a second signal inside the handler.

Left out, and why:

* *DUCK clock* (`drv/nacts.c`) and the 64-bit division it uses (`drv/divdi3_*.c`):
  every call is commented out (drv/nac_main.c:144, 526, 659, 734), so
  nothing of it runs. A model of it would have no environment to be checked in.
* *Inline forwarding* (`nac_inline_advance_stream`): no program calls it, and in the
  overlap mode it is meant for the transmit stream's address is assigned to itself
  (lib/nac_stream.c:1019-1024), so the DMA starts with a limit of 0.
  The set-up for it is in `NacStreams`.
* *Flow table refresh* (`nac_rft_*`): its start follows the pbm of stream 16, which
  nothing allocates. The set-up of its DMA registers is in `NacStreams`.
* *Semaphores* (`semop_p` and its siblings): one system call each, called by nobody.
* `nac_set_timer_interval`: one register write of a product that wraps for intervals
  above 42 seconds. `nac_init` of the driver with failing calls of the
  kernel: it returns success when `alloc_chrdev_region` fails.
* `nactool`'s command line and bandwidth report, the debug tools, device nodes made
  by `drv/nacload`, formatting and printing everywhere: no state worth a model.
* `lib/nac_stream.c.orig` and `.pre` are older copies of the file that is built.
