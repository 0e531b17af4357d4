------------------------------- MODULE NacFlash -------------------------------
(***************************************************************************)
(* The update of the card's configuration flash: `nactool isp', which      *)
(* programs an image and its serial number, verifies and reconfigures,     *)
(* `nactool dsn', which shows the serial numbers, and `nactool gsn', which *)
(* appends one to an image file (src/nactool/nactool.c), over the flash    *)
(* functions of the library (lib/nacapi.c).                                *)
(*                                                                         *)
(* A run of a tool is a fixed sequence of steps, one for each library      *)
(* function it calls: the commands the function writes to the chip, and    *)
(* what it reads afterwards.  It may leave the sequence after any step, by *)
(* exit(), and the user may kill it between any two accesses; what the     *)
(* chip was in the middle of then is what the next run meets.              *)
(*                                                                         *)
(* The chip is external and modelled as far as the library relies on it:   *)
(* a command interface that takes two or more writes to a command, banks   *)
(* that answer reads with cells, status or identifiers, sticky error bits, *)
(* blocks locked when the power comes on, and cells in which programming   *)
(* only clears bits.  A chip may fail and say so, or fail silently.        *)
(*                                                                         *)
(* One tool runs at a time: nothing in the code keeps two apart.           *)
(* A word is the set of its bits that are 1.                               *)
(***************************************************************************)
EXTENDS Integers, Sequences, SequencesExt

CONSTANTS
  WordBits,    \* 16
  BufferWords, \* 32
  BlockWords,  \* BLOCK_SIZE_W
  Blocks,      \* blocks of a bank (8)
  SerialBank,  \* the bank of the serial numbers (14), here also the last
  SerialWords, \* words of a serial number (4)
  Images,      \* image files without a serial number
  OldCells,    \* what the flash holds at first
  NewSerial,   \* the number a user enters for gsn
  MaxRuns,     \* bound: runs of a tool
  MaxFaults    \* bound: failures of the chip

BankWords == Blocks * BlockWords
Bank == 0 .. SerialBank
Addr == 0 .. BankWords * (SerialBank + 1) - 1
Word == SUBSET (0 .. WordBits - 1)
Ones == 0 .. WordBits - 1

BankOf(a) == a \div BankWords
BlockOf(a) == a \div BlockWords
BlockAt(b, k) == b * BankWords + k * BlockWords
AllBlocks == {BlockOf(a) : a \in Addr}
CellsOf(blk) == blk * BlockWords .. (blk + 1) * BlockWords - 1

\* The bits of the status register that say what went wrong: SR3, SR4, SR5, SR1.
ErrorBits == {"VPP", "program", "erase", "lock"}

\* Files that exist at some time: gsn appends to what is there.
Files == Images \cup {f \o NewSerial : f \in Images}

ASSUME FlashAssumption ==
  /\ WordBits \in Nat \ {0} /\ BufferWords \in Nat \ {0}
  /\ BlockWords \in Nat \ {0, 1, 2} /\ Blocks \in Nat \ {0, 1}
  /\ SerialBank \in Nat \ {0} /\ SerialWords \in 1 .. BlockWords
  /\ OldCells \in [Addr -> Word]
  /\ MaxRuns \in Nat /\ MaxFaults \in Nat

\* do_isp() computes the size of the image as the size of the file less 8; the
\* file fits the flash, also when gsn has appended a number to it.
ASSUME FileAssumption ==
  /\ NewSerial \in Seq(Word) /\ Len(NewSerial) = SerialWords
  /\ \A f \in Images : /\ f \in Seq(Word)
                       /\ Len(f) \in SerialWords + 1 .. BankWords * (SerialBank + 1)

\* Unlocking and erasing a bank makes more writes than a killed tool may have
\* left the chip waiting for: 32 words to a buffer, 8 blocks to a bank.
ASSUME BufferAssumption == BufferWords <= 4 * Blocks + 2

VARIABLES
  chip,      \* the flash
  file,      \* the image file
  run,       \* the tool at work: which, its step, writes done, words read
  result,    \* how the last run ended
  runs,      \* runs so far, up to MaxRuns
  faults,    \* failures of the chip so far, up to MaxFaults
  disturbed  \* ghost: the run met a failure, or a chip left in mid-command

vars == <<chip, file, run, result, runs, faults, disturbed>>

(***************************************************************************)
(* The steps: what each function of the library writes, and how it ends.   *)
(***************************************************************************)
Write(a, c) == [addr |-> a, cmd |-> c, word |-> {}, n |-> 0]
Data(a, w) == [addr |-> a, cmd |-> "data", word |-> w, n |-> 0]
Count(a, k) == [addr |-> a, cmd |-> "count", word |-> {}, n |-> k]

\* then: what follows the writes; at: the address or addresses it reads.
Step(writes, then, at) == [writes |-> writes, then |-> then, at |-> at]

bit_swap(w) == {WordBits - 1 - b : b \in w}

\* 0xBDDF for asynchronous reads, 0x3DDF for synchronous ones: the value is
\* passed as an address, one in the first block in both cases.
AsyncMode == 1
SyncMode == 0

set_config_register(m) ==
  Step(<<Write(m, "0x60"), Write(m, "0x03")>>, "next", <<>>)
clear_stats_regs == Step(<<Write(0, "0x50")>>, "next", <<>>)
word_program(a, w) == Step(<<Write(a, "0x40"), Data(a, w)>>, "programmed", <<a>>)

\* words are given as they are in the file
buffer_program(a, words) ==
  Step(<<Write(a, "0xE8"), Count(a, Len(words) - 1)>>
         \o [i \in DOMAIN words |-> Data(a + i - 1, bit_swap(words[i]))]
         \o <<Write(a, "0xD0")>>,
       "programmed", <<a>>)

block_unlock(b, k) ==
  Step(<<Write(BlockAt(b, 0), "0x60"), Write(BlockAt(b, k), "0xD0"),
         Write(BlockAt(b, 0), "0x90")>>, "unlocked", <<BlockAt(b, k) + 2>>)
block_erase(b, k) ==
  Step(<<Write(BlockAt(b, 0), "0x20"), Write(BlockAt(b, k), "0xD0")>>,
       "erased", <<BlockAt(b, 0)>>)

\* The array is read from the word at first on, n words; a number is kept
\* with its high word first, and is low word first in the file.
read_bank(b, n) == Step(<<Write(BlockAt(b, 0), "0xFF")>>, "append",
                        [i \in 1 .. n |-> BlockAt(b, 0) + i - 1])
read_num(k, then) ==
  <<set_config_register(AsyncMode), clear_stats_regs,
    Step(<<Write(BlockAt(SerialBank, 0), "0xFF")>>, then,
         [i \in 1 .. SerialWords |-> BlockAt(SerialBank, k) + SerialWords - i])>>
read_logic_num(then) == read_num(0, then)
read_hardware_num(then) == read_num(1, then)

\* words in pieces of n, the last of which may be shorter
Pieces(words, n) ==
  [i \in 1 .. (Len(words) + n - 1) \div n |->
     SubSeq(words, (i - 1) * n + 1, IF i * n < Len(words) THEN i * n ELSE Len(words))]

block_program(b, k, words) ==
  LET bufs == Pieces(words, BufferWords)
  IN [i \in DOMAIN bufs |-> buffer_program(BlockAt(b, k) + (i - 1) * BufferWords, bufs[i])]
bank_program(b, words) ==
  LET blks == Pieces(words, BlockWords)
  IN FlattenSeq([k \in DOMAIN blks |-> block_program(b, k - 1, blks[k])])
\* Variant: the loop ends a block early.
bank_unlock_short(b) == [k \in 1 .. Blocks - 1 |-> block_unlock(b, k - 1)]
bank_unlock(b) == [k \in 1 .. Blocks |-> block_unlock(b, k - 1)]
bank_erase(b) == [k \in 1 .. Blocks |-> block_erase(b, k - 1)]

\* Variant: the whole bank is erased.
set_logic_num_bank(sn) ==
  <<set_config_register(AsyncMode), clear_stats_regs>>
  \o bank_unlock(SerialBank) \o bank_erase(SerialBank)
  \o [i \in 1 .. SerialWords |->
        word_program(BlockAt(SerialBank, 0) + i - 1, sn[SerialWords + 1 - i])]

set_logic_num(sn) ==
  <<set_config_register(AsyncMode), clear_stats_regs,
    block_unlock(SerialBank, 0), block_erase(SerialBank, 0)>>
  \o [i \in 1 .. SerialWords |->
        word_program(BlockAt(SerialBank, 0) + i - 1, sn[SerialWords + 1 - i])]

\* A file is the image and, in its last 8 bytes, the serial number.
ImageOf(f) == SubSeq(f, 1, Len(f) - SerialWords)
SerialOf(f) == SubSeq(f, Len(f) - SerialWords + 1, Len(f))
BanksOf(f) == Pieces(ImageOf(f), BankWords)

reconfig == Step(<<>>, "reconfig", <<>>)

\* do_isp()
Isp(f) ==
  LET banks == BanksOf(f)
      Each(op(_)) == FlattenSeq([b \in DOMAIN banks |-> op(b - 1)])
      Program(b) == bank_program(b, banks[b + 1])
  IN <<set_config_register(AsyncMode), clear_stats_regs>>
     \o Each(bank_unlock) \o Each(bank_erase) \o Each(Program)
     \o set_logic_num(SerialOf(f)) \o read_logic_num("show")
     \o [b \in DOMAIN banks |-> read_bank(b - 1, Len(banks[b]))]
     \o read_logic_num("append")
     \o <<Step(<<>>, "compare", <<>>),
          set_config_register(SyncMode), reconfig>>
IspOf == [f \in Files |-> Isp(f)]

\* do_dsn()
Dsn == read_hardware_num("show") \o read_logic_num("show") \o <<Step(<<>>, "close", <<>>)>>

Steps == IF run.tool = "isp" THEN IspOf[file] ELSE Dsn
Now == Steps[run.pc]

(***************************************************************************)
(* The chip.                                                               *)
(***************************************************************************)
Locked(a) == BlockOf(a) \in chip.locked
Busy == chip.cui.st = "busy"
Ready == [st |-> "ready", left |-> 0, buf |-> {}]

SequenceError == [chip EXCEPT !.cui = Ready, !.sr = @ \cup {"program", "erase"}]

\* The first write of a command.
FirstWrite(w) ==
  CASE w.cmd \in {"0x60", "0x20", "0x40", "0xE8"} ->
         [chip EXCEPT !.cui.st = w.cmd, !.read[BankOf(w.addr)] = "status"]
    [] w.cmd = "0x50" -> [chip EXCEPT !.sr = {}]
    [] w.cmd = "0x90" -> [chip EXCEPT !.read[BankOf(w.addr)] = "id"]
    [] w.cmd = "0xFF" -> [chip EXCEPT !.read[BankOf(w.addr)] = "array"]
    [] OTHER -> chip

\* An operation starts, unless its block is locked; op is the kind of
\* error, buf the cells that change and what they change to.
StartOperation(a, op, buf) ==
  IF Locked(a) THEN [chip EXCEPT !.cui = Ready, !.sr = @ \cup {op, "lock"}]
  ELSE [chip EXCEPT !.cui = [st |-> "busy", left |-> 0, buf |-> buf]]

Programmed(buf) == {<<p[1], chip.cells[p[1]] \cap p[2]>> : p \in buf}

LaterWrite(w) ==
  CASE chip.cui.st = "0x60" ->
         IF w.cmd = "0xD0"
         THEN [chip EXCEPT !.cui = Ready, !.locked = @ \ {BlockOf(w.addr)}]
         ELSE IF w.cmd = "0x03" THEN [chip EXCEPT !.cui = Ready, !.config = w.addr]
         ELSE SequenceError
    [] chip.cui.st = "0x20" ->
         IF w.cmd = "0xD0"
         THEN StartOperation(w.addr, "erase",
                             {<<a, Ones>> : a \in CellsOf(BlockOf(w.addr))})
         ELSE SequenceError
    [] chip.cui.st = "0x40" ->
         StartOperation(w.addr, "program", Programmed({<<w.addr, w.word>>}))
    [] chip.cui.st = "0xE8" ->
         IF w.cmd = "count"
         THEN [chip EXCEPT !.cui = [st |-> "load", left |-> w.n + 1, buf |-> {}]]
         ELSE SequenceError
    [] chip.cui.st = "load" ->
         [chip EXCEPT !.cui = [st |-> IF chip.cui.left = 1 THEN "confirm" ELSE "load",
                               left |-> chip.cui.left - 1,
                               buf |-> chip.cui.buf \cup {<<w.addr, w.word>>}]]
    [] chip.cui.st = "confirm" ->
         IF /\ w.cmd = "0xD0"
            /\ \A p \in chip.cui.buf : BlockOf(p[1]) = BlockOf(w.addr)
         THEN StartOperation(w.addr, "program", Programmed(chip.cui.buf))
         ELSE SequenceError
    [] OTHER -> chip \* busy

AfterWrite(w) == IF chip.cui.st = "ready" THEN FirstWrite(w) ELSE LaterWrite(w)

\* One word of the array, if the bank answers with the array.
Cell(a) == IF chip.read[BankOf(a)] = "array" /\ chip.config = AsyncMode /\ ~Busy
           THEN chip.cells[a] ELSE {}

Changed(buf) == [a \in Addr |-> IF \E p \in buf : p[1] = a
                                THEN (CHOOSE p \in buf : p[1] = a)[2]
                                ELSE chip.cells[a]]

ChipDone ==
  /\ Busy
  /\ chip' = [chip EXCEPT !.cui = Ready, !.cells = Changed(chip.cui.buf)]
  /\ UNCHANGED <<file, run, result, runs, faults, disturbed>>

\* The operation leaves all of its cells as they were, or one of them, and
\* the chip may or may not say so.
ChipFault(reported) ==
  /\ Busy /\ faults < MaxFaults
  /\ faults' = faults + 1
  /\ disturbed' = TRUE
  /\ \E failed \in {chip.cui.buf} \cup {{p} : p \in chip.cui.buf} :
       chip' = [chip EXCEPT !.cui = Ready, !.sr = @ \cup reported,
                            !.cells = Changed(chip.cui.buf \ failed)]
  /\ UNCHANGED <<file, run, result, runs>>

\* The power goes off and on while no tool runs and no operation is under way.
PowerCycle ==
  /\ run.tool = "none" /\ ~Busy
  /\ chip' = [chip EXCEPT !.cui = Ready, !.sr = {}, !.config = SyncMode,
                          !.locked = AllBlocks,
                          !.read = [b \in Bank |-> "array"]]
  /\ UNCHANGED <<file, run, result, runs, faults, disturbed>>

(***************************************************************************)
(* The tools.                                                              *)
(***************************************************************************)
Idle == [tool |-> "none", pc |-> 0, k |-> 0, out |-> <<>>]

Init ==
  /\ chip = [cells |-> OldCells, cui |-> Ready, sr |-> {}, config |-> SyncMode,
             locked |-> AllBlocks,
             read |-> [b \in Bank |-> "array"]]
  /\ file \in Images
  /\ run = Idle /\ result = "none"
  /\ runs = 0 /\ faults = 0 /\ disturbed = FALSE

Start(tool) ==
  /\ run.tool = "none" /\ runs < MaxRuns
  /\ run' = [tool |-> tool, pc |-> 1, k |-> 0, out |-> <<>>]
  /\ result' = "running"
  /\ runs' = runs + 1
  /\ disturbed' = (chip.cui.st # "ready")
  /\ UNCHANGED <<chip, file, faults>>

\* do_gsn()
Gsn ==
  /\ run.tool = "none" /\ file \in Images
  /\ file' = file \o NewSerial
  /\ UNCHANGED <<chip, run, result, runs, faults, disturbed>>

\* flash_write(), the next one of the current step.  buffer_program() repeats
\* the first of its writes while the chip is busy.
FlashWrite ==
  /\ run.tool # "none" /\ run.k < Len(Now.writes)
  /\ LET w == Now.writes[run.k + 1] IN
       /\ chip' = AfterWrite(w)
       /\ run' = [run EXCEPT !.k = IF w.cmd = "0xE8" /\ Busy THEN 0 ELSE @ + 1]
  /\ UNCHANGED <<file, result, runs, faults, disturbed>>

WritesDone(then) ==
  /\ run.tool # "none" /\ run.k = Len(Now.writes) /\ Now.then \in then

EndRun(how) == run' = Idle /\ result' = how
NextStep(words) ==
  /\ run' = [run EXCEPT !.pc = @ + 1, !.k = 0, !.out = @ \o words]
  /\ UNCHANGED result

\* A bank in another mode answers with something that is not its status: the
\* tool may take it for anything.
ReadsStatus == chip.read[BankOf(Now.at[1])] = "status"

\* The wait for SR7 at the end of word_program(), buffer_program() and
\* block_erase(), and the checks of SR3, SR4 or SR5, and SR1.
OwnErrors == IF Now.then = "erased" THEN {"VPP", "erase", "lock"}
             ELSE {"VPP", "program", "lock"}
PollStatus ==
  /\ WritesDone({"programmed", "erased"})
  /\ ReadsStatus => ~Busy
  /\ \/ (ReadsStatus => chip.sr \cap OwnErrors = {}) /\ NextStep(<<>>)
     \/ (ReadsStatus => chip.sr \cap OwnErrors # {}) /\ EndRun("exit")
  /\ UNCHANGED <<chip, file, runs, faults, disturbed>>

\* The end of block_unlock().  It does not wait for SR7: a busy chip answers
\* with a status of 0, which is what an unlocked block answers.
CheckUnlocked ==
  /\ WritesDone({"unlocked"})
  /\ LET a == Now.at[1]
         zero == CASE chip.read[BankOf(a)] = "id" -> ~Locked(a)
                   [] chip.read[BankOf(a)] = "status" -> Busy
                   [] OTHER -> chip.cells[a] = {}
     IN IF zero THEN NextStep(<<>>) ELSE EndRun("exit")
  /\ UNCHANGED <<chip, file, runs, faults, disturbed>>

\* Functions that end with their last write, and those that read the array.
ReadOn ==
  /\ WritesDone({"next", "show", "append"})
  /\ NextStep(IF Now.then = "append" THEN [i \in DOMAIN Now.at |-> Cell(Now.at[i])]
              ELSE <<>>)
  /\ UNCHANGED <<chip, file, runs, faults, disturbed>>

\* Variant: the loop ends before the last word.
SameButLast(out) ==
  /\ Len(out) = Len(file)
  /\ \A i \in 1 .. Len(file) - 1 :
       out[i] = IF i <= Len(file) - SerialWords THEN bit_swap(file[i]) ELSE file[i]

\* compare_file_order(): the words of the image are swapped, the number is not.
SameAsFile(out) ==
  out = [i \in DOMAIN file |->
           IF i <= Len(file) - SerialWords THEN bit_swap(file[i]) ELSE file[i]]
Compare ==
  /\ WritesDone({"compare"})
  /\ IF SameAsFile(run.out) THEN NextStep(<<>>) ELSE EndRun("differs")
  /\ UNCHANGED <<chip, file, runs, faults, disturbed>>

\* The regular ends of both tools.
Finish ==
  /\ WritesDone({"reconfig", "close"})
  /\ EndRun(IF Now.then = "reconfig" THEN "reconfigured" ELSE "shown")
  /\ UNCHANGED <<chip, file, runs, faults, disturbed>>

\* The user ends the tool between two accesses.
Kill ==
  /\ run.tool # "none"
  /\ EndRun("killed")
  /\ UNCHANGED <<chip, file, runs, faults, disturbed>>

ToolStep == FlashWrite \/ PollStatus \/ CheckUnlocked \/ ReadOn \/ Compare \/ Finish

Next ==
  \/ ToolStep \/ Kill \/ Gsn \/ PowerCycle
  \/ \E tool \in {"isp", "dsn"} : Start(tool)
  \/ ChipDone
  \/ \E reported \in {{}, {"VPP"}, {"program", "erase"}} : ChipFault(reported)

Spec == Init /\ [][Next]_vars

(***************************************************************************)
(* Properties.                                                             *)
(***************************************************************************)

\* The flash holds the image of f, bits in the order the card wants them,
\* and f's serial number, high word first.
Holds(f) ==
  /\ \A i \in DOMAIN ImageOf(f) : chip.cells[i - 1] = bit_swap(f[i])
  /\ \A i \in 1 .. SerialWords :
       chip.cells[BlockAt(SerialBank, 0) + SerialWords - i] = SerialOf(f)[i]

\* do_isp() reconfigures the card only if the flash holds the file, and the
\* chip is back in synchronous mode: whatever failed, with or without an
\* error bit, and however earlier runs were interrupted.
ReconfiguredIsImage ==
  [][run.tool = "isp" /\ result' = "reconfigured"
       => Holds(file) /\ chip.config = SyncMode]_vars

\* Beyond the banks of the image and the block of the logic number nothing
\* ever changes, so the hardware number survives: also when a run is killed
\* within a command and the next tool, even dsn, writes into that command.
OthersKept ==
  \A a \in Addr : \/ BankOf(a) < Len(BanksOf(file))
                  \/ BlockOf(a) = BlockOf(BlockAt(SerialBank, 0))
                  \/ chip.cells[a] = OldCells[a]

\* An image that leaves the bank of the serial numbers alone is written
\* successfully unless the chip fails during the run or was left within a
\* command: locked blocks, error bits, banks in any mode and half-written
\* images of earlier runs are all dealt with.
FailsOnlyByFault ==
  result \in {"exit", "differs"} =>
    disturbed \/ Len(ImageOf(file)) > SerialBank * BankWords

=============================================================================
