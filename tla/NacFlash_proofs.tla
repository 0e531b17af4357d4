-------------------------- MODULE NacFlash_proofs --------------------------
(***************************************************************************)
(* Proofs about the configuration flash, for every geometry of the chip,   *)
(* every image file, every old content and any number of runs, kills and   *)
(* failures.                                                               *)
(*                                                                         *)
(* OthersKept is not inductive: a killed tool leaves the chip within a     *)
(* command, and the next one, which knows nothing of it, completes it by   *)
(* what it writes.  The inductive invariant FlashInv says of the chip that *)
(* whatever it is about to change lies where the file may go, in whichever *)
(* state its command interface is, and of a run that every write it has    *)
(* left goes there too, a write of a command that reads included.  That an *)
(* erase stays there follows because the region consists of whole blocks.  *)
(*                                                                         *)
(* UpdateInv, in the second half, follows a run of nactool isp.  At first  *)
(* its writes may be taken for data of a command an earlier run was killed *)
(* within; the tool and the chip are in step again before an erase is over *)
(* (InStep, Behind).  From the reading on the chip is ready and in the     *)
(* mode each command needs (LateInv), what was read is what the cells hold *)
(* (ReadBack), and a comparison that succeeds compares all of it.          *)
(*                                                                         *)
(* SuccessInv says why FailsOnlyByFault holds.  In an update that met no   *)
(* failure the chip is exactly where the writes so far bring it (On), and  *)
(* every step that is over has achieved, and nothing has undone since,     *)
(* what it is for (Made): a block is unlocked, the cells of an erased one  *)
(* have every bit that the file wants there (Aim), a word is in its cell.  *)
(* A step then finds its block as it needs it, because the sequence of the *)
(* steps unlocks before it erases, erases before it programs and does not  *)
(* erase again what it has programmed (Prepared); the last of these is     *)
(* where an image that reaches into the bank of the number would fail.     *)
(***************************************************************************)
EXTENDS NacFlash, NumberFacts, SequenceTheorems, TLAPS

-----------------------------------------------------------------------------
(* The inductive invariant. *)

(* Where a file may go: its banks, and the block of the logic number. *)
Region(f) ==
  {a \in Nat : \/ BankOf(a) < Len(BanksOf(f))
              \/ BlockOf(a) = BlockOf(BlockAt(SerialBank, 0))}

(* What the tools write, and how their steps end. *)
Commands == {"0x60", "0x03", "0x50", "0x40", "0xE8", "0xD0", "0x90", "0x20", "0xFF",
             "data", "count"}
Ends == {"next", "programmed", "unlocked", "erased", "append", "show", "compare",
         "reconfig", "close"}
States == {"ready", "0x60", "0x20", "0x40", "0xE8", "load", "confirm", "busy"}

WritesTo(f) == [addr : Region(f), cmd : Commands, word : Word, n : Int]
StepsTo(f) == [writes : Seq(WritesTo(f)), then : Ends, at : Seq(Nat)]

(* A chip: whatever it is about to change lies in the region of f. *)
Chips(f) ==
  [cells  : [Addr -> Word],
   cui    : [st : States, left : Int, buf : SUBSET (Region(f) \X Word)],
   sr     : SUBSET ErrorBits,
   config : Nat,
   locked : SUBSET Nat,
   read   : [Bank -> {"array", "status", "id"}]]
ChipInv == chip \in Chips(file)

(* A run is at one of its steps. *)
RunInv ==
  /\ run = [tool |-> run.tool, pc |-> run.pc, k |-> run.k, out |-> run.out]
  /\ run.tool \in {"none", "isp", "dsn"} /\ run.pc \in Nat /\ run.k \in Nat
  /\ run.tool # "none" => run.pc \in 1 .. Len(Steps)

FlashInv ==
  /\ file \in Files
  /\ ChipInv
  /\ RunInv
  /\ OthersKept

-----------------------------------------------------------------------------
(* Addresses. *)

(* The sizes, from the assumptions on the constants. *)
LEMMA Geometry ==
  /\ BlockWords \in Nat /\ BlockWords > 2 /\ Blocks \in Nat /\ Blocks > 1
  /\ BankWords \in Nat /\ BankWords > 2 /\ BankWords = Blocks * BlockWords
  /\ SerialBank \in Nat /\ SerialBank > 0
  /\ SerialWords \in Nat /\ SerialWords > 0 /\ SerialWords <= BlockWords
  /\ BufferWords \in Nat /\ BufferWords > 0 /\ WordBits \in Nat
<1>1. Blocks * BlockWords \in Nat /\ Blocks * BlockWords > 2
  BY FlashAssumption
<1> QED
  BY <1>1, FlashAssumption DEF BankWords

(* The quotient of a number that is given by quotient and remainder. *)
LEMMA DivOf ==
  ASSUME NEW T \in Nat \ {0}, NEW q \in Nat, NEW r \in 0 .. T - 1
  PROVE  (T * q + r) \div T = q
<1> DEFINE x == T * q + r
<1>1. x \in Nat /\ x % T = r
  BY Remainder
<1>2. x = T * (x \div T) + (x % T) /\ x \div T \in Int
  BY <1>1
<1>3. T * q = T * (x \div T)
  BY <1>1, <1>2
<1> HIDE DEF x
<1>4. x \div T = q
  BY <1>2, <1>3
<1> QED
  BY <1>4 DEF x

(* An address is in the bank it is counted from. *)
LEMMA InBank ==
  ASSUME NEW b \in Nat, NEW i \in 0 .. BankWords - 1
  PROVE  /\ b * BankWords + i \in Nat
         /\ BankOf(b * BankWords + i) = b
<1>1. BankWords * b + i = b * BankWords + i /\ b * BankWords + i \in Nat
  BY Geometry
<1>2. (BankWords * b + i) \div BankWords = b
  BY Geometry, DivOf
<1> QED
  BY <1>1, <1>2 DEF BankOf

(* The bank of an address is the one of its block. *)
LEMMA BankOfBlock ==
  ASSUME NEW a \in Nat
  PROVE  /\ BlockOf(a) \in Nat
         /\ BankOf(a) = BlockOf(a) \div Blocks
         /\ a \in CellsOf(BlockOf(a))
<1> USE Geometry
<1>1. PICK q \in Nat, r \in 0 .. BlockWords - 1 : a = BlockWords * q + r
  <2>1. a = BlockWords * (a \div BlockWords) + (a % BlockWords)
    OBVIOUS
  <2>2. a \div BlockWords \in Nat /\ a % BlockWords \in 0 .. BlockWords - 1
    OBVIOUS
  <2> QED
    BY <2>1, <2>2
<1>2. BlockOf(a) = q
  BY <1>1, DivOf DEF BlockOf
<1>3. PICK p \in Nat, s \in 0 .. Blocks - 1 : q = Blocks * p + s
  <2>1. q = Blocks * (q \div Blocks) + (q % Blocks)
    OBVIOUS
  <2>2. q \div Blocks \in Nat /\ q % Blocks \in 0 .. Blocks - 1
    OBVIOUS
  <2> QED
    BY <2>1, <2>2
<1>4. q \div Blocks = p
  BY <1>3, DivOf
<1>5. BlockWords * s + r \in 0 .. BankWords - 1
  <2>1. BlockWords * s <= BlockWords * (Blocks - 1)
    BY <1>3
  <2>2. BlockWords * (Blocks - 1) = BankWords - BlockWords
    OBVIOUS
  <2>3. BlockWords * s \in Nat
    BY <1>3
  <2> QED
    BY <1>1, <2>1, <2>2, <2>3
<1>6. a = p * BankWords + (BlockWords * s + r)
  <2>1. BlockWords * q = BlockWords * (Blocks * p) + BlockWords * s
    BY <1>3
  <2>2. BlockWords * (Blocks * p) = p * (Blocks * BlockWords)
    BY <1>3
  <2> QED
    BY <1>1, <1>3, <2>1, <2>2
<1>7. BankOf(a) = p
  BY <1>5, <1>6, InBank
<1>8. a \in CellsOf(q)
  <2>1. (q + 1) * BlockWords = BlockWords * q + BlockWords /\ q * BlockWords = BlockWords * q
    OBVIOUS
  <2>2. BlockWords * q \in Nat
    OBVIOUS
  <2> QED
    BY <1>1, <2>1, <2>2 DEF CellsOf
<1> QED
  BY <1>2, <1>4, <1>7, <1>8

-----------------------------------------------------------------------------
(* Files and their pieces. *)

(* l words make c pieces of n words, the last one shorter perhaps. *)
IsCeiling(l, n, c) ==
  /\ c \in Nat /\ l <= c * n /\ (l > 0 => c > 0)
  /\ \A i \in 1 .. c : (i - 1) * n \in Nat /\ (i - 1) * n < l
  /\ \A m \in Nat : l <= m * n => c <= m

(* The division that Pieces makes rounds up. *)
LEMMA Ceiling ==
  ASSUME NEW n \in Nat \ {0}, NEW l \in Nat
  PROVE  IsCeiling(l, n, (l + n - 1) \div n)
<1> DEFINE c == (l + n - 1) \div n
<1>1. /\ l + n - 1 = n * c + ((l + n - 1) % n)
      /\ c \in Nat /\ (l + n - 1) % n \in 0 .. n - 1
  OBVIOUS
<1> HIDE DEF c
<1>2. PICK r \in 0 .. n - 1 : l + n - 1 = n * c + r
  BY <1>1
<1>3. n * c \in Nat /\ n * c = c * n
  BY <1>1
<1>4. ASSUME NEW i \in 1 .. c PROVE (i - 1) * n \in Nat /\ (i - 1) * n < l
  <2>1. (i - 1) * n \in Nat /\ (i - 1) * n <= (c - 1) * n
    BY <1>1
  <2>2. (c - 1) * n = n * c - n
    BY <1>1
  <2> QED
    BY <1>2, <1>3, <2>1, <2>2
<1>5. ASSUME NEW m \in Nat, l <= m * n, c > m PROVE FALSE
  <2>1. (m + 1) * n <= c * n /\ (m + 1) * n = m * n + n /\ m * n \in Nat
    BY <1>1, <1>5
  <2> QED
    BY <1>2, <1>3, <1>5, <2>1
<1>6. l > 0 => c > 0
  <2>1. c = 0 => n * c = 0
    OBVIOUS
  <2> QED
    BY <1>1, <1>2, <2>1
<1> QED
  BY <1>1, <1>2, <1>3, <1>4, <1>5, <1>6 DEF IsCeiling, c

(* The pieces of a sequence: how many, and where each lies in it. *)
LEMMA PiecesFacts ==
  ASSUME NEW S, NEW ws \in Seq(S), NEW n \in Nat \ {0}
  PROVE  /\ Pieces(ws, n) \in Seq(Seq(S))
         /\ Len(Pieces(ws, n)) = (Len(ws) + n - 1) \div n
         /\ \A i \in 1 .. Len(Pieces(ws, n)) :
              /\ Pieces(ws, n)[i] \in Seq(S)
              /\ Len(Pieces(ws, n)[i]) \in 1 .. n
              /\ (i - 1) * n \in Nat /\ (i - 1) * n + Len(Pieces(ws, n)[i]) <= Len(ws)
<1> DEFINE c == (Len(ws) + n - 1) \div n
           last(i) == IF i * n < Len(ws) THEN i * n ELSE Len(ws)
           piece(i) == SubSeq(ws, (i - 1) * n + 1, last(i))
<1>1. Len(ws) \in Nat /\ \A j \in 1 .. Len(ws) : ws[j] \in S
  OBVIOUS
<1>2. c \in Nat /\ \A i \in 1 .. c : (i - 1) * n \in Nat /\ (i - 1) * n < Len(ws)
  <2>1. IsCeiling(Len(ws), n, c)
    BY <1>1, Ceiling, Zenon
  <2> HIDE DEF c
  <2> QED
    BY <2>1 DEF IsCeiling
<1>3. ASSUME NEW i \in 1 .. c
      PROVE  /\ piece(i) \in Seq(S) /\ Len(piece(i)) \in 1 .. n
             /\ (i - 1) * n \in Nat /\ (i - 1) * n + Len(piece(i)) <= Len(ws)
  <2> DEFINE b == (i - 1) * n
             e == last(i)
  <2>1. b \in Nat /\ b < Len(ws) /\ i * n = b + n
    BY <1>2
  <2>2. e \in Nat /\ b + 1 <= e /\ e <= b + n /\ e <= Len(ws)
    BY <1>1, <2>1
  <2> HIDE DEF b, e
  <2>3. \A j \in b + 1 .. e : ws[j] \in S
    BY <1>1, <2>1, <2>2
  <2>4. SubSeq(ws, b + 1, e) \in Seq(S) /\ Len(SubSeq(ws, b + 1, e)) = e - b
    BY <2>1, <2>2, <2>3, SubSeqProperties
  <2>5. Len(SubSeq(ws, b + 1, e)) \in 1 .. n /\ b + Len(SubSeq(ws, b + 1, e)) <= Len(ws)
    BY <1>1, <2>1, <2>2, <2>4
  <2> QED
    BY <2>1, <2>4, <2>5 DEF b, e
<1>4. Pieces(ws, n) = [i \in 1 .. c |-> piece(i)]
  BY DEF Pieces
<1> HIDE DEF c, piece
<1>5. /\ Pieces(ws, n) \in [1 .. c -> Seq(S)]
      /\ \A i \in 1 .. c : Pieces(ws, n)[i] = piece(i)
  BY <1>3, <1>4
<1>6. Pieces(ws, n) \in Seq(Seq(S)) /\ Len(Pieces(ws, n)) = c
  BY <1>2, <1>5
<1> QED
  BY <1>3, <1>5, <1>6 DEF c

(* What is known of a file. *)
LEMMA FileFacts ==
  ASSUME NEW f \in Files
  PROVE  /\ f \in Seq(Word)
         /\ ImageOf(f) \in Seq(Word) /\ Len(ImageOf(f)) = Len(f) - SerialWords
         /\ Len(ImageOf(f)) \in Nat /\ Len(ImageOf(f)) > 0
         /\ SerialOf(f) \in Seq(Word) /\ Len(SerialOf(f)) = SerialWords
<1>1. /\ f \in Seq(Word) /\ Len(f) \in Nat /\ Len(f) - SerialWords > 0
      /\ \A i \in 1 .. Len(f) : f[i] \in Word
  <2>1. CASE f \in Images
    BY <2>1, FileAssumption, Geometry
  <2>2. CASE f \notin Images
    <3>1. PICK g \in Images : f = g \o NewSerial
      BY <2>2 DEF Files
    <3>2. g \in Seq(Word) /\ Len(g) - SerialWords > 0 /\ Len(g) \in Nat
      BY FileAssumption, Geometry
    <3>3. f \in Seq(Word) /\ Len(f) = Len(g) + SerialWords
      BY <3>1, <3>2, FileAssumption, ConcatProperties
    <3> QED
      BY <3>2, <3>3, Geometry
  <2> QED
    BY <2>1, <2>2
<1> DEFINE m == Len(f) - SerialWords
<1>2. m \in Nat /\ m > 0 /\ m + SerialWords = Len(f)
  BY <1>1, Geometry
<1> HIDE DEF m
<1>3. SubSeq(f, 1, m) \in Seq(Word) /\ Len(SubSeq(f, 1, m)) = m
  <2>1. \A i \in 1 .. m : f[i] \in Word
    BY <1>1, <1>2, Geometry
  <2> QED
    BY <1>2, <2>1, SubSeqProperties
<1>4. /\ SubSeq(f, m + 1, Len(f)) \in Seq(Word)
      /\ Len(SubSeq(f, m + 1, Len(f))) = SerialWords
  <2>1. \A i \in m + 1 .. Len(f) : f[i] \in Word
    BY <1>1, <1>2
  <2> QED
    BY <1>1, <1>2, <2>1, Geometry, SubSeqProperties
<1> QED
  BY <1>1, <1>2, <1>3, <1>4 DEF ImageOf, SerialOf, m

(* Its banks. *)
LEMMA BanksFacts ==
  ASSUME NEW f \in Files
  PROVE  /\ BanksOf(f) \in Seq(Seq(Word)) /\ Len(BanksOf(f)) \in Nat
         /\ Len(BanksOf(f)) = (Len(f) - SerialWords + BankWords - 1) \div BankWords
         /\ Len(BanksOf(f)) > 0
         /\ \A b \in 1 .. Len(BanksOf(f)) : /\ BanksOf(f)[b] \in Seq(Word)
                                            /\ Len(BanksOf(f)[b]) \in 1 .. BankWords
<1>1. ImageOf(f) \in Seq(Word) /\ BankWords \in Nat \ {0}
  BY FileFacts, Geometry
<1>2. /\ BanksOf(f) \in Seq(Seq(Word))
      /\ Len(BanksOf(f)) = (Len(ImageOf(f)) + BankWords - 1) \div BankWords
      /\ \A b \in 1 .. Len(BanksOf(f)) : /\ BanksOf(f)[b] \in Seq(Word)
                                         /\ Len(BanksOf(f)[b]) \in 1 .. BankWords
  BY <1>1, PiecesFacts DEF BanksOf
<1>3. Len(BanksOf(f)) \in Nat /\ Len(BanksOf(f)) > 0
  <2>1. IsCeiling(Len(ImageOf(f)), BankWords, Len(BanksOf(f)))
    BY <1>1, <1>2, FileFacts, Ceiling
  <2> QED
    BY <2>1, FileFacts DEF IsCeiling
<1> QED
  BY <1>2, <1>3, FileFacts

-----------------------------------------------------------------------------
(* The region. *)

(* An address in a block, counted from its bank. *)
LEMMA BlockAtValue ==
  ASSUME NEW b \in Nat, NEW k \in 0 .. Blocks - 1, NEW i \in 0 .. BlockWords - 1
  PROVE  /\ k * BlockWords + i \in 0 .. BankWords - 1
         /\ BlockAt(b, k) + i = b * BankWords + (k * BlockWords + i)
         /\ BlockAt(b, k) \in Nat /\ BlockAt(b, k) + i \in Nat
<1>1. k * BlockWords \in Nat /\ k * BlockWords <= (Blocks - 1) * BlockWords
  BY Geometry
<1>2. (Blocks - 1) * BlockWords = BankWords - BlockWords
  BY Geometry
<1>3. b * BankWords \in Nat
  BY Geometry
<1> QED
  BY <1>1, <1>2, <1>3, Geometry DEF BlockAt

(* The blocks of the banks of a file are in its region. *)
LEMMA RegionBank ==
  ASSUME NEW f \in Files, NEW b \in 0 .. Len(BanksOf(f)) - 1, NEW k \in 0 .. Blocks - 1,
         NEW i \in 0 .. BlockWords - 1
  PROVE  BlockAt(b, k) + i \in Region(f)
<1> DEFINE x == k * BlockWords + i
<1>1. b \in Nat /\ b < Len(BanksOf(f))
  BY BanksFacts
<1>2. x \in 0 .. BankWords - 1 /\ BlockAt(b, k) + i = b * BankWords + x
  BY <1>1, BlockAtValue
<1> HIDE DEF x
<1>3. BankOf(b * BankWords + x) = b /\ b * BankWords + x \in Nat
  BY <1>1, <1>2, InBank
<1> QED
  BY <1>1, <1>2, <1>3 DEF Region

(* Blocks are numbered through the banks. *)
LEMMA BlockNumber ==
  ASSUME NEW b \in Nat, NEW i \in 0 .. BlockWords - 1
  PROVE  BlockOf(BlockAt(b, 0) + i) = b * Blocks
<1>1. BlockAt(b, 0) + i = BlockWords * (b * Blocks) + i
  <2>1. b * BankWords = BlockWords * (b * Blocks)
    BY Geometry
  <2> QED
    BY <2>1, Geometry DEF BlockAt
<1>2. b * Blocks \in Nat
  BY Geometry
<1> DEFINE q == b * Blocks
<1>3. q \in Nat /\ BlockAt(b, 0) + i = BlockWords * q + i
  BY <1>1, <1>2
<1> HIDE DEF q
<1>4. (BlockWords * q + i) \div BlockWords = q
  BY <1>3, Geometry, DivOf
<1> QED
  BY <1>3, <1>4 DEF BlockOf, q

(* So is the block of the logic number. *)
LEMMA RegionSerial ==
  ASSUME NEW f, NEW i \in 0 .. BlockWords - 1
  PROVE  BlockAt(SerialBank, 0) + i \in Region(f)
<1>1. BlockOf(BlockAt(SerialBank, 0) + i) = SerialBank * Blocks
  BY BlockNumber, Geometry
<1>2. BlockOf(BlockAt(SerialBank, 0)) = SerialBank * Blocks
  <2>1. BlockOf(BlockAt(SerialBank, 0) + 0) = SerialBank * Blocks /\ BlockAt(SerialBank, 0) \in Nat
    BY BlockNumber, BlockAtValue, Geometry
  <2>2. BlockAt(SerialBank, 0) + 0 = BlockAt(SerialBank, 0)
    BY <2>1
  <2> QED
    BY <2>1, <2>2
<1>3. BlockAt(SerialBank, 0) + i \in Nat
  BY BlockAtValue, Geometry
<1> QED
  BY <1>1, <1>2, <1>3 DEF Region

(* It is made of whole blocks, so what erases a block of it stays in it. *)
LEMMA RegionClosed ==
  ASSUME NEW f, NEW a \in Region(f)
  PROVE  CellsOf(BlockOf(a)) \subseteq Region(f)
<1> SUFFICES ASSUME NEW c \in CellsOf(BlockOf(a)) PROVE c \in Region(f)
  OBVIOUS
<1>1. a \in Nat
  BY DEF Region
<1> DEFINE q == BlockOf(a)
<1>2. q \in Nat
  BY <1>1, BankOfBlock
<1>3. c \in Nat /\ BlockOf(c) = q
  <2> DEFINE r == c - q * BlockWords
  <2>1. q * BlockWords \in Nat /\ (q + 1) * BlockWords = q * BlockWords + BlockWords
        /\ q * BlockWords = BlockWords * q
    BY <1>2, Geometry
  <2>2. c \in q * BlockWords .. (q + 1) * BlockWords - 1
    BY DEF CellsOf
  <2>3. c \in Nat /\ r \in 0 .. BlockWords - 1 /\ c = BlockWords * q + r
    BY <2>1, <2>2, Geometry
  <2> HIDE DEF r, q
  <2>4. (BlockWords * q + r) \div BlockWords = q
    BY <1>2, <2>3, Geometry, DivOf
  <2> QED
    BY <2>3, <2>4 DEF BlockOf
<1>4. BankOf(c) = BankOf(a)
  BY <1>1, <1>3, BankOfBlock
<1> QED
  BY <1>3, <1>4 DEF Region

(* gsn makes a file longer, and so the region larger. *)
LEMMA RegionGrows ==
  ASSUME NEW f \in Files, NEW g \in Files, Len(f) <= Len(g)
  PROVE  Region(f) \subseteq Region(g)
<1> DEFINE lf == Len(f) - SerialWords
           lg == Len(g) - SerialWords
           cf == Len(BanksOf(f))
           cg == Len(BanksOf(g))
<1>1. lf \in Nat /\ lg \in Nat /\ lf <= lg /\ BankWords \in Nat \ {0}
  BY FileFacts, Geometry
<1>2. cf = (lf + BankWords - 1) \div BankWords /\ cg = (lg + BankWords - 1) \div BankWords
  BY BanksFacts
<1> HIDE DEF lf, lg, cf, cg
<1>3. IsCeiling(lf, BankWords, cf) /\ IsCeiling(lg, BankWords, cg)
  BY <1>1, <1>2, Ceiling
<1>4. cf <= cg /\ cf \in Nat /\ cg \in Nat
  <2>1. cg \in Nat /\ lf <= cg * BankWords
    BY <1>1, <1>3 DEF IsCeiling
  <2> QED
    BY <1>3, <2>1 DEF IsCeiling
<1>5. ASSUME NEW a \in Nat, BankOf(a) < cf PROVE BankOf(a) < cg
  <2>1. BankOf(a) \in Int
    BY Geometry DEF BankOf
  <2> QED
    BY <1>4, <1>5, <2>1
<1> QED
  BY <1>5 DEF Region, cf, cg

-----------------------------------------------------------------------------
(* The steps write into the region. *)

(* A write to a place in the region is one of those allowed. *)
LEMMA WriteTypes ==
  ASSUME NEW f, NEW a \in Region(f)
  PROVE  /\ a \in Nat
         /\ \A c \in Commands : Write(a, c) \in WritesTo(f)
         /\ \A w \in Word : Data(a, w) \in WritesTo(f)
         /\ \A k \in Int : Count(a, k) \in WritesTo(f)
<1>1. a \in Nat /\ {} \in Word
  BY DEF Region, Word
<1>2. ASSUME NEW c \in Commands, NEW w \in Word, NEW k \in Int
      PROVE  [addr |-> a, cmd |-> c, word |-> w, n |-> k] \in WritesTo(f)
  BY DEF WritesTo
<1>3. "data" \in Commands /\ "count" \in Commands
  BY DEF Commands
<1>4. ASSUME NEW c \in Commands PROVE Write(a, c) \in WritesTo(f)
  BY <1>1, <1>2 DEF Write
<1>5. ASSUME NEW w \in Word PROVE Data(a, w) \in WritesTo(f)
  BY <1>2, <1>3 DEF Data
<1>6. ASSUME NEW k \in Int PROVE Count(a, k) \in WritesTo(f)
  BY <1>1, <1>2, <1>3 DEF Count
<1> QED
  BY <1>1, <1>4, <1>5, <1>6

(* A step is one of those allowed if its writes are. *)
LEMMA StepType ==
  ASSUME NEW f, NEW ws \in Seq(WritesTo(f)), NEW then \in Ends, NEW at \in Seq(Nat)
  PROVE  Step(ws, then, at) \in StepsTo(f)
BY DEF Step, StepsTo

(* Swapping the bits of a word gives a word. *)
LEMMA SwapType ==
  ASSUME NEW w \in Word
  PROVE  bit_swap(w) \in Word
BY Geometry DEF bit_swap, Word

(* A byte address of the first block is in every region. *)
LEMMA FirstBlock ==
  ASSUME NEW f \in Files
  PROVE  0 \in Region(f) /\ 1 \in Region(f)
<1>1. 0 \in 0 .. Len(BanksOf(f)) - 1 /\ 0 \in 0 .. Blocks - 1
  BY BanksFacts, Geometry
<1>2. ASSUME NEW i \in 0 .. BlockWords - 1 PROVE i \in Region(f)
  <2>1. BlockAt(0, 0) + i \in Region(f)
    BY <1>1, RegionBank
  <2>2. BlockAt(0, 0) = 0
    BY Geometry DEF BlockAt
  <2> QED
    BY <2>1, <2>2
<1> QED
  BY <1>2, Geometry

(* The two functions that set the chip up write to the first block. *)
LEMMA ModeSteps ==
  ASSUME NEW f \in Files
  PROVE  /\ set_config_register(AsyncMode) \in StepsTo(f)
         /\ set_config_register(SyncMode) \in StepsTo(f)
         /\ clear_stats_regs \in StepsTo(f)
<1>1. << >> \in Seq(Nat) /\ "next" \in Ends
  BY DEF Ends
<1>2. {"0x60", "0x03", "0x50"} \subseteq Commands
  BY DEF Commands
<1>3. ASSUME NEW a \in Region(f) PROVE set_config_register(a) \in StepsTo(f)
  <2>1. Write(a, "0x60") \in WritesTo(f) /\ Write(a, "0x03") \in WritesTo(f)
    BY <1>2, WriteTypes
  <2>2. <<Write(a, "0x60"), Write(a, "0x03")>> \in Seq(WritesTo(f))
    BY <2>1
  <2> QED
    BY <1>1, <2>2, StepType DEF set_config_register
<1>4. clear_stats_regs \in StepsTo(f)
  <2>1. Write(0, "0x50") \in WritesTo(f)
    BY <1>2, FirstBlock, WriteTypes
  <2>2. <<Write(0, "0x50")>> \in Seq(WritesTo(f))
    BY <2>1
  <2> QED
    BY <1>1, <2>2, StepType DEF clear_stats_regs
<1> QED
  BY <1>3, <1>4, FirstBlock DEF AsyncMode, SyncMode

(* Unlocking and erasing, where the block and the start of its bank are. *)
LEMMA BlockSteps ==
  ASSUME NEW f \in Files, NEW b \in Nat, NEW k \in 0 .. Blocks - 1,
         BlockAt(b, 0) \in Region(f), BlockAt(b, k) \in Region(f)
  PROVE  block_unlock(b, k) \in StepsTo(f) /\ block_erase(b, k) \in StepsTo(f)
<1> DEFINE s == BlockAt(b, 0)
           a == BlockAt(b, k)
<1>1. s \in Region(f) /\ a \in Region(f) /\ s \in Nat /\ a \in Nat
  BY WriteTypes
<1>2. {"0x60", "0xD0", "0x90", "0x20"} \subseteq Commands
  BY DEF Commands
<1>3. {"unlocked", "erased"} \subseteq Ends
  BY DEF Ends
<1>4. block_unlock(b, k) = Step(<<Write(s, "0x60"), Write(a, "0xD0"), Write(s, "0x90")>>,
                                "unlocked", <<a + 2>>)
  BY DEF block_unlock
<1>5. block_erase(b, k) = Step(<<Write(s, "0x20"), Write(a, "0xD0")>>, "erased", <<s>>)
  BY DEF block_erase
<1> HIDE DEF s, a
<1>6. /\ Write(s, "0x60") \in WritesTo(f) /\ Write(s, "0x90") \in WritesTo(f)
      /\ Write(s, "0x20") \in WritesTo(f) /\ Write(a, "0xD0") \in WritesTo(f)
  <2>1. \A c \in Commands : Write(s, c) \in WritesTo(f) /\ Write(a, c) \in WritesTo(f)
    BY <1>1, WriteTypes
  <2> QED
    BY <1>2, <2>1
<1>7. /\ <<Write(s, "0x60"), Write(a, "0xD0"), Write(s, "0x90")>> \in Seq(WritesTo(f))
      /\ <<Write(s, "0x20"), Write(a, "0xD0")>> \in Seq(WritesTo(f))
  BY <1>6
<1>8. <<a + 2>> \in Seq(Nat) /\ <<s>> \in Seq(Nat)
  BY <1>1
<1>9. block_unlock(b, k) \in StepsTo(f)
  BY <1>3, <1>4, <1>7, <1>8, StepType
<1>10. block_erase(b, k) \in StepsTo(f)
  BY <1>3, <1>5, <1>7, <1>8, StepType
<1> QED
  BY <1>9, <1>10

(* The functions about a bank of the image, but for its contents. *)
LEMMA BankSteps ==
  ASSUME NEW f \in Files, NEW b \in 0 .. Len(BanksOf(f)) - 1, NEW n \in Nat
  PROVE  /\ bank_unlock(b) \in Seq(StepsTo(f))
         /\ bank_erase(b) \in Seq(StepsTo(f))
         /\ read_bank(b, n) \in StepsTo(f)
<1>1. b \in Nat
  BY BanksFacts
<1>2. \A k \in 0 .. Blocks - 1 : BlockAt(b, k) \in Region(f)
  <2> SUFFICES ASSUME NEW k \in 0 .. Blocks - 1 PROVE BlockAt(b, k) \in Region(f)
    OBVIOUS
  <2>1. BlockAt(b, k) + 0 \in Region(f) /\ BlockAt(b, k) \in Nat
    BY <1>1, RegionBank, BlockAtValue, Geometry
  <2>2. BlockAt(b, k) + 0 = BlockAt(b, k)
    BY <2>1
  <2> QED
    BY <2>1, <2>2
<1>3. 0 \in 0 .. Blocks - 1
  BY Geometry
<1>4. \A k \in 0 .. Blocks - 1 : /\ block_unlock(b, k) \in StepsTo(f)
                                /\ block_erase(b, k) \in StepsTo(f)
  BY <1>1, <1>2, <1>3, BlockSteps
<1>5. \A k \in 1 .. Blocks : k - 1 \in 0 .. Blocks - 1
  BY Geometry
<1>6. bank_unlock(b) \in Seq(StepsTo(f)) /\ bank_erase(b) \in Seq(StepsTo(f))
  BY <1>4, <1>5, Geometry DEF bank_unlock, bank_erase
<1> DEFINE s == BlockAt(b, 0)
<1>7. s \in Region(f) /\ s \in Nat
  BY <1>2, <1>3, WriteTypes
<1>8. read_bank(b, n) = Step(<<Write(s, "0xFF")>>, "append", [i \in 1 .. n |-> s + i - 1])
  BY DEF read_bank
<1> HIDE DEF s
<1>9. "0xFF" \in Commands /\ "append" \in Ends
  BY DEF Commands, Ends
<1>10. <<Write(s, "0xFF")>> \in Seq(WritesTo(f))
  <2>1. Write(s, "0xFF") \in WritesTo(f)
    BY <1>7, <1>9, WriteTypes
  <2> QED
    BY <2>1
<1>11. [i \in 1 .. n |-> s + i - 1] \in Seq(Nat)
  BY <1>7
<1>12. read_bank(b, n) \in StepsTo(f)
  BY <1>8, <1>9, <1>10, <1>11, StepType
<1> QED
  BY <1>6, <1>12

(* A full buffer, where all of its words go into the region. *)
LEMMA BufferSteps ==
  ASSUME NEW f, NEW a \in Nat, NEW words \in Seq(Word), Len(words) > 0,
         \A i \in 0 .. Len(words) - 1 : a + i \in Region(f)
  PROVE  buffer_program(a, words) \in StepsTo(f)
<1> DEFINE data == [i \in DOMAIN words |-> Data(a + i - 1, bit_swap(words[i]))]
           first == <<Write(a, "0xE8"), Count(a, Len(words) - 1)>>
           last == <<Write(a, "0xD0")>>
<1>1. a \in Region(f) /\ Len(words) - 1 \in Int /\ Len(words) \in Nat
  <2>1. Len(words) \in Nat /\ 0 \in 0 .. Len(words) - 1 /\ a + 0 = a
    OBVIOUS
  <2> QED
    BY <2>1
<1>2. {"0xE8", "0xD0"} \subseteq Commands /\ "programmed" \in Ends
  BY DEF Commands, Ends
<1>3. first \in Seq(WritesTo(f)) /\ last \in Seq(WritesTo(f))
  <2>1. /\ Write(a, "0xE8") \in WritesTo(f) /\ Write(a, "0xD0") \in WritesTo(f)
        /\ Count(a, Len(words) - 1) \in WritesTo(f)
    BY <1>1, <1>2, WriteTypes
  <2> QED
    BY <2>1
<1>4. data \in Seq(WritesTo(f))
  <2>1. ASSUME NEW i \in 1 .. Len(words)
        PROVE  Data(a + i - 1, bit_swap(words[i])) \in WritesTo(f)
    <3>1. i - 1 \in 0 .. Len(words) - 1 /\ a + i - 1 = a + (i - 1)
      BY <1>1
    <3>2. a + i - 1 \in Region(f)
      BY <3>1
    <3>3. bit_swap(words[i]) \in Word
      BY SwapType
    <3> QED
      BY <3>2, <3>3, WriteTypes
  <2>2. DOMAIN words = 1 .. Len(words)
    OBVIOUS
  <2>3. data \in [1 .. Len(words) -> WritesTo(f)]
    BY <2>1, <2>2
  <2> QED
    BY <1>1, <2>3
<1>5. buffer_program(a, words) = Step(first \o data \o last, "programmed", <<a>>)
  BY DEF buffer_program
<1>6. <<a>> \in Seq(Nat)
  OBVIOUS
<1> HIDE DEF data, first, last
<1>7. first \o data \o last \in Seq(WritesTo(f))
  BY <1>3, <1>4
<1> QED
  BY <1>2, <1>5, <1>6, <1>7, StepType

(* A block, one buffer after the other. *)
LEMMA BlockContents ==
  ASSUME NEW f \in Files, NEW b \in 0 .. Len(BanksOf(f)) - 1, NEW k \in 0 .. Blocks - 1,
         NEW words \in Seq(Word), Len(words) <= BlockWords
  PROVE  block_program(b, k, words) \in Seq(StepsTo(f))
<1> DEFINE bufs == Pieces(words, BufferWords)
           at(i) == BlockAt(b, k) + (i - 1) * BufferWords
<1>1. /\ bufs \in Seq(Seq(Word))
      /\ \A i \in 1 .. Len(bufs) :
           /\ bufs[i] \in Seq(Word) /\ Len(bufs[i]) \in 1 .. BufferWords
           /\ (i - 1) * BufferWords \in Nat
           /\ (i - 1) * BufferWords + Len(bufs[i]) <= Len(words)
  <2>1. BufferWords \in Nat \ {0}
    BY Geometry
  <2> QED
    BY <2>1, PiecesFacts, Zenon
<1> HIDE DEF bufs
<1>2. b \in Nat /\ BlockAt(b, k) \in Nat /\ Len(bufs) \in Nat
  <2>1. b \in Nat /\ 0 \in 0 .. BlockWords - 1
    BY BanksFacts, Geometry
  <2>2. BlockAt(b, k) \in Nat
    BY <2>1, BlockAtValue
  <2> QED
    BY <1>1, <2>1, <2>2
<1>3. ASSUME NEW i \in 1 .. Len(bufs) PROVE buffer_program(at(i), bufs[i]) \in StepsTo(f)
  <2> DEFINE m == (i - 1) * BufferWords
             ws == bufs[i]
  <2>1. /\ ws \in Seq(Word) /\ Len(ws) \in 1 .. BufferWords /\ m \in Nat
        /\ m + Len(ws) <= Len(words)
    BY <1>1
  <2> HIDE DEF m, ws
  <2>2. Len(ws) \in Nat /\ Len(ws) > 0 /\ m + Len(ws) <= BlockWords /\ Len(words) \in Nat
    BY <2>1, Geometry
  <2>3. ASSUME NEW j \in 0 .. Len(ws) - 1 PROVE (BlockAt(b, k) + m) + j \in Region(f)
    <3>1. m + j \in 0 .. BlockWords - 1 /\ (BlockAt(b, k) + m) + j = BlockAt(b, k) + (m + j)
      BY <1>2, <2>1, <2>2, Geometry, SMTT(30)
    <3>2. BlockAt(b, k) + (m + j) \in Region(f)
      BY <3>1, RegionBank
    <3> QED
      BY <3>1, <3>2
  <2>4. BlockAt(b, k) + m \in Nat
    BY <1>2, <2>1
  <2>5. buffer_program(BlockAt(b, k) + m, ws) \in StepsTo(f)
    BY <2>1, <2>2, <2>3, <2>4, BufferSteps
  <2> QED
    BY <2>5 DEF m, ws
<1>4. block_program(b, k, words) = [i \in 1 .. Len(bufs) |-> buffer_program(at(i), bufs[i])]
  BY <1>1 DEF block_program, bufs
<1> HIDE DEF at
<1> QED
  BY <1>2, <1>3, <1>4

(* A bank, one block after the other. *)
LEMMA BankContents ==
  ASSUME NEW f \in Files, NEW b \in 0 .. Len(BanksOf(f)) - 1,
         NEW words \in Seq(Word), Len(words) <= BankWords
  PROVE  bank_program(b, words) \in Seq(StepsTo(f))
<1> DEFINE blks == Pieces(words, BlockWords)
           prog == [k \in DOMAIN blks |-> block_program(b, k - 1, blks[k])]
<1>1. /\ blks \in Seq(Seq(Word)) /\ Len(blks) = (Len(words) + BlockWords - 1) \div BlockWords
      /\ \A k \in 1 .. Len(blks) : blks[k] \in Seq(Word) /\ Len(blks[k]) \in 1 .. BlockWords
  <2>1. BlockWords \in Nat \ {0}
    BY Geometry
  <2> QED
    BY <2>1, PiecesFacts, Zenon
<1>2. Len(blks) \in Nat /\ Len(blks) <= Blocks
  <2>1. IsCeiling(Len(words), BlockWords, Len(blks))
    BY <1>1, Geometry, Ceiling
  <2> QED
    BY <2>1, Geometry DEF IsCeiling
<1> HIDE DEF blks
<1>3. ASSUME NEW k \in 1 .. Len(blks)
      PROVE  block_program(b, k - 1, blks[k]) \in Seq(StepsTo(f))
  <2>1. k - 1 \in 0 .. Blocks - 1 /\ Len(blks[k]) <= BlockWords /\ blks[k] \in Seq(Word)
    BY <1>1, <1>2, Geometry
  <2> QED
    BY <2>1, BlockContents
<1>4. prog \in Seq(Seq(StepsTo(f)))
  <2>1. DOMAIN blks = 1 .. Len(blks)
    BY <1>1
  <2>2. prog \in [1 .. Len(blks) -> Seq(StepsTo(f))]
    BY <1>3, <2>1
  <2> QED
    BY <1>2, <2>2
<1>5. bank_program(b, words) = FlattenSeq(prog)
  BY DEF bank_program, blks
<1> HIDE DEF prog
<1> QED
  BY <1>4, <1>5, FlattenType

(* The serial numbers are read from the first two blocks of the last bank. *)
LEMMA NumberSteps ==
  ASSUME NEW f \in Files, NEW k \in {0, 1}, NEW then \in Ends
  PROVE  read_num(k, then) \in Seq(StepsTo(f)) /\ Len(read_num(k, then)) \in Nat
<1> DEFINE s == BlockAt(SerialBank, 0)
           from == BlockAt(SerialBank, k)
           third == Step(<<Write(s, "0xFF")>>, then,
                         [i \in 1 .. SerialWords |-> from + SerialWords - i])
<1>1. s \in Region(f) /\ s \in Nat /\ from \in Nat
  <2>1. 0 \in 0 .. BlockWords - 1 /\ k \in 0 .. Blocks - 1 /\ 0 \in 0 .. Blocks - 1
    BY Geometry
  <2>2. s \in Nat /\ from \in Nat
    BY <2>1, BlockAtValue, Geometry
  <2>3. s + 0 \in Region(f)
    BY <2>1, RegionSerial
  <2> QED
    BY <2>2, <2>3
<1>2. read_num(k, then) = <<set_config_register(AsyncMode), clear_stats_regs, third>>
  BY DEF read_num
<1>3. third \in StepsTo(f)
  <2> HIDE DEF s, from
  <2>1. "0xFF" \in Commands
    BY DEF Commands
  <2>2. Write(s, "0xFF") \in WritesTo(f)
    BY <1>1, <2>1, WriteTypes
  <2>3. <<Write(s, "0xFF")>> \in Seq(WritesTo(f))
    BY <2>2
  <2>4. [i \in 1 .. SerialWords |-> from + SerialWords - i] \in Seq(Nat)
    BY <1>1, Geometry
  <2> QED
    BY <2>3, <2>4, StepType
<1> HIDE DEF third
<1> QED
  BY <1>2, <1>3, ModeSteps

(* The logic number is written into the first block of that bank. *)
LEMMA SerialSteps ==
  ASSUME NEW f \in Files, NEW sn \in Seq(Word), Len(sn) = SerialWords
  PROVE  set_logic_num(sn) \in Seq(StepsTo(f))
<1> DEFINE s == BlockAt(SerialBank, 0)
           head == <<set_config_register(AsyncMode), clear_stats_regs,
                     block_unlock(SerialBank, 0), block_erase(SerialBank, 0)>>
           prog == [i \in 1 .. SerialWords |->
                      word_program(s + i - 1, sn[SerialWords + 1 - i])]
<1>1. s \in Nat /\ \A i \in 0 .. BlockWords - 1 : s + i \in Region(f)
  <2>1. 0 \in 0 .. BlockWords - 1 /\ 0 \in 0 .. Blocks - 1
    BY Geometry
  <2> QED
    BY <2>1, BlockAtValue, RegionSerial, Geometry
<1>2. set_logic_num(sn) = head \o prog
  BY DEF set_logic_num
<1>3. head \in Seq(StepsTo(f))
  <2>1. s \in Region(f) /\ 0 \in 0 .. Blocks - 1 /\ SerialBank \in Nat
    <3>1. 0 \in 0 .. BlockWords - 1 /\ s + 0 = s
      BY <1>1, Geometry
    <3> QED
      BY <1>1, <3>1, Geometry
  <2>2. block_unlock(SerialBank, 0) \in StepsTo(f) /\ block_erase(SerialBank, 0) \in StepsTo(f)
    BY <2>1, BlockSteps
  <2> QED
    BY <2>2, ModeSteps
<1> HIDE DEF s, head
<1>4. ASSUME NEW i \in 1 .. SerialWords
      PROVE  word_program(s + i - 1, sn[SerialWords + 1 - i]) \in StepsTo(f)
  <2> DEFINE a == s + i - 1
             w == sn[SerialWords + 1 - i]
  <2>1. i - 1 \in 0 .. BlockWords - 1 /\ a = s + (i - 1)
    BY <1>1, Geometry
  <2>2. a \in Region(f)
    BY <1>1, <2>1
  <2>3. SerialWords + 1 - i \in 1 .. Len(sn)
    BY Geometry
  <2>4. w \in Word
    BY <2>3
  <2> HIDE DEF a, w
  <2>5. a \in Nat /\ Write(a, "0x40") \in WritesTo(f) /\ Data(a, w) \in WritesTo(f)
    <3>1. "0x40" \in Commands
      BY DEF Commands
    <3> QED
      BY <2>2, <2>4, <3>1, WriteTypes
  <2>6. <<Write(a, "0x40"), Data(a, w)>> \in Seq(WritesTo(f)) /\ <<a>> \in Seq(Nat)
    BY <2>5
  <2>7. "programmed" \in Ends
    BY DEF Ends
  <2>8. word_program(a, w) \in StepsTo(f)
    BY <2>6, <2>7, StepType DEF word_program
  <2> QED
    BY <2>8 DEF a, w
<1>5. prog \in Seq(StepsTo(f))
  <2>1. prog \in [1 .. SerialWords -> StepsTo(f)]
    BY <1>4
  <2> QED
    BY <2>1, Geometry
<1> HIDE DEF prog
<1> QED
  BY <1>2, <1>3, <1>5

-----------------------------------------------------------------------------
(* The two tools. *)

(* What a tool may do: its steps write into the region, the last ends it. *)
Allowed(f, ss) ==
  /\ ss \in Seq(StepsTo(f)) /\ Len(ss) \in Nat /\ Len(ss) > 0
  /\ ss[Len(ss)].then \in {"reconfig", "close"}

(* A sequence of steps to which those that end the tool are added. *)
LEMMA LastSteps ==
  ASSUME NEW f, NEW ss \in Seq(StepsTo(f)), NEW ts \in Seq(StepsTo(f)),
         Len(ts) > 0, ts[Len(ts)].then \in {"reconfig", "close"}
  PROVE  Allowed(f, ss \o ts)
<1>1. Len(ss) \in Nat /\ Len(ts) \in Nat
  OBVIOUS
<1>2. ss \o ts \in Seq(StepsTo(f)) /\ Len(ss \o ts) = Len(ss) + Len(ts)
  BY ConcatProperties
<1>3. (ss \o ts)[Len(ss) + Len(ts)] = ts[Len(ts)]
  BY <1>1
<1> QED
  BY <1>1, <1>2, <1>3 DEF Allowed

(* dsn reads the numbers. *)
LEMMA DsnAllowed ==
  ASSUME NEW f \in Files
  PROVE  Allowed(f, Dsn)
<1> DEFINE last == Step(<<>>, "close", <<>>)
           ss == read_hardware_num("show") \o read_logic_num("show")
<1>1. "show" \in Ends /\ "close" \in Ends
  BY DEF Ends
<1>2. ss \in Seq(StepsTo(f))
  <2>1. read_num(1, "show") \in Seq(StepsTo(f)) /\ read_num(0, "show") \in Seq(StepsTo(f))
    BY <1>1, NumberSteps
  <2>2. read_num(1, "show") \o read_num(0, "show") \in Seq(StepsTo(f))
    BY <2>1, ConcatProperties
  <2> QED
    BY <2>2 DEF read_hardware_num, read_logic_num
<1>3. last \in StepsTo(f) /\ last.then = "close"
  <2>1. << >> \in Seq(WritesTo(f)) /\ << >> \in Seq(Nat)
    OBVIOUS
  <2>2. last \in StepsTo(f)
    BY <1>1, <2>1, StepType
  <2> QED
    BY <2>2 DEF Step
<1>4. Dsn = ss \o <<last>>
  BY DEF Dsn
<1> HIDE DEF ss, last
<1>5. /\ <<last>> \in Seq(StepsTo(f)) /\ Len(<<last>>) > 0
      /\ <<last>>[Len(<<last>>)].then \in {"reconfig", "close"}
  BY <1>3
<1> QED
  BY <1>2, <1>4, <1>5, LastSteps

(* isp writes the banks of the image and the block of the logic number. *)
LEMMA IspAllowed ==
  ASSUME NEW f \in Files
  PROVE  Allowed(f, Isp(f))
<1> DEFINE banks == BanksOf(f)
           head == <<set_config_register(AsyncMode), clear_stats_regs>>
           unlock == [b \in DOMAIN banks |-> bank_unlock(b - 1)]
           erase == [b \in DOMAIN banks |-> bank_erase(b - 1)]
           program == [b \in DOMAIN banks |-> bank_program(b - 1, banks[(b - 1) + 1])]
           reads == [b \in DOMAIN banks |-> read_bank(b - 1, Len(banks[b]))]
           compare == Step(<<>>, "compare", <<>>)
           tail == <<compare, set_config_register(SyncMode), reconfig>>
           number == set_logic_num(SerialOf(f))
           show == read_logic_num("show")
           append == read_logic_num("append")
           ss == head \o FlattenSeq(unlock) \o FlattenSeq(erase) \o FlattenSeq(program)
                 \o number \o show \o reads \o append
<1>1. /\ Len(banks) \in Nat /\ DOMAIN banks = 1 .. Len(banks)
      /\ \A b \in 1 .. Len(banks) :
           /\ b - 1 \in 0 .. Len(banks) - 1 /\ (b - 1) + 1 = b
           /\ banks[b] \in Seq(Word) /\ Len(banks[b]) \in Nat /\ Len(banks[b]) <= BankWords
  <2>1. /\ banks \in Seq(Seq(Word)) /\ Len(banks) \in Nat
        /\ \A b \in 1 .. Len(banks) : banks[b] \in Seq(Word) /\ Len(banks[b]) \in 1 .. BankWords
    BY BanksFacts
  <2> HIDE DEF banks
  <2>2. \A b \in 1 .. Len(banks) : b - 1 \in 0 .. Len(banks) - 1 /\ (b - 1) + 1 = b
    BY <2>1
  <2> QED
    BY <2>1, <2>2, Geometry
<1>2. Isp(f) = ss \o tail
  BY DEF Isp
<1>3. head \in Seq(StepsTo(f))
  BY ModeSteps
<1>4. unlock \in Seq(Seq(StepsTo(f))) /\ erase \in Seq(Seq(StepsTo(f)))
  <2>1. \A b \in 1 .. Len(banks) : /\ bank_unlock(b - 1) \in Seq(StepsTo(f))
                                   /\ bank_erase(b - 1) \in Seq(StepsTo(f))
    BY <1>1, BankSteps
  <2> HIDE DEF banks
  <2> QED
    BY <1>1, <2>1
<1>5. program \in Seq(Seq(StepsTo(f)))
  <2>1. \A b \in 1 .. Len(banks) : bank_program(b - 1, banks[(b - 1) + 1]) \in Seq(StepsTo(f))
    BY <1>1, BankContents
  <2> HIDE DEF banks
  <2> QED
    BY <1>1, <2>1
<1>6. reads \in Seq(StepsTo(f))
  <2>1. \A b \in 1 .. Len(banks) : read_bank(b - 1, Len(banks[b])) \in StepsTo(f)
    BY <1>1, BankSteps
  <2> HIDE DEF banks
  <2> QED
    BY <1>1, <2>1
<1>7. number \in Seq(StepsTo(f))
  BY FileFacts, SerialSteps
<1>8. show \in Seq(StepsTo(f)) /\ append \in Seq(StepsTo(f))
  <2>1. "show" \in Ends /\ "append" \in Ends
    BY DEF Ends
  <2> QED
    BY <2>1, NumberSteps DEF read_logic_num
<1>9. /\ tail \in Seq(StepsTo(f)) /\ Len(tail) > 0
      /\ tail[Len(tail)].then \in {"reconfig", "close"}
  <2>1. << >> \in Seq(WritesTo(f)) /\ << >> \in Seq(Nat)
    OBVIOUS
  <2>2. "compare" \in Ends /\ "reconfig" \in Ends
    BY DEF Ends
  <2>3. compare \in StepsTo(f) /\ reconfig \in StepsTo(f)
    BY <2>1, <2>2, StepType DEF reconfig
  <2>4. reconfig.then = "reconfig"
    BY DEF reconfig, Step
  <2> HIDE DEF compare
  <2> QED
    BY <2>3, <2>4, ModeSteps
<1> HIDE DEF banks, head, unlock, erase, program, reads, tail, number, show, append
<1>10. /\ FlattenSeq(unlock) \in Seq(StepsTo(f)) /\ FlattenSeq(erase) \in Seq(StepsTo(f))
       /\ FlattenSeq(program) \in Seq(StepsTo(f))
  BY <1>4, <1>5, FlattenType
<1>11. ss \in Seq(StepsTo(f))
  <2> DEFINE t1 == head \o FlattenSeq(unlock) \o FlattenSeq(erase)
             t2 == t1 \o FlattenSeq(program) \o number
  <2>1. t1 \in Seq(StepsTo(f))
    BY <1>3, <1>10
  <2>2. t2 \in Seq(StepsTo(f))
    <3> HIDE DEF t1
    <3> QED
      BY <1>7, <1>10, <2>1
  <2>3. t2 \o show \o reads \o append \in Seq(StepsTo(f))
    <3> HIDE DEF t2
    <3> QED
      BY <1>6, <1>8, <2>2
  <2> QED
    BY <2>3
<1> HIDE DEF ss
<1> QED
  BY <1>2, <1>9, <1>11, LastSteps

(* Whichever tool runs. *)
LEMMA StepsAllowed ==
  ASSUME file \in Files
  PROVE  Allowed(file, Steps)
<1>1. IspOf[file] = Isp(file)
  BY DEF IspOf
<1> QED
  BY <1>1, IspAllowed, DsnAllowed DEF Steps

(* The step a tool is at, and that another follows unless it ends the tool. *)
LEMMA StepNow ==
  ASSUME file \in Files, RunInv, run.tool # "none"
  PROVE  /\ Now \in StepsTo(file) /\ run.pc \in 1 .. Len(Steps)
         /\ Now.then \notin {"reconfig", "close"} => run.pc + 1 \in 1 .. Len(Steps)
<1>1. Allowed(file, Steps)
  BY StepsAllowed
<1>2. run.pc \in 1 .. Len(Steps)
  BY DEF RunInv
<1>3. Now \in StepsTo(file)
  BY <1>1, <1>2 DEF Now, Allowed
<1>4. ASSUME run.pc = Len(Steps) PROVE Now.then \in {"reconfig", "close"}
  BY <1>1, <1>4 DEF Now, Allowed
<1>5. run.pc # Len(Steps) => run.pc + 1 \in 1 .. Len(Steps)
  BY <1>1, <1>2 DEF Allowed
<1> QED
  BY <1>2, <1>3, <1>4, <1>5

-----------------------------------------------------------------------------
(* The chip. *)

(* An address is a number. *)
LEMMA AddrNat == Addr \subseteq Nat
BY Geometry DEF Addr

(* OthersKept speaks of what is outside of the region. *)
LEMMA OutsideKept ==
  OthersKept <=> \A a \in Addr : a \in Region(file) \/ chip.cells[a] = OldCells[a]
BY AddrNat DEF OthersKept, Region

(* Beginning an operation on cells of the region keeps the chip a chip. *)
LEMMA OperationKept ==
  ASSUME ChipInv, NEW a, NEW op \in {"erase", "program"},
         NEW buf \in SUBSET (Region(file) \X Word)
  PROVE  /\ StartOperation(a, op, buf) \in Chips(file)
         /\ StartOperation(a, op, buf).cells = chip.cells
<1>1. {op, "lock"} \subseteq ErrorBits
  BY DEF ErrorBits
<1>2. Ready \in [st : States, left : Int, buf : SUBSET (Region(file) \X Word)]
  BY DEF Ready, States
<1>3. [st |-> "busy", left |-> 0, buf |-> buf]
        \in [st : States, left : Int, buf : SUBSET (Region(file) \X Word)]
  BY DEF States
<1>4. CASE Locked(a)
  BY <1>1, <1>2, <1>4 DEF StartOperation, ChipInv, Chips
<1>5. CASE ~Locked(a)
  BY <1>3, <1>5 DEF StartOperation, ChipInv, Chips
<1> QED
  BY <1>4, <1>5

(* A command that makes no sense does too. *)
LEMMA ErrorKept ==
  ASSUME ChipInv
  PROVE  SequenceError \in Chips(file) /\ SequenceError.cells = chip.cells
<1>1. {"program", "erase"} \subseteq ErrorBits
  BY DEF ErrorBits
<1>2. Ready \in [st : States, left : Int, buf : SUBSET (Region(file) \X Word)]
  BY DEF Ready, States
<1> QED
  BY <1>1, <1>2 DEF SequenceError, ChipInv, Chips

(* So does the first write of a command. *)
LEMMA FirstKept ==
  ASSUME ChipInv, NEW w \in WritesTo(file)
  PROVE  FirstWrite(w) \in Chips(file) /\ FirstWrite(w).cells = chip.cells
<1>1. CASE w.cmd \in {"0x60", "0x20", "0x40", "0xE8"}
  <2>1. w.cmd \in States
    BY <1>1 DEF States
  <2> DEFINE cui == [chip.cui EXCEPT !.st = w.cmd]
             read == [chip.read EXCEPT ![BankOf(w.addr)] = "status"]
  <2>2. FirstWrite(w) = [chip EXCEPT !.cui = cui, !.read = read]
    BY <1>1 DEF FirstWrite
  <2>3. /\ cui \in [st : States, left : Int, buf : SUBSET (Region(file) \X Word)]
        /\ read \in [Bank -> {"array", "status", "id"}]
    BY <2>1 DEF ChipInv, Chips
  <2> HIDE DEF cui, read
  <2> QED
    BY <2>2, <2>3 DEF ChipInv, Chips
<1>2. CASE w.cmd = "0x50"
  <2>1. FirstWrite(w) = [chip EXCEPT !.sr = {}]
    BY <1>2 DEF FirstWrite
  <2> QED
    BY <2>1 DEF ChipInv, Chips
<1>3. CASE w.cmd = "0x90"
  <2>1. FirstWrite(w) = [chip EXCEPT !.read[BankOf(w.addr)] = "id"]
    BY <1>3 DEF FirstWrite
  <2> QED
    BY <2>1 DEF ChipInv, Chips
<1>4. CASE w.cmd = "0xFF"
  <2>1. FirstWrite(w) = [chip EXCEPT !.read[BankOf(w.addr)] = "array"]
    BY <1>4 DEF FirstWrite
  <2> QED
    BY <2>1 DEF ChipInv, Chips
<1>5. CASE w.cmd \notin {"0x60", "0x20", "0x40", "0xE8", "0x50", "0x90", "0xFF"}
  <2>1. FirstWrite(w) = chip
    BY <1>5 DEF FirstWrite
  <2> QED
    BY <2>1 DEF ChipInv, Chips
<1> QED
  BY <1>1, <1>2, <1>3, <1>4, <1>5

(* And every later one, whichever command it was meant for. *)
LEMMA LaterKept ==
  ASSUME ChipInv, NEW w \in WritesTo(file)
  PROVE  LaterWrite(w) \in Chips(file) /\ LaterWrite(w).cells = chip.cells
<1> DEFINE Changes == SUBSET (Region(file) \X Word)
           Cuis == [st : States, left : Int, buf : Changes]
<1>1. /\ w.addr \in Region(file) /\ w.addr \in Nat /\ w.word \in Word /\ w.n \in Int
      /\ BlockOf(w.addr) \in Nat
  <2>1. w.addr \in Region(file) /\ w.word \in Word /\ w.n \in Int
    BY DEF WritesTo
  <2> QED
    BY <2>1, BankOfBlock DEF Region
<1>2. /\ chip.cui \in Cuis /\ chip.cui.buf \in Changes /\ chip.cui.left \in Int
      /\ chip.cui.st \in States
  BY DEF ChipInv, Chips
<1>3. Ready \in Cuis
  BY DEF Ready, States
<1>4. ASSUME NEW buf \in Changes PROVE Programmed(buf) \in Changes
  BY <1>4 DEF Programmed, Word
<1>5. CASE chip.cui.st = "0x60"
  <2>1. CASE w.cmd = "0xD0"
    <3> DEFINE locked == chip.locked \ {BlockOf(w.addr)}
    <3>1. LaterWrite(w) = [chip EXCEPT !.cui = Ready, !.locked = locked]
      BY <1>5, <2>1 DEF LaterWrite
    <3>2. locked \in SUBSET Nat
      BY DEF ChipInv, Chips
    <3> HIDE DEF locked
    <3> QED
      BY <1>3, <3>1, <3>2 DEF ChipInv, Chips
  <2>2. CASE w.cmd = "0x03"
    <3>1. LaterWrite(w) = [chip EXCEPT !.cui = Ready, !.config = w.addr]
      BY <1>5, <2>2 DEF LaterWrite
    <3> QED
      BY <1>1, <1>3, <3>1 DEF ChipInv, Chips
  <2>3. CASE w.cmd # "0xD0" /\ w.cmd # "0x03"
    <3>1. LaterWrite(w) = SequenceError
      BY <1>5, <2>3 DEF LaterWrite
    <3> QED
      BY <3>1, ErrorKept
  <2> QED
    BY <2>1, <2>2, <2>3
<1>6. CASE chip.cui.st = "0x20"
  <2>1. CASE w.cmd = "0xD0"
    <3> DEFINE buf == {<<a, Ones>> : a \in CellsOf(BlockOf(w.addr))}
    <3>1. LaterWrite(w) = StartOperation(w.addr, "erase", buf)
      BY <1>6, <2>1 DEF LaterWrite
    <3>2. buf \in Changes
      <4>1. CellsOf(BlockOf(w.addr)) \subseteq Region(file) /\ Ones \in Word
        BY <1>1, RegionClosed DEF Ones, Word
      <4> QED
        BY <4>1
    <3> QED
      BY <3>1, <3>2, OperationKept
  <2>2. CASE w.cmd # "0xD0"
    <3>1. LaterWrite(w) = SequenceError
      BY <1>6, <2>2 DEF LaterWrite
    <3> QED
      BY <3>1, ErrorKept
  <2> QED
    BY <2>1, <2>2
<1>7. CASE chip.cui.st = "0x40"
  <2> DEFINE buf == Programmed({<<w.addr, w.word>>})
  <2>1. LaterWrite(w) = StartOperation(w.addr, "program", buf)
    BY <1>7 DEF LaterWrite
  <2>2. buf \in Changes
    <3>1. {<<w.addr, w.word>>} \in Changes
      BY <1>1
    <3> QED
      BY <1>4, <3>1
  <2> QED
    BY <2>1, <2>2, OperationKept
<1>8. CASE chip.cui.st = "0xE8"
  <2>1. CASE w.cmd = "count"
    <3>1. LaterWrite(w) = [chip EXCEPT !.cui = [st |-> "load", left |-> w.n + 1, buf |-> {}]]
      BY <1>8, <2>1 DEF LaterWrite
    <3>2. [st |-> "load", left |-> w.n + 1, buf |-> {}] \in Cuis
      BY <1>1 DEF States
    <3> QED
      BY <3>1, <3>2 DEF ChipInv, Chips
  <2>2. CASE w.cmd # "count"
    <3>1. LaterWrite(w) = SequenceError
      BY <1>8, <2>2 DEF LaterWrite
    <3> QED
      BY <3>1, ErrorKept
  <2> QED
    BY <2>1, <2>2
<1>9. CASE chip.cui.st = "load"
  <2> DEFINE cui == [st |-> IF chip.cui.left = 1 THEN "confirm" ELSE "load",
                     left |-> chip.cui.left - 1,
                     buf |-> chip.cui.buf \cup {<<w.addr, w.word>>}]
  <2>1. LaterWrite(w) = [chip EXCEPT !.cui = cui]
    BY <1>9 DEF LaterWrite
  <2>2. cui \in Cuis
    BY <1>1, <1>2 DEF States
  <2> HIDE DEF cui
  <2> QED
    BY <2>1, <2>2 DEF ChipInv, Chips
<1>10. CASE chip.cui.st = "confirm"
  <2>1. \/ LaterWrite(w) = SequenceError
        \/ LaterWrite(w) = StartOperation(w.addr, "program", Programmed(chip.cui.buf))
    BY <1>10 DEF LaterWrite
  <2>2. Programmed(chip.cui.buf) \in Changes
    BY <1>2, <1>4
  <2> QED
    BY <2>1, <2>2, OperationKept, ErrorKept
<1>11. CASE chip.cui.st = "ready" \/ chip.cui.st = "busy"
  <2>1. LaterWrite(w) = chip
    BY <1>11 DEF LaterWrite
  <2> QED
    BY <2>1 DEF ChipInv, Chips
<1> QED
  BY <1>2, <1>5, <1>6, <1>7, <1>8, <1>9, <1>10, <1>11 DEF States

(* The end of an operation changes no cell outside of the region. *)
LEMMA ChangedKept ==
  ASSUME ChipInv, NEW buf \in SUBSET (Region(file) \X Word)
  PROVE  /\ Changed(buf) \in [Addr -> Word]
         /\ \A a \in Addr : a \in Region(file) \/ Changed(buf)[a] = chip.cells[a]
<1>1. chip.cells \in [Addr -> Word]
  BY DEF ChipInv, Chips
<1>2. ASSUME NEW a \in Addr
      PROVE  Changed(buf)[a] \in Word /\ (a \in Region(file) \/ Changed(buf)[a] = chip.cells[a])
  <2>1. CASE \E p \in buf : p[1] = a
    <3> DEFINE q == CHOOSE p \in buf : p[1] = a
    <3>1. q \in buf /\ q[1] = a
      BY <2>1
    <3>2. Changed(buf)[a] = q[2]
      BY <2>1 DEF Changed
    <3> HIDE DEF q
    <3> QED
      BY <3>1, <3>2
  <2>2. CASE ~\E p \in buf : p[1] = a
    BY <1>1, <2>2 DEF Changed
  <2> QED
    BY <2>1, <2>2
<1>3. Changed(buf) = [a \in Addr |-> Changed(buf)[a]]
  BY DEF Changed
<1> QED
  BY <1>2, <1>3

-----------------------------------------------------------------------------
(* The invariant is established and kept. *)

(* A fresh flash, and no tool at work. *)
LEMMA FlashInit == Init => FlashInv
<1> SUFFICES ASSUME Init PROVE FlashInv
  OBVIOUS
<1>1. file \in Files
  BY DEF Init, Files
<1>2. ChipInv
  <2>1. Ready \in [st : States, left : Int, buf : SUBSET (Region(file) \X Word)]
    BY DEF Ready, States
  <2>2. AllBlocks \subseteq Nat
    BY AddrNat, BankOfBlock DEF AllBlocks
  <2>3. chip = [cells |-> OldCells, cui |-> Ready, sr |-> {}, config |-> SyncMode,
                locked |-> AllBlocks, read |-> [b \in Bank |-> "array"]]
    BY DEF Init
  <2>4. OldCells \in [Addr -> Word] /\ SyncMode \in Nat
    BY FlashAssumption DEF SyncMode
  <2> QED
    BY <2>1, <2>2, <2>3, <2>4 DEF ChipInv, Chips
<1>3. RunInv
  BY DEF Init, Idle, RunInv
<1>4. OthersKept
  BY DEF Init, OthersKept
<1> QED
  BY <1>1, <1>2, <1>3, <1>4 DEF FlashInv

(* A step of the tool that leaves the chip and the file alone keeps all but *)
(* the place of the run.                                                    *)
LEMMA RestKept ==
  ASSUME FlashInv, UNCHANGED <<chip, file>>
  PROVE  file' \in Files /\ ChipInv' /\ OthersKept'
BY DEF FlashInv, ChipInv, Chips, Region, OthersKept

(* The tool goes on to its next step, if it has one, or ends. *)
LEMMA RunKept ==
  ASSUME FlashInv, UNCHANGED file
  PROVE  /\ \A how : EndRun(how) => RunInv'
         /\ \A words : NextStep(words) /\ run.tool # "none"
                         /\ Now.then \notin {"reconfig", "close"} => RunInv'
<1>1. file \in Files /\ RunInv
  BY DEF FlashInv
<1>2. ASSUME NEW how, EndRun(how) PROVE RunInv'
  BY <1>2 DEF EndRun, Idle, RunInv
<1>3. ASSUME NEW words, NextStep(words), run.tool # "none",
             Now.then \notin {"reconfig", "close"}
      PROVE  RunInv'
  <2>1. run.pc + 1 \in 1 .. Len(Steps)
    BY <1>1, <1>3, StepNow
  <2>2. /\ run'.tool = run.tool /\ run'.pc = run.pc + 1 /\ run'.k = 0
        /\ run' = [tool |-> run'.tool, pc |-> run'.pc, k |-> run'.k, out |-> run'.out]
    BY <1>1, <1>3 DEF NextStep, RunInv
  <2>3. Steps' = Steps
    BY <2>2 DEF Steps
  <2> QED
    BY <1>1, <2>1, <2>2, <2>3 DEF RunInv
<1> QED
  BY <1>2, <1>3

(* A write by the tool, meant for the command the chip is in or not. *)
LEMMA WriteKept ==
  ASSUME FlashInv, FlashWrite
  PROVE  FlashInv'
<1> DEFINE w == Now.writes[run.k + 1]
<1>1. file \in Files /\ ChipInv /\ RunInv /\ run.tool # "none" /\ file' = file
  BY DEF FlashInv, FlashWrite
<1>2. w \in WritesTo(file)
  <2>1. Now.writes \in Seq(WritesTo(file))
    BY <1>1, StepNow DEF StepsTo
  <2>2. run.k + 1 \in 1 .. Len(Now.writes)
    BY <1>1, <2>1 DEF FlashWrite, RunInv
  <2> QED
    BY <2>1, <2>2
<1>3. chip' = AfterWrite(w)
  BY DEF FlashWrite
<1>4. chip' \in Chips(file) /\ chip'.cells = chip.cells
  <2> HIDE DEF w
  <2> QED
    BY <1>1, <1>2, <1>3, FirstKept, LaterKept DEF AfterWrite
<1>5. ChipInv'
  BY <1>1, <1>4 DEF ChipInv, Chips, Region
<1>6. OthersKept'
  BY <1>1, <1>4 DEF FlashInv, OthersKept
<1>7. RunInv'
  <2>1. /\ run'.tool = run.tool /\ run'.pc = run.pc /\ run'.k \in {0, run.k + 1}
        /\ run' = [tool |-> run'.tool, pc |-> run'.pc, k |-> run'.k, out |-> run'.out]
    BY <1>1 DEF FlashWrite, RunInv
  <2>2. Steps' = Steps
    BY <1>1, <2>1 DEF Steps
  <2> QED
    BY <1>1, <2>1, <2>2 DEF RunInv
<1> QED
  BY <1>1, <1>5, <1>6, <1>7 DEF FlashInv

(* The chip finishes what it was at, or fails at it. *)
LEMMA CellsKept ==
  ASSUME FlashInv, UNCHANGED <<file, run>>,
         NEW buf \in SUBSET chip.cui.buf, NEW sr \in SUBSET ErrorBits,
         chip' = [chip EXCEPT !.cui = Ready, !.sr = sr, !.cells = Changed(buf)]
  PROVE  FlashInv'
<1>1. file \in Files /\ ChipInv /\ RunInv /\ OthersKept
  BY DEF FlashInv
<1>2. buf \in SUBSET (Region(file) \X Word)
  BY <1>1 DEF ChipInv, Chips
<1>3. /\ Changed(buf) \in [Addr -> Word]
      /\ \A a \in Addr : a \in Region(file) \/ Changed(buf)[a] = chip.cells[a]
  BY <1>1, <1>2, ChangedKept
<1>4. Ready \in [st : States, left : Int, buf : SUBSET (Region(file) \X Word)]
  BY DEF Ready, States
<1> DEFINE cells == Changed(buf)
<1>5. chip' = [chip EXCEPT !.cui = Ready, !.sr = sr, !.cells = cells]
  OBVIOUS
<1>6. cells \in [Addr -> Word]
  BY <1>3
<1> HIDE DEF cells
<1>7. chip' \in Chips(file) /\ chip'.cells = cells
  BY <1>1, <1>4, <1>5, <1>6 DEF ChipInv, Chips
<1>8. ChipInv'
  BY <1>7 DEF ChipInv, Chips, Region
<1>9. OthersKept'
  <2>1. \A a \in Addr : a \in Region(file) \/ chip.cells[a] = OldCells[a]
    BY <1>1, OutsideKept
  <2>2. \A a \in Addr : a \in Region(file) \/ chip'.cells[a] = OldCells[a]
    BY <1>3, <1>7, <2>1 DEF cells
  <2> QED
    BY <2>2, AddrNat DEF OthersKept, Region
<1>10. RunInv'
  BY <1>1 DEF RunInv, Steps
<1> QED
  BY <1>1, <1>8, <1>9, <1>10 DEF FlashInv

(* A tool begins, with its first step, whatever the chip was left in. *)
LEMMA StartKept ==
  ASSUME FlashInv, NEW tool \in {"isp", "dsn"}, Start(tool)
  PROVE  FlashInv'
<1>1. UNCHANGED <<chip, file>> /\ file \in Files
  BY DEF FlashInv, Start
<1>2. run' = [tool |-> tool, pc |-> 1, k |-> 0, out |-> <<>>]
  BY DEF Start
<1>3. Allowed(file, IspOf[file]) /\ Allowed(file, Dsn)
  <2>1. IspOf[file] = Isp(file)
    BY <1>1 DEF IspOf
  <2> QED
    BY <1>1, <2>1, IspAllowed, DsnAllowed
<1>4. Steps' = IspOf[file] \/ Steps' = Dsn
  BY <1>1 DEF Steps
<1>5. 1 \in 1 .. Len(Steps')
  BY <1>3, <1>4 DEF Allowed
<1>6. RunInv'
  BY <1>2, <1>5 DEF RunInv
<1> QED
  BY <1>1, <1>6, RestKept DEF FlashInv

(* The file grows only while no tool runs, and the region with it. *)
LEMMA GsnKept ==
  ASSUME FlashInv, Gsn
  PROVE  FlashInv'
<1>1. /\ run.tool = "none" /\ file \in Images /\ file' = file \o NewSerial
      /\ chip' = chip /\ run' = run
  BY DEF Gsn
<1>2. file \in Files /\ file' \in Files
  BY <1>1 DEF Files
<1>3. Region(file) \subseteq Region(file')
  <2>1. file \in Seq(Word) /\ Len(file') = Len(file) + SerialWords
    BY <1>1, <1>2, FileAssumption, FileFacts, ConcatProperties
  <2> QED
    BY <1>2, <2>1, RegionGrows, Geometry
<1>4. ChipInv'
  <2>1. chip \in Chips(file)
    BY DEF FlashInv, ChipInv
  <2>2. chip' \in Chips(file')
    BY <1>1, <1>3, <2>1 DEF Chips
  <2>3. ChipInv' <=> chip' \in Chips(file')
    BY DEF ChipInv, Chips, Region
  <2> QED
    BY <2>2, <2>3
<1>5. OthersKept'
  <2>1. \A a \in Addr : a \in Region(file) \/ chip.cells[a] = OldCells[a]
    BY OutsideKept DEF FlashInv
  <2>2. \A a \in Addr : a \in Region(file') \/ chip'.cells[a] = OldCells[a]
    BY <1>1, <1>3, <2>1
  <2> QED
    BY <2>2, AddrNat DEF OthersKept, Region
<1>6. RunInv'
  BY <1>1 DEF FlashInv, RunInv
<1> QED
  BY <1>2, <1>4, <1>5, <1>6 DEF FlashInv

(* The power comes back to a chip that does nothing, with its cells. *)
LEMMA PowerKept ==
  ASSUME FlashInv, PowerCycle
  PROVE  FlashInv'
<1>1. file \in Files /\ ChipInv /\ RunInv /\ OthersKept /\ file' = file /\ run' = run
  BY DEF FlashInv, PowerCycle
<1>2. chip' = [chip EXCEPT !.cui = Ready, !.sr = {}, !.config = SyncMode,
                           !.locked = AllBlocks, !.read = [b \in Bank |-> "array"]]
  BY DEF PowerCycle
<1>3. Ready \in [st : States, left : Int, buf : SUBSET (Region(file) \X Word)]
  BY DEF Ready, States
<1>4. AllBlocks \subseteq Nat /\ SyncMode \in Nat
  BY AddrNat, BankOfBlock DEF AllBlocks, SyncMode
<1>5. chip' \in Chips(file) /\ chip'.cells = chip.cells
  BY <1>1, <1>2, <1>3, <1>4 DEF ChipInv, Chips
<1>6. ChipInv'
  BY <1>1, <1>5 DEF ChipInv, Chips, Region
<1>7. OthersKept'
  BY <1>1, <1>5 DEF OthersKept
<1>8. RunInv'
  BY <1>1 DEF RunInv, Steps
<1> QED
  BY <1>1, <1>6, <1>7, <1>8 DEF FlashInv

(* Every step keeps the invariant. *)
LEMMA FlashNext == FlashInv /\ [Next]_vars => FlashInv'
<1> SUFFICES ASSUME FlashInv, [Next]_vars PROVE FlashInv'
  OBVIOUS
<1>1. CASE FlashWrite
  BY <1>1, WriteKept
<1>2. CASE PollStatus
  <2>1. UNCHANGED <<chip, file>> /\ run.tool # "none" /\ Now.then \in {"programmed", "erased"}
    BY <1>2 DEF PollStatus, WritesDone
  <2>2. NextStep(<<>>) \/ EndRun("exit")
    BY <1>2 DEF PollStatus
  <2>3. RunInv'
    BY <2>1, <2>2, RunKept
  <2> QED
    BY <2>1, <2>3, RestKept DEF FlashInv
<1>3. CASE CheckUnlocked
  <2>1. UNCHANGED <<chip, file>> /\ run.tool # "none" /\ Now.then \in {"unlocked"}
    BY <1>3 DEF CheckUnlocked, WritesDone
  <2>2. NextStep(<<>>) \/ EndRun("exit")
    BY <1>3 DEF CheckUnlocked
  <2>3. RunInv'
    BY <2>1, <2>2, RunKept
  <2> QED
    BY <2>1, <2>3, RestKept DEF FlashInv
<1>4. CASE ReadOn
  <2>1. UNCHANGED <<chip, file>> /\ run.tool # "none" /\ Now.then \in {"next", "show", "append"}
    BY <1>4 DEF ReadOn, WritesDone
  <2>2. PICK words : NextStep(words)
    BY <1>4 DEF ReadOn
  <2>3. RunInv'
    BY <2>1, <2>2, RunKept
  <2> QED
    BY <2>1, <2>3, RestKept DEF FlashInv
<1>5. CASE Compare
  <2>1. UNCHANGED <<chip, file>> /\ run.tool # "none" /\ Now.then \in {"compare"}
    BY <1>5 DEF Compare, WritesDone
  <2>2. NextStep(<<>>) \/ EndRun("differs")
    BY <1>5 DEF Compare
  <2>3. RunInv'
    BY <2>1, <2>2, RunKept
  <2> QED
    BY <2>1, <2>3, RestKept DEF FlashInv
<1>6. CASE Finish
  <2>1. UNCHANGED <<chip, file>> /\ \E how : EndRun(how)
    BY <1>6 DEF Finish
  <2>2. RunInv'
    BY <2>1, RunKept
  <2> QED
    BY <2>1, <2>2, RestKept DEF FlashInv
<1>7. CASE Kill
  <2>1. UNCHANGED <<chip, file>> /\ EndRun("killed")
    BY <1>7 DEF Kill
  <2>2. RunInv'
    BY <2>1, RunKept
  <2> QED
    BY <2>1, <2>2, RestKept DEF FlashInv
<1>8. CASE ChipDone
  <2>1. /\ UNCHANGED <<file, run>> /\ chip.sr \in SUBSET ErrorBits
        /\ chip' = [chip EXCEPT !.cui = Ready, !.cells = Changed(chip.cui.buf)]
    BY <1>8 DEF ChipDone, FlashInv, ChipInv, Chips
  <2> DEFINE cells == Changed(chip.cui.buf)
  <2>2. chip' = [chip EXCEPT !.cui = Ready, !.sr = chip.sr, !.cells = cells]
    <3> HIDE DEF cells
    <3> QED
      BY <2>1 DEF cells, FlashInv, ChipInv, Chips
  <2> QED
    BY <2>1, <2>2, CellsKept
<1>9. ASSUME NEW reported \in {{}, {"VPP"}, {"program", "erase"}}, ChipFault(reported)
      PROVE  FlashInv'
  <2>1. UNCHANGED <<file, run>> /\ chip.sr \in SUBSET ErrorBits
    BY <1>9 DEF ChipFault, FlashInv, ChipInv, Chips
  <2>2. PICK failed :
          chip' = [chip EXCEPT !.cui = Ready, !.sr = @ \cup reported,
                               !.cells = Changed(chip.cui.buf \ failed)]
    BY <1>9 DEF ChipFault
  <2>3. chip.sr \cup reported \in SUBSET ErrorBits /\ chip.cui.buf \ failed \in SUBSET chip.cui.buf
    BY <2>1 DEF ErrorBits
  <2> QED
    BY <2>1, <2>2, <2>3, CellsKept
<1>10. CASE UNCHANGED vars
  <2>1. UNCHANGED <<chip, file, run>>
    BY <1>10 DEF vars
  <2>2. RunInv'
    BY <2>1 DEF FlashInv, RunInv, Steps
  <2> QED
    BY <2>1, <2>2, RestKept DEF FlashInv
<1> QED
  BY <1>1, <1>2, <1>3, <1>4, <1>5, <1>6, <1>7, <1>8, <1>9, <1>10,
     StartKept, GsnKept, PowerKept DEF Next, ToolStep

-----------------------------------------------------------------------------
(* What every update keeps. *)

(* Whatever the chip is in the middle of, and whichever tool writes next,   *)
(* what may change lies in the banks of the image and the block of the      *)
(* logic number.                                                            *)
THEOREM FlashInductive == Spec => []FlashInv
<1> QED
  BY FlashInit, FlashNext, PTL DEF Spec

(* Every cell outside of these keeps its value for ever, the hardware       *)
(* number among them: runs that fail, are killed within a command or follow *)
(* such a run included.                                                     *)
THEOREM OthersSurvive == Spec => []OthersKept
<1>1. FlashInv => OthersKept
  BY DEF FlashInv
<1> QED
  BY <1>1, FlashInductive, PTL

-----------------------------------------------------------------------------
(* What an update writes and reads, word by word. *)

(* Sequence t is in s, behind the first a elements. *)
Lies(s, t, a) ==
  /\ a + Len(t) <= Len(s)
  /\ \A i \in 1 .. Len(t) : s[a + i] = t[i]

(* Two sequences put together. *)
LEMMA JoinLies ==
  ASSUME NEW S, NEW s \in Seq(S), NEW t \in Seq(S)
  PROVE  /\ s \o t \in Seq(S) /\ Len(s \o t) = Len(s) + Len(t)
         /\ Lies(s \o t, s, 0) /\ Lies(s \o t, t, Len(s))
<1>1. s \o t \in Seq(S) /\ Len(s \o t) = Len(s) + Len(t)
  BY ConcatProperties
<1>2. Len(s) \in Nat /\ Len(t) \in Nat
  OBVIOUS
<1>3. \A i \in 1 .. Len(s) : (s \o t)[0 + i] = s[i]
  BY <1>2
<1>4. \A i \in 1 .. Len(t) : (s \o t)[Len(s) + i] = t[i]
  BY <1>2
<1> QED
  BY <1>1, <1>2, <1>3, <1>4 DEF Lies

(* What lies in the first of them lies in both. *)
LEMMA LiesOn ==
  ASSUME NEW S, NEW s \in Seq(S), NEW t \in Seq(S), NEW r \in Seq(S), NEW a \in Nat,
         Lies(s, t, a), Lies(r, s, 0)
  PROVE  Lies(r, t, a)
<1>1. Len(s) \in Nat /\ Len(t) \in Nat /\ Len(r) \in Nat
  OBVIOUS
<1>2. /\ a + Len(t) <= Len(s) /\ 0 + Len(s) <= Len(r)
      /\ \A i \in 1 .. Len(t) : s[a + i] = t[i]
      /\ \A i \in 1 .. Len(s) : r[0 + i] = s[i]
  BY DEF Lies
<1>3. a + Len(t) <= Len(r)
  BY <1>1, <1>2
<1>4. ASSUME NEW i \in 1 .. Len(t) PROVE r[a + i] = t[i]
  <2>1. a + i \in 1 .. Len(s) /\ 0 + (a + i) = a + i
    BY <1>1, <1>2
  <2>2. r[0 + (a + i)] = s[a + i]
    BY <1>2, <2>1
  <2> QED
    BY <1>2, <2>1, <2>2
<1> QED
  BY <1>3, <1>4 DEF Lies

(* A piece is the part of the sequence from its place on, the last one what is left. *)
PieceIs(ws, n, i, p) ==
  /\ Len(p) = IF i * n < Len(ws) THEN n ELSE Len(ws) - (i - 1) * n
  /\ \A j \in 1 .. Len(p) : p[j] = ws[(i - 1) * n + j]

(* Each piece is as long as the rest allows, and lies one after the other. *)
LEMMA PieceAt ==
  ASSUME NEW S, NEW ws \in Seq(S), NEW n \in Nat \ {0}, NEW i \in 1 .. Len(Pieces(ws, n))
  PROVE  PieceIs(ws, n, i, Pieces(ws, n)[i])
<1> DEFINE c == (Len(ws) + n - 1) \div n
           last(h) == IF h * n < Len(ws) THEN h * n ELSE Len(ws)
           piece(h) == SubSeq(ws, (h - 1) * n + 1, last(h))
           b == (i - 1) * n
           e == last(i)
<1>1. Len(ws) \in Nat /\ \A j \in 1 .. Len(ws) : ws[j] \in S
  OBVIOUS
<1>2. IsCeiling(Len(ws), n, c)
  BY <1>1, Ceiling, Zenon
<1>3. Len(Pieces(ws, n)) = c
  BY PiecesFacts, Zenon
<1>4. i \in 1 .. c
  BY <1>3
<1>5. b \in Nat /\ b < Len(ws) /\ i * n = b + n
  <2> HIDE DEF c
  <2>1. (i - 1) * n \in Nat /\ (i - 1) * n < Len(ws)
    BY <1>2, <1>4 DEF IsCeiling
  <2> QED
    BY <1>2, <1>4, <2>1 DEF IsCeiling
<1>6. Pieces(ws, n)[i] = SubSeq(ws, b + 1, e)
  <2>1. Pieces(ws, n) = [h \in 1 .. c |-> piece(h)]
    BY DEF Pieces
  <2> HIDE DEF c, piece
  <2>2. Pieces(ws, n)[i] = piece(i)
    BY <1>4, <2>1
  <2> QED
    BY <2>2 DEF piece
<1>7. e \in Nat /\ b + 1 <= e /\ e <= Len(ws) /\ e = IF i * n < Len(ws) THEN b + n ELSE Len(ws)
  BY <1>1, <1>5
<1> HIDE DEF b, e
<1>8. /\ Len(SubSeq(ws, b + 1, e)) = e - b
      /\ \A j \in 1 .. e - b : SubSeq(ws, b + 1, e)[j] = ws[b + j]
  <2>1. \A j \in b + 1 .. e : ws[j] \in S
    BY <1>1, <1>5, <1>7
  <2>2. /\ Len(SubSeq(ws, b + 1, e)) = e - b
        /\ \A j \in 1 .. e - b : SubSeq(ws, b + 1, e)[j] = ws[(b + 1) + j - 1]
    BY <1>5, <1>7, <2>1, SubSeqProperties
  <2>3. \A j \in 1 .. e - b : (b + 1) + j - 1 = b + j
    BY <1>5
  <2> QED
    BY <2>2, <2>3
<1>9. Len(Pieces(ws, n)[i]) = IF i * n < Len(ws) THEN n ELSE Len(ws) - b
  BY <1>1, <1>5, <1>6, <1>7, <1>8
<1>10. \A j \in 1 .. Len(Pieces(ws, n)[i]) : Pieces(ws, n)[i][j] = ws[b + j]
  BY <1>6, <1>8
<1> QED
  BY <1>9, <1>10 DEF b, PieceIs

(* No word is left out. *)
LEMMA PieceOf ==
  ASSUME NEW S, NEW ws \in Seq(S), NEW n \in Nat \ {0}, NEW x \in 1 .. Len(ws)
  PROVE  \E i \in 1 .. Len(Pieces(ws, n)) : \E j \in 1 .. Len(Pieces(ws, n)[i]) :
           x = (i - 1) * n + j
<1> DEFINE c == Len(Pieces(ws, n))
<1>1. Len(ws) \in Nat
  OBVIOUS
<1>2. c \in Nat /\ Len(ws) <= c * n
  <2>1. c = (Len(ws) + n - 1) \div n
    BY PiecesFacts, Zenon
  <2>2. IsCeiling(Len(ws), n, (Len(ws) + n - 1) \div n)
    BY <1>1, Ceiling, Zenon
  <2> HIDE DEF c
  <2> QED
    BY <2>1, <2>2 DEF IsCeiling
<1>3. PICK q \in Nat, r \in 0 .. n - 1 : x - 1 = n * q + r
  <2>1. x - 1 \in Nat
    OBVIOUS
  <2>2. /\ x - 1 = n * ((x - 1) \div n) + ((x - 1) % n)
        /\ (x - 1) \div n \in Nat /\ (x - 1) % n \in 0 .. n - 1
    BY <2>1
  <2> QED
    BY <2>2
<1>4. q + 1 \in 1 .. c
  <2>1. q >= c => q * n >= c * n
    BY <1>2
  <2>2. q * n = n * q /\ n * q \in Nat /\ c * n \in Nat
    BY <1>2
  <2> HIDE DEF c
  <2> QED
    BY <1>1, <1>2, <1>3, <2>1, <2>2
<1>5. r + 1 \in 1 .. Len(Pieces(ws, n)[q + 1]) /\ x = ((q + 1) - 1) * n + (r + 1)
  <2>1. Len(Pieces(ws, n)[q + 1]) =
          IF (q + 1) * n < Len(ws) THEN n ELSE Len(ws) - ((q + 1) - 1) * n
    <3>1. \A i \in 1 .. Len(Pieces(ws, n)) :
            Len(Pieces(ws, n)[i]) = IF i * n < Len(ws) THEN n ELSE Len(ws) - (i - 1) * n
      <4>1. \A i \in 1 .. Len(Pieces(ws, n)) : PieceIs(ws, n, i, Pieces(ws, n)[i])
        BY PieceAt, Zenon
      <4> QED
        BY <4>1 DEF PieceIs
    <3> QED
      BY <1>4, <3>1
  <2>2. ((q + 1) - 1) * n = n * q /\ n * q \in Nat
    OBVIOUS
  <2> QED
    BY <1>1, <1>3, <2>1, <2>2
<1> QED
  BY <1>4, <1>5

(* The image is the file without its last words. *)
LEMMA ImageAt ==
  ASSUME NEW f \in Files
  PROVE  /\ \A i \in 1 .. Len(ImageOf(f)) : ImageOf(f)[i] = f[i]
         /\ \A i \in 1 .. SerialWords : SerialOf(f)[i] = f[Len(ImageOf(f)) + i]
         /\ Len(f) = Len(ImageOf(f)) + SerialWords
<1> DEFINE m == Len(f) - SerialWords
<1>1. f \in Seq(Word) /\ Len(f) \in Nat /\ m \in Nat /\ m > 0 /\ m + SerialWords = Len(f)
  <2>1. f \in Seq(Word) /\ Len(ImageOf(f)) = m /\ Len(ImageOf(f)) \in Nat /\ Len(ImageOf(f)) > 0
    BY FileFacts
  <2> QED
    BY <2>1, Geometry
<1> HIDE DEF m
<1>2. \A i \in 1 .. m : SubSeq(f, 1, m)[i] = f[i]
  <2>1. \A i \in 1 .. m : f[i] \in Word
    BY <1>1, Geometry
  <2>2. \A i \in 1 .. m - 1 + 1 : SubSeq(f, 1, m)[i] = f[1 + i - 1]
    BY <1>1, <2>1, SubSeqProperties
  <2>3. m - 1 + 1 = m /\ \A i \in 1 .. m : 1 + i - 1 = i
    BY <1>1
  <2> QED
    BY <2>2, <2>3
<1>3. \A i \in 1 .. SerialWords : SubSeq(f, m + 1, Len(f))[i] = f[m + i]
  <2>1. \A i \in m + 1 .. Len(f) : f[i] \in Word
    BY <1>1
  <2>2. \A i \in 1 .. Len(f) - (m + 1) + 1 : SubSeq(f, m + 1, Len(f))[i] = f[(m + 1) + i - 1]
    BY <1>1, <2>1, Geometry, SubSeqProperties
  <2>3. Len(f) - (m + 1) + 1 = SerialWords /\ \A i \in 1 .. SerialWords : (m + 1) + i - 1 = m + i
    BY <1>1, Geometry
  <2> QED
    BY <2>2, <2>3
<1>4. Len(ImageOf(f)) = m
  BY FileFacts DEF m
<1> QED
  BY <1>1, <1>2, <1>3, <1>4 DEF ImageOf, SerialOf, m

-----------------------------------------------------------------------------
(* The parts of an update, and where each begins. *)

Unlocks(f) == FlattenSeq([b \in DOMAIN BanksOf(f) |-> bank_unlock(b - 1)])
Erases(f) == FlattenSeq([b \in DOMAIN BanksOf(f) |-> bank_erase(b - 1)])
Programs(f) ==
  FlattenSeq([b \in DOMAIN BanksOf(f) |-> bank_program(b - 1, BanksOf(f)[(b - 1) + 1])])
Reads(f) == [b \in DOMAIN BanksOf(f) |-> read_bank(b - 1, Len(BanksOf(f)[b]))]
Setup == <<set_config_register(AsyncMode), clear_stats_regs>>
Closing == <<Step(<<>>, "compare", <<>>), set_config_register(SyncMode), reconfig>>

(* The last step of a part; the number is shown by three steps, the banks are *)
(* read by one each, and the number again by three.                           *)
Unlocked(f) == 2 + Len(Unlocks(f))
Erased(f) == Unlocked(f) + Len(Erases(f))
Filled(f) == Erased(f) + Len(Programs(f))
Numbered(f) == Filled(f) + 4 + SerialWords
Verified(f) == Numbered(f) + Len(BanksOf(f)) + 6

(* What fills a buffer: words of the image, within a block. *)
Buffers(f) ==
  {p \in Nat \X Seq(Word) :
     /\ Len(p[2]) \in 1 .. BufferWords
     /\ BankOf(p[1]) < Len(BanksOf(f))
     /\ p[1] + Len(p[2]) <= Len(ImageOf(f))
     /\ \A j \in 1 .. Len(p[2]) : /\ p[2][j] = f[p[1] + j]
                                 /\ BlockOf(p[1] + j - 1) = BlockOf(p[1])}
UnlockSteps(f) ==
  {block_unlock(p[1], p[2]) : p \in (0 .. Len(BanksOf(f)) - 1) \X (0 .. Blocks - 1)}
EraseSteps(f) ==
  {block_erase(p[1], p[2]) : p \in (0 .. Len(BanksOf(f)) - 1) \X (0 .. Blocks - 1)}
BufferFills(f) == {buffer_program(p[1], p[2]) : p \in Buffers(f)}

(* One of the steps ss fills a buffer with the word at x of the file. *)
Covers(ss, f, x) ==
  \E i \in 1 .. Len(ss) : \E p \in Buffers(f) :
    ss[i] = buffer_program(p[1], p[2]) /\ x \in p[1] + 1 .. p[1] + Len(p[2])

(* The steps, part by part. *)
IspParts(f, s) ==
  /\ Len(s) = Verified(f) + 3
  /\ Lies(s, Setup, 0)
  /\ Lies(s, Unlocks(f), 2)
  /\ Lies(s, Erases(f), Unlocked(f))
  /\ Lies(s, Programs(f), Erased(f))
  /\ Lies(s, set_logic_num(SerialOf(f)), Filled(f))
  /\ Lies(s, read_logic_num("show"), Numbered(f))
  /\ Lies(s, Reads(f), Numbered(f) + 3)
  /\ Lies(s, read_logic_num("append"), Numbered(f) + 3 + Len(BanksOf(f)))
  /\ Lies(s, Closing, Verified(f))

(* The parts are sequences of steps, of known lengths but for the contents. *)
LEMMA PartTypes ==
  ASSUME NEW f \in Files
  PROVE  /\ Unlocks(f) \in Seq(StepsTo(f)) /\ Erases(f) \in Seq(StepsTo(f))
         /\ Programs(f) \in Seq(StepsTo(f)) /\ Reads(f) \in Seq(StepsTo(f))
         /\ Setup \in Seq(StepsTo(f)) /\ Closing \in Seq(StepsTo(f))
         /\ set_logic_num(SerialOf(f)) \in Seq(StepsTo(f))
         /\ read_logic_num("show") \in Seq(StepsTo(f))
         /\ read_logic_num("append") \in Seq(StepsTo(f))
         /\ Len(Setup) = 2 /\ Len(Closing) = 3
         /\ Len(Reads(f)) = Len(BanksOf(f)) /\ Len(BanksOf(f)) \in Nat
         /\ Len(set_logic_num(SerialOf(f))) = 4 + SerialWords
         /\ Len(read_logic_num("show")) = 3 /\ Len(read_logic_num("append")) = 3
<1> DEFINE banks == BanksOf(f)
           unlock == [b \in DOMAIN banks |-> bank_unlock(b - 1)]
           erase == [b \in DOMAIN banks |-> bank_erase(b - 1)]
           program == [b \in DOMAIN banks |-> bank_program(b - 1, banks[(b - 1) + 1])]
<1>1. /\ Len(banks) \in Nat /\ DOMAIN banks = 1 .. Len(banks)
      /\ \A b \in 1 .. Len(banks) :
           /\ b - 1 \in 0 .. Len(banks) - 1 /\ (b - 1) + 1 = b
           /\ banks[b] \in Seq(Word) /\ Len(banks[b]) \in Nat /\ Len(banks[b]) <= BankWords
  <2>1. /\ banks \in Seq(Seq(Word)) /\ Len(banks) \in Nat
        /\ \A b \in 1 .. Len(banks) : banks[b] \in Seq(Word) /\ Len(banks[b]) \in 1 .. BankWords
    BY BanksFacts
  <2> HIDE DEF banks
  <2>2. \A b \in 1 .. Len(banks) : b - 1 \in 0 .. Len(banks) - 1 /\ (b - 1) + 1 = b
    BY <2>1
  <2> QED
    BY <2>1, <2>2, Geometry
<1>2. unlock \in Seq(Seq(StepsTo(f))) /\ erase \in Seq(Seq(StepsTo(f)))
  <2>1. \A b \in 1 .. Len(banks) : /\ bank_unlock(b - 1) \in Seq(StepsTo(f))
                                   /\ bank_erase(b - 1) \in Seq(StepsTo(f))
    BY <1>1, BankSteps
  <2> HIDE DEF banks
  <2> QED
    BY <1>1, <2>1
<1>3. program \in Seq(Seq(StepsTo(f)))
  <2>1. \A b \in 1 .. Len(banks) : bank_program(b - 1, banks[(b - 1) + 1]) \in Seq(StepsTo(f))
    BY <1>1, BankContents
  <2> HIDE DEF banks
  <2> QED
    BY <1>1, <2>1
<1>4. Reads(f) \in Seq(StepsTo(f)) /\ Len(Reads(f)) = Len(banks)
  <2>1. \A b \in 1 .. Len(banks) : read_bank(b - 1, Len(banks[b])) \in StepsTo(f)
    BY <1>1, BankSteps
  <2>2. Reads(f) = [b \in 1 .. Len(banks) |-> read_bank(b - 1, Len(banks[b]))]
    BY <1>1 DEF Reads
  <2> HIDE DEF banks
  <2> QED
    BY <1>1, <2>1, <2>2
<1>5. set_logic_num(SerialOf(f)) \in Seq(StepsTo(f))
      /\ Len(set_logic_num(SerialOf(f))) = 4 + SerialWords
  <2>1. set_logic_num(SerialOf(f)) \in Seq(StepsTo(f))
    BY FileFacts, SerialSteps
  <2> DEFINE head == <<set_config_register(AsyncMode), clear_stats_regs,
                       block_unlock(SerialBank, 0), block_erase(SerialBank, 0)>>
             prog == [i \in 1 .. SerialWords |->
                        word_program(BlockAt(SerialBank, 0) + i - 1,
                                     SerialOf(f)[SerialWords + 1 - i])]
  <2>2. set_logic_num(SerialOf(f)) = head \o prog
    BY DEF set_logic_num
  <2>3. Len(head) = 4 /\ Len(prog) = SerialWords
    BY Geometry
  <2> HIDE DEF head, prog
  <2>4. Len(head \o prog) = Len(head) + Len(prog)
    <3> DEFINE S == {head[i] : i \in 1 .. 4} \cup {prog[i] : i \in 1 .. SerialWords}
    <3>1. head \in Seq(S)
      BY DEF head
    <3>2. prog \in Seq(S)
      BY Geometry DEF prog
    <3> HIDE DEF S
    <3> QED
      BY <3>1, <3>2, ConcatProperties
  <2> QED
    BY <2>1, <2>2, <2>3, <2>4
<1>6. /\ read_logic_num("show") \in Seq(StepsTo(f)) /\ Len(read_logic_num("show")) = 3
      /\ read_logic_num("append") \in Seq(StepsTo(f)) /\ Len(read_logic_num("append")) = 3
  <2>1. "show" \in Ends /\ "append" \in Ends
    BY DEF Ends
  <2>2. /\ read_logic_num("show") \in Seq(StepsTo(f))
        /\ read_logic_num("append") \in Seq(StepsTo(f))
    BY <2>1, NumberSteps DEF read_logic_num
  <2> QED
    BY <2>2 DEF read_logic_num, read_num
<1>7. Setup \in Seq(StepsTo(f)) /\ Len(Setup) = 2
  BY ModeSteps DEF Setup
<1>8. Closing \in Seq(StepsTo(f)) /\ Len(Closing) = 3
  <2>1. << >> \in Seq(WritesTo(f)) /\ << >> \in Seq(Nat)
    OBVIOUS
  <2>2. "compare" \in Ends /\ "reconfig" \in Ends
    BY DEF Ends
  <2>3. Step(<<>>, "compare", <<>>) \in StepsTo(f) /\ reconfig \in StepsTo(f)
    BY <2>1, <2>2, StepType DEF reconfig
  <2> QED
    BY <2>3, ModeSteps DEF Closing
<1>9. /\ Unlocks(f) = FlattenSeq(unlock) /\ Erases(f) = FlattenSeq(erase)
      /\ Programs(f) = FlattenSeq(program)
  BY DEF Unlocks, Erases, Programs
<1> HIDE DEF banks, unlock, erase, program
<1> QED
  BY <1>1, <1>2, <1>3, <1>4, <1>5, <1>6, <1>7, <1>8, <1>9, FlattenType DEF banks

(* An update is its parts, one after the other. *)
LEMMA IspAt ==
  ASSUME NEW f \in Files
  PROVE  IspParts(f, Isp(f))
<1> DEFINE S == StepsTo(f)
           u == Unlocks(f)
           e == Erases(f)
           p == Programs(f)
           r == Reads(f)
           n == set_logic_num(SerialOf(f))
           show == read_logic_num("show")
           append == read_logic_num("append")
           s2 == Setup \o u
           s3 == s2 \o e
           s4 == s3 \o p
           s5 == s4 \o n
           s6 == s5 \o show
           s7 == s6 \o r
           s8 == s7 \o append
           s9 == s8 \o Closing
<1>1. Isp(f) = s9
  BY DEF Isp, Unlocks, Erases, Programs, Reads, Setup, Closing
<1>2. /\ u \in Seq(S) /\ e \in Seq(S) /\ p \in Seq(S) /\ r \in Seq(S) /\ n \in Seq(S)
      /\ show \in Seq(S) /\ append \in Seq(S) /\ Setup \in Seq(S) /\ Closing \in Seq(S)
      /\ Len(Setup) = 2 /\ Len(Closing) = 3 /\ Len(r) = Len(BanksOf(f))
      /\ Len(BanksOf(f)) \in Nat
      /\ Len(n) = 4 + SerialWords /\ Len(show) = 3 /\ Len(append) = 3
  BY PartTypes
<1>3. SerialWords \in Nat
  BY Geometry
<1>4. /\ Unlocked(f) = 2 + Len(u) /\ Erased(f) = Unlocked(f) + Len(e)
      /\ Filled(f) = Erased(f) + Len(p) /\ Numbered(f) = Filled(f) + 4 + SerialWords
      /\ Verified(f) = Numbered(f) + Len(BanksOf(f)) + 6
  BY DEF Unlocked, Erased, Filled, Numbered, Verified
<1> HIDE DEF S, u, e, p, r, n, show, append
<1>5. /\ s2 \in Seq(S) /\ Len(s2) = Unlocked(f) /\ Unlocked(f) \in Nat
      /\ Lies(s2, Setup, 0) /\ Lies(s2, u, 2)
  <2>1. Setup \in Seq(S) /\ u \in Seq(S) /\ Len(Setup) = 2 /\ 2 \in Nat /\ Len(u) \in Nat
    BY <1>2
  <2>2. Setup \o u \in Seq(S) /\ Len(Setup \o u) = Len(Setup) + Len(u)
        /\ Lies(Setup \o u, Setup, 0) /\ Lies(Setup \o u, u, Len(Setup))
    BY <2>1, JoinLies
  <2> QED
    BY <1>2, <1>3, <1>4, <2>1, <2>2
<1>6. /\ s3 \in Seq(S) /\ Len(s3) = Erased(f) /\ Erased(f) \in Nat
      /\ Lies(s3, s2, 0) /\ Lies(s3, e, Unlocked(f))
  <2>1. s2 \in Seq(S) /\ e \in Seq(S) /\ Len(s2) = Unlocked(f) /\ Unlocked(f) \in Nat /\ Len(e) \in Nat
    BY <1>2, <1>5
  <2> HIDE DEF s2
  <2>2. s2 \o e \in Seq(S) /\ Len(s2 \o e) = Len(s2) + Len(e)
        /\ Lies(s2 \o e, s2, 0) /\ Lies(s2 \o e, e, Len(s2))
    BY <2>1, JoinLies
  <2> QED
    BY <1>2, <1>3, <1>4, <2>1, <2>2
<1>7. /\ s4 \in Seq(S) /\ Len(s4) = Filled(f) /\ Filled(f) \in Nat
      /\ Lies(s4, s3, 0) /\ Lies(s4, p, Erased(f))
  <2>1. s3 \in Seq(S) /\ p \in Seq(S) /\ Len(s3) = Erased(f) /\ Erased(f) \in Nat /\ Len(p) \in Nat
    BY <1>2, <1>6
  <2> HIDE DEF s3
  <2>2. s3 \o p \in Seq(S) /\ Len(s3 \o p) = Len(s3) + Len(p)
        /\ Lies(s3 \o p, s3, 0) /\ Lies(s3 \o p, p, Len(s3))
    BY <2>1, JoinLies
  <2> QED
    BY <1>2, <1>3, <1>4, <2>1, <2>2
<1>8. /\ s5 \in Seq(S) /\ Len(s5) = Numbered(f) /\ Numbered(f) \in Nat
      /\ Lies(s5, s4, 0) /\ Lies(s5, n, Filled(f))
  <2>1. s4 \in Seq(S) /\ n \in Seq(S) /\ Len(s4) = Filled(f) /\ Filled(f) \in Nat /\ Len(n) \in Nat
    BY <1>2, <1>7
  <2> HIDE DEF s4
  <2>2. s4 \o n \in Seq(S) /\ Len(s4 \o n) = Len(s4) + Len(n)
        /\ Lies(s4 \o n, s4, 0) /\ Lies(s4 \o n, n, Len(s4))
    BY <2>1, JoinLies
  <2> QED
    BY <1>2, <1>3, <1>4, <2>1, <2>2
<1>9. /\ s6 \in Seq(S) /\ Len(s6) = Numbered(f) + 3 /\ Numbered(f) + 3 \in Nat
      /\ Lies(s6, s5, 0) /\ Lies(s6, show, Numbered(f))
  <2>1. s5 \in Seq(S) /\ show \in Seq(S) /\ Len(s5) = Numbered(f) /\ Numbered(f) \in Nat /\ Len(show) \in Nat
    BY <1>2, <1>8
  <2> HIDE DEF s5
  <2>2. s5 \o show \in Seq(S) /\ Len(s5 \o show) = Len(s5) + Len(show)
        /\ Lies(s5 \o show, s5, 0) /\ Lies(s5 \o show, show, Len(s5))
    BY <2>1, JoinLies
  <2> QED
    BY <1>2, <1>3, <1>4, <2>1, <2>2
<1>10. /\ s7 \in Seq(S) /\ Len(s7) = Numbered(f) + 3 + Len(BanksOf(f)) /\ Numbered(f) + 3 + Len(BanksOf(f)) \in Nat
      /\ Lies(s7, s6, 0) /\ Lies(s7, r, Numbered(f) + 3)
  <2>1. s6 \in Seq(S) /\ r \in Seq(S) /\ Len(s6) = Numbered(f) + 3 /\ Numbered(f) + 3 \in Nat /\ Len(r) \in Nat
    BY <1>2, <1>9
  <2> HIDE DEF s6
  <2>2. s6 \o r \in Seq(S) /\ Len(s6 \o r) = Len(s6) + Len(r)
        /\ Lies(s6 \o r, s6, 0) /\ Lies(s6 \o r, r, Len(s6))
    BY <2>1, JoinLies
  <2> QED
    BY <1>2, <1>3, <1>4, <2>1, <2>2
<1>11. /\ s8 \in Seq(S) /\ Len(s8) = Verified(f) /\ Verified(f) \in Nat
      /\ Lies(s8, s7, 0) /\ Lies(s8, append, Numbered(f) + 3 + Len(BanksOf(f)))
  <2>1. s7 \in Seq(S) /\ append \in Seq(S) /\ Len(s7) = Numbered(f) + 3 + Len(BanksOf(f)) /\ Numbered(f) + 3 + Len(BanksOf(f)) \in Nat /\ Len(append) \in Nat
    BY <1>2, <1>10
  <2> HIDE DEF s7
  <2>2. s7 \o append \in Seq(S) /\ Len(s7 \o append) = Len(s7) + Len(append)
        /\ Lies(s7 \o append, s7, 0) /\ Lies(s7 \o append, append, Len(s7))
    BY <2>1, JoinLies
  <2> QED
    BY <1>2, <1>3, <1>4, <2>1, <2>2
<1>12. /\ s9 \in Seq(S) /\ Len(s9) = Verified(f) + 3 /\ Verified(f) + 3 \in Nat
      /\ Lies(s9, s8, 0) /\ Lies(s9, Closing, Verified(f))
  <2>1. s8 \in Seq(S) /\ Closing \in Seq(S) /\ Len(s8) = Verified(f) /\ Verified(f) \in Nat /\ Len(Closing) \in Nat
    BY <1>2, <1>11
  <2> HIDE DEF s8
  <2>2. s8 \o Closing \in Seq(S) /\ Len(s8 \o Closing) = Len(s8) + Len(Closing)
        /\ Lies(s8 \o Closing, s8, 0) /\ Lies(s8 \o Closing, Closing, Len(s8))
    BY <2>1, JoinLies
  <2> QED
    BY <1>2, <1>3, <1>4, <2>1, <2>2
<1> HIDE DEF s2, s3, s4, s5, s6, s7, s8, s9
<1>13. Lies(s9, s9, 0)
  BY <1>12 DEF Lies
<1>14. Lies(s9, s8, 0) /\ Lies(s9, s7, 0) /\ Lies(s9, s6, 0) /\ Lies(s9, s5, 0)
  BY <1>8, <1>9, <1>10, <1>11, <1>12, LiesOn
<1>15. Lies(s9, s4, 0) /\ Lies(s9, s3, 0) /\ Lies(s9, s2, 0)
  BY <1>5, <1>6, <1>7, <1>8, <1>12, <1>14, LiesOn
<1>16. Lies(s9, Setup, 0) /\ Lies(s9, u, 2) /\ Lies(s9, e, Unlocked(f))
  BY <1>2, <1>5, <1>6, <1>12, <1>15, LiesOn
<1>17. Lies(s9, p, Erased(f)) /\ Lies(s9, n, Filled(f)) /\ Lies(s9, show, Numbered(f))
  BY <1>2, <1>6, <1>7, <1>8, <1>9, <1>12, <1>14, <1>15, LiesOn, ZenonT(40)
<1>18. /\ Lies(s9, r, Numbered(f) + 3)
       /\ Lies(s9, append, Numbered(f) + 3 + Len(BanksOf(f)))
  <2>1. Lies(s9, r, Numbered(f) + 3)
    BY <1>2, <1>9, <1>10, <1>12, <1>14, LiesOn, SMTT(25)
  <2>2. Lies(s9, append, Numbered(f) + 3 + Len(BanksOf(f)))
    BY <1>2, <1>10, <1>11, <1>12, <1>14, LiesOn, SMTT(25)
  <2> QED
    BY <2>1, <2>2
<1>19. IspParts(f, s9)
  BY <1>12, <1>16, <1>17, <1>18 DEF IspParts, u, e, p, r, n, show, append
<1> QED
  BY <1>1, <1>19

(* What is covered by a part is covered by the whole. *)
LEMMA CoversOn ==
  ASSUME NEW ss, NEW ts, NEW a \in Nat, Lies(ss, ts, a), Len(ss) \in Nat, Len(ts) \in Nat,
         NEW f, NEW x, Covers(ts, f, x)
  PROVE  Covers(ss, f, x)
<1>1. PICK i \in 1 .. Len(ts) : \E p \in Buffers(f) :
        ts[i] = buffer_program(p[1], p[2]) /\ x \in p[1] + 1 .. p[1] + Len(p[2])
  BY DEF Covers
<1>2. a + i \in 1 .. Len(ss) /\ ss[a + i] = ts[i]
  BY DEF Lies
<1> QED
  BY <1>1, <1>2 DEF Covers

(* Whatever is concatenated lies somewhere in the result. *)
LEMMA FlattenHas ==
  ASSUME NEW S, NEW ss \in Seq(Seq(S)), NEW h \in 1 .. Len(ss)
  PROVE  \E a \in Nat : Lies(FlattenSeq(ss), ss[h], a)
<1> DEFINE n == Len(ss)
           f == CHOOSE g : Flattened(ss, n, g)
           T == {m \in Nat : m \in 1 .. n =>
                   \A i \in 1 .. m : \E a \in Nat : Lies(f[m], ss[i], a)}
<1>1. n \in Nat /\ ss \in [1 .. n -> Seq(S)]
  OBVIOUS
<1>2. Flattened(ss, n, f)
  BY <1>1, FlattenedExists
<1>3. FlattenSeq(ss) = IF n = 0 THEN ss ELSE f[n]
  BY DEF FlattenSeq, Flattened
<1> HIDE DEF f, n
<1>4. \A i \in 1 .. n : f[i] \in Seq(S)
  BY <1>1, <1>2, FlattenedType, Zenon
<1>5. \A i \in 1 .. n : (i = 1 => f[i] = ss[i]) /\ (i # 1 => f[i] = f[i - 1] \o ss[i])
  BY <1>1, <1>2, FlattenedAt, Zenon
<1>6. ASSUME NEW m \in Nat, m \in T PROVE m + 1 \in T
  <2> SUFFICES ASSUME m + 1 \in 1 .. n, NEW i \in 1 .. m + 1
               PROVE  \E a \in Nat : Lies(f[m + 1], ss[i], a)
    OBVIOUS
  <2>1. ss[m + 1] \in Seq(S) /\ f[m + 1] \in Seq(S) /\ ss[i] \in Seq(S)
    BY <1>1, <1>4
  <2>2. CASE m = 0
    <3>1. f[m + 1] = ss[m + 1] /\ i = m + 1
      <4>1. m + 1 = 1 /\ 1 \in 1 .. n /\ i = 1
        BY <2>2
      <4>2. f[1] = ss[1]
        BY <1>5, <4>1, Zenon
      <4> QED
        BY <4>1, <4>2
    <3>2. Lies(f[m + 1], ss[i], 0)
      BY <2>1, <3>1 DEF Lies
    <3> QED
      BY <3>2
  <2>3. CASE m # 0
    <3> DEFINE s == f[m]
               t == ss[m + 1]
    <3>1. f[m + 1] = s \o t
      <4>1. (m + 1) - 1 = m /\ m + 1 # 1
        BY <2>3
      <4> QED
        BY <1>5, <4>1
    <3>2. s \in Seq(S) /\ t \in Seq(S) /\ m \in 1 .. n
      <4>1. m \in 1 .. n
        BY <1>1, <2>3
      <4> QED
        BY <1>4, <2>1, <4>1
    <3>3. Lies(s \o t, s, 0) /\ Lies(s \o t, t, Len(s)) /\ Len(s) \in Nat /\ s \o t \in Seq(S)
      <4> HIDE DEF s, t
      <4> QED
        BY <3>2, JoinLies
    <3>4. CASE i = m + 1
      BY <3>1, <3>3, <3>4
    <3>5. CASE i \in 1 .. m
      <4>1. PICK a \in Nat : Lies(s, ss[i], a)
        BY <1>6, <3>2, <3>5
      <4> HIDE DEF s, t
      <4>2. Lies(s \o t, ss[i], a)
        BY <2>1, <3>2, <3>3, <4>1, LiesOn
      <4> QED
        BY <3>1, <4>2
    <3> QED
      BY <3>4, <3>5
  <2> QED
    BY <2>2, <2>3
<1>7. 0 .. n \subseteq T
  <2>1. 0 \in T
    OBVIOUS
  <2> HIDE DEF T
  <2> QED
    BY <1>1, <1>6, <2>1, UpTo
<1>8. n \in T /\ n # 0 /\ h \in 1 .. n
  <2>1. h \in 1 .. n /\ n \in 0 .. n
    BY <1>1 DEF n
  <2> QED
    BY <1>7, <2>1
<1> QED
  BY <1>1, <1>3, <1>8

(* Blocks are numbered through the banks. *)
LEMMA BlockCount ==
  ASSUME NEW b \in Nat, NEW k \in 0 .. Blocks - 1, NEW i \in 0 .. BlockWords - 1
  PROVE  /\ BlockOf(BlockAt(b, k) + i) = b * Blocks + k
         /\ BankOf(BlockAt(b, k) + i) = b
<1> DEFINE q == b * Blocks + k
<1>1. q \in Nat /\ BlockAt(b, k) + i = BlockWords * q + i
  <2>1. b * BankWords = BlockWords * (b * Blocks) /\ b * Blocks \in Nat
    BY Geometry
  <2>2. BlockWords * q = BlockWords * (b * Blocks) + BlockWords * k
    BY <2>1, Geometry
  <2> QED
    BY <2>1, <2>2, Geometry DEF BlockAt
<1> HIDE DEF q
<1>2. (BlockWords * q + i) \div BlockWords = q
  BY <1>1, Geometry, DivOf
<1>3. BankOf(BlockAt(b, k) + i) = b
  <2> DEFINE x == k * BlockWords + i
  <2>1. x \in 0 .. BankWords - 1 /\ BlockAt(b, k) + i = b * BankWords + x
    BY BlockAtValue
  <2> HIDE DEF x
  <2> QED
    BY <2>1, InBank
<1> QED
  BY <1>1, <1>2, <1>3 DEF BlockOf, q

(* The buffers that fill a block. *)
LEMMA BlockFills ==
  ASSUME NEW f \in Files, NEW b \in 0 .. Len(BanksOf(f)) - 1, NEW k \in 0 .. Blocks - 1,
         NEW words \in Seq(Word), Len(words) <= BlockWords,
         \A j \in 1 .. Len(words) : /\ BlockAt(b, k) + j <= Len(ImageOf(f))
                                    /\ words[j] = f[BlockAt(b, k) + j]
  PROVE  /\ block_program(b, k, words) \in Seq(BufferFills(f))
         /\ \A j \in 1 .. Len(words) : Covers(block_program(b, k, words), f, BlockAt(b, k) + j)
<1> DEFINE bufs == Pieces(words, BufferWords)
           s == BlockAt(b, k)
<1>1. /\ bufs \in Seq(Seq(Word)) /\ Len(bufs) \in Nat /\ DOMAIN bufs = 1 .. Len(bufs)
      /\ \A i \in 1 .. Len(bufs) :
           /\ bufs[i] \in Seq(Word) /\ Len(bufs[i]) \in 1 .. BufferWords
           /\ (i - 1) * BufferWords \in Nat
           /\ (i - 1) * BufferWords + Len(bufs[i]) <= Len(words)
           /\ \A j \in 1 .. Len(bufs[i]) : bufs[i][j] = words[(i - 1) * BufferWords + j]
  <2>1. BufferWords \in Nat \ {0}
    BY Geometry
  <2>2. /\ bufs \in Seq(Seq(Word))
        /\ \A i \in 1 .. Len(bufs) :
             /\ bufs[i] \in Seq(Word) /\ Len(bufs[i]) \in 1 .. BufferWords
             /\ (i - 1) * BufferWords \in Nat
             /\ (i - 1) * BufferWords + Len(bufs[i]) <= Len(words)
    BY <2>1, PiecesFacts, Zenon
  <2>3. \A i \in 1 .. Len(bufs) : \A j \in 1 .. Len(bufs[i]) :
          bufs[i][j] = words[(i - 1) * BufferWords + j]
    <3>1. \A i \in 1 .. Len(bufs) : PieceIs(words, BufferWords, i, bufs[i])
      BY <2>1, PieceAt, Zenon
    <3> HIDE DEF bufs
    <3> QED
      BY <3>1, Zenon DEF PieceIs
  <2> HIDE DEF bufs
  <2>4. Len(bufs) \in Nat /\ DOMAIN bufs = 1 .. Len(bufs)
    BY <2>2
  <2> QED
    BY <2>2, <2>3, <2>4, Zenon
<1> HIDE DEF bufs
<1>2. b \in Nat /\ s \in Nat /\ Len(words) \in Nat /\ b < Len(BanksOf(f))
  <2>1. b \in Nat /\ b < Len(BanksOf(f)) /\ 0 \in 0 .. BlockWords - 1
    BY BanksFacts, Geometry
  <2>2. BlockAt(b, k) \in Nat
    BY <2>1, BlockAtValue
  <2> QED
    BY <2>1, <2>2
<1>3. ASSUME NEW i \in 0 .. BlockWords - 1
      PROVE  BlockOf(s + i) = b * Blocks + k /\ BankOf(s + i) = b
  BY <1>2, BlockCount
<1> HIDE DEF s
<1>4. ASSUME NEW i \in 1 .. Len(bufs)
      PROVE  <<s + (i - 1) * BufferWords, bufs[i]>> \in Buffers(f)
  <2> DEFINE m == (i - 1) * BufferWords
             ws == bufs[i]
  <2>1. /\ ws \in Seq(Word) /\ Len(ws) \in 1 .. BufferWords /\ m \in Nat
        /\ m + Len(ws) <= Len(words) /\ \A j \in 1 .. Len(ws) : ws[j] = words[m + j]
    BY <1>1
  <2> HIDE DEF m, ws
  <2>2. ASSUME NEW j \in 1 .. Len(ws)
        PROVE  /\ s + m + j <= Len(ImageOf(f)) /\ ws[j] = f[s + m + j]
               /\ BlockOf(s + m + j - 1) = BlockOf(s + m)
    <3>1. m + j \in 1 .. Len(words) /\ s + (m + j) = s + m + j
      BY <1>2, <2>1, SMTT(25)
    <3>2. s + m + j <= Len(ImageOf(f)) /\ words[m + j] = f[s + m + j]
      BY <3>1 DEF s
    <3>3. m + j - 1 \in 0 .. BlockWords - 1 /\ m \in 0 .. BlockWords - 1
      BY <1>2, <2>1, <3>1, Geometry, SMTT(25)
    <3>4. s + (m + j - 1) = s + m + j - 1
      BY <1>2, <2>1, SMTT(25)
    <3> QED
      BY <1>3, <2>1, <3>2, <3>3, <3>4
  <2>3. BankOf(s + m) = b /\ s + m \in Nat
    <3>1. m \in 0 .. BlockWords - 1
      BY <1>2, <2>1, Geometry, SMTT(25)
    <3> QED
      BY <1>2, <1>3, <2>1, <3>1, SMTT(25)
  <2>4. s + m + Len(ws) <= Len(ImageOf(f))
    <3>1. Len(ws) \in 1 .. Len(ws)
      BY <2>1
    <3> QED
      BY <2>2, <3>1
  <2> DEFINE p == <<s + m, ws>>
  <2>5. p \in Nat \X Seq(Word) /\ p[1] = s + m /\ p[2] = ws
    BY <2>1, <2>3
  <2> HIDE DEF p
  <2>6. p \in Buffers(f)
    BY <1>2, <2>1, <2>2, <2>3, <2>4, <2>5 DEF Buffers
  <2> QED
    BY <2>6 DEF p, m, ws
<1>5. block_program(b, k, words) =
        [i \in 1 .. Len(bufs) |-> buffer_program(s + (i - 1) * BufferWords, bufs[i])]
  BY <1>1 DEF block_program, bufs, s
<1>6. ASSUME NEW i \in 1 .. Len(bufs)
      PROVE  buffer_program(s + (i - 1) * BufferWords, bufs[i]) \in BufferFills(f)
  <2> DEFINE p == <<s + (i - 1) * BufferWords, bufs[i]>>
  <2>1. p \in Buffers(f)
    BY <1>4
  <2>2. buffer_program(s + (i - 1) * BufferWords, bufs[i]) = buffer_program(p[1], p[2])
    OBVIOUS
  <2> HIDE DEF p
  <2> QED
    BY <2>1, <2>2 DEF BufferFills
<1>7. \A j \in 1 .. Len(words) : \E i \in 1 .. Len(bufs) : \E h \in 1 .. Len(bufs[i]) :
        j = (i - 1) * BufferWords + h
  <2>1. BufferWords \in Nat \ {0}
    BY Geometry
  <2> SUFFICES ASSUME NEW j \in 1 .. Len(words)
               PROVE  \E i \in 1 .. Len(bufs) : \E h \in 1 .. Len(bufs[i]) :
                        j = (i - 1) * BufferWords + h
    OBVIOUS
  <2>2. words \in Seq(Word)
    OBVIOUS
  <2>3. \E i \in 1 .. Len(Pieces(words, BufferWords)) :
          \E h \in 1 .. Len(Pieces(words, BufferWords)[i]) : j = (i - 1) * BufferWords + h
    BY <2>1, <2>2, PieceOf, SMT
  <2> QED
    BY <2>3, Zenon DEF bufs
<1>8. ASSUME NEW j \in 1 .. Len(words) PROVE Covers(block_program(b, k, words), f, s + j)
  <2> DEFINE ss == block_program(b, k, words)
  <2>1. PICK i \in 1 .. Len(bufs) : \E h \in 1 .. Len(bufs[i]) : j = (i - 1) * BufferWords + h
    BY <1>7
  <2>2. PICK h \in 1 .. Len(bufs[i]) : j = (i - 1) * BufferWords + h
    BY <2>1
  <2> DEFINE p == <<s + (i - 1) * BufferWords, bufs[i]>>
  <2>3. i \in 1 .. Len(ss) /\ ss[i] = buffer_program(p[1], p[2])
    BY <1>1, <1>5
  <2>4. p \in Buffers(f) /\ p[1] = s + (i - 1) * BufferWords /\ p[2] = bufs[i]
    BY <1>4
  <2>5. s + j \in p[1] + 1 .. p[1] + Len(p[2])
    <3> DEFINE m == (i - 1) * BufferWords
    <3>1. /\ m \in Nat /\ Len(bufs[i]) \in Nat /\ j = m + h /\ p[1] = s + m
          /\ h \in 1 .. Len(bufs[i])
      BY <1>1, <2>2, <2>4
    <3>2. p[2] = bufs[i]
      BY <2>4
    <3> HIDE DEF m, p
    <3>3. \A x, y, n \in Nat : \A u \in 1 .. n : x + (y + u) \in (x + y) + 1 .. (x + y) + n
      OBVIOUS
    <3>4. s + (m + h) \in (s + m) + 1 .. (s + m) + Len(bufs[i])
      BY <1>2, <3>1, <3>3
    <3> QED
      BY <3>1, <3>2, <3>4
  <2> HIDE DEF p, ss
  <2>6. Covers(ss, f, s + j)
    BY <2>3, <2>4, <2>5 DEF Covers
  <2> QED
    BY <2>6 DEF ss
<1> QED
  BY <1>1, <1>5, <1>6, <1>8 DEF s

(* The buffers that fill a bank. *)
LEMMA BankFills ==
  ASSUME NEW f \in Files, NEW b \in 0 .. Len(BanksOf(f)) - 1,
         NEW words \in Seq(Word), Len(words) <= BankWords,
         \A j \in 1 .. Len(words) : /\ b * BankWords + j <= Len(ImageOf(f))
                                    /\ words[j] = f[b * BankWords + j]
  PROVE  /\ bank_program(b, words) \in Seq(BufferFills(f))
         /\ \A j \in 1 .. Len(words) : Covers(bank_program(b, words), f, b * BankWords + j)
<1> DEFINE blks == Pieces(words, BlockWords)
           prog == [k \in DOMAIN blks |-> block_program(b, k - 1, blks[k])]
<1>1. /\ blks \in Seq(Seq(Word)) /\ Len(blks) = (Len(words) + BlockWords - 1) \div BlockWords
      /\ \A k \in 1 .. Len(blks) :
           /\ blks[k] \in Seq(Word) /\ Len(blks[k]) \in 1 .. BlockWords
           /\ (k - 1) * BlockWords \in Nat
           /\ (k - 1) * BlockWords + Len(blks[k]) <= Len(words)
  <2>1. BlockWords \in Nat \ {0}
    BY Geometry
  <2> QED
    BY <2>1, PiecesFacts, Zenon
<1>2. \A k \in 1 .. Len(blks) : \A j \in 1 .. Len(blks[k]) :
        blks[k][j] = words[(k - 1) * BlockWords + j]
  <2>1. BlockWords \in Nat \ {0}
    BY Geometry
  <2>2. \A k \in 1 .. Len(blks) : PieceIs(words, BlockWords, k, blks[k])
    BY <2>1, PieceAt, Zenon
  <2> HIDE DEF blks
  <2> QED
    BY <2>2, Zenon DEF PieceIs
<1>3. Len(blks) \in Nat /\ Len(blks) <= Blocks
  <2>1. IsCeiling(Len(words), BlockWords, Len(blks))
    BY <1>1, Geometry, Ceiling
  <2> QED
    BY <2>1, Geometry DEF IsCeiling
<1> HIDE DEF blks
<1>4. b \in Nat /\ b * BankWords \in Nat /\ Len(words) \in Nat
  <2>1. b \in Nat
    BY BanksFacts
  <2> QED
    BY <2>1, Geometry
<1>5. ASSUME NEW k \in 1 .. Len(blks)
      PROVE  /\ block_program(b, k - 1, blks[k]) \in Seq(BufferFills(f))
             /\ \A j \in 1 .. Len(blks[k]) :
                  Covers(block_program(b, k - 1, blks[k]), f,
                         b * BankWords + ((k - 1) * BlockWords + j))
  <2> DEFINE ws == blks[k]
             m == (k - 1) * BlockWords
  <2>1. k - 1 \in 0 .. Blocks - 1
    BY <1>3, Geometry
  <2>2. /\ ws \in Seq(Word) /\ Len(ws) \in Nat /\ Len(ws) <= BlockWords /\ m \in Nat
        /\ m + Len(ws) <= Len(words) /\ \A j \in 1 .. Len(ws) : ws[j] = words[m + j]
    <3>1. /\ ws \in Seq(Word) /\ Len(ws) \in 1 .. BlockWords /\ m \in Nat
          /\ m + Len(ws) <= Len(words)
      BY <1>1
    <3>2. \A j \in 1 .. Len(ws) : ws[j] = words[m + j]
      BY <1>2
    <3> HIDE DEF ws, m
    <3> QED
      BY <3>1, <3>2, Geometry
  <2>3. BlockAt(b, k - 1) = b * BankWords + m
    BY DEF BlockAt
  <2> HIDE DEF ws, m
  <2>4. ASSUME NEW j \in 1 .. Len(ws)
        PROVE  /\ BlockAt(b, k - 1) + j <= Len(ImageOf(f))
               /\ ws[j] = f[BlockAt(b, k - 1) + j]
    <3>1. m + j \in 1 .. Len(words) /\ b * BankWords + (m + j) = BlockAt(b, k - 1) + j
      BY <1>4, <2>2, <2>3, SMTT(25)
    <3> QED
      BY <2>2, <3>1
  <2>5. /\ block_program(b, k - 1, ws) \in Seq(BufferFills(f))
        /\ \A j \in 1 .. Len(ws) :
             Covers(block_program(b, k - 1, ws), f, BlockAt(b, k - 1) + j)
    BY <2>1, <2>2, <2>4, BlockFills
  <2>6. \A j \in 1 .. Len(ws) : BlockAt(b, k - 1) + j = b * BankWords + (m + j)
    BY <1>4, <2>2, <2>3
  <2> QED
    BY <2>5, <2>6 DEF ws, m
<1>6. prog \in Seq(Seq(BufferFills(f)))
  <2>1. DOMAIN blks = 1 .. Len(blks)
    BY <1>1
  <2>2. prog \in [1 .. Len(blks) -> Seq(BufferFills(f))]
    BY <1>5, <2>1
  <2> QED
    BY <1>3, <2>2
<1>7. bank_program(b, words) = FlattenSeq(prog)
  BY DEF bank_program, blks
<1>8. Len(prog) = Len(blks) /\ \A k \in 1 .. Len(blks) : prog[k] = block_program(b, k - 1, blks[k])
  BY <1>1, <1>3
<1> HIDE DEF prog
<1>9. bank_program(b, words) \in Seq(BufferFills(f))
  BY <1>6, <1>7, FlattenType
<1>10. \A j \in 1 .. Len(words) : \E k \in 1 .. Len(blks) : \E h \in 1 .. Len(blks[k]) :
         j = (k - 1) * BlockWords + h
  <2>1. BlockWords \in Nat \ {0}
    BY Geometry
  <2> QED
    BY <2>1, PieceOf DEF blks
<1>11. ASSUME NEW j \in 1 .. Len(words)
       PROVE  Covers(bank_program(b, words), f, b * BankWords + j)
  <2>1. PICK k \in 1 .. Len(blks) : \E h \in 1 .. Len(blks[k]) : j = (k - 1) * BlockWords + h
    BY <1>10
  <2>2. Covers(prog[k], f, b * BankWords + j)
    BY <1>5, <1>8, <2>1
  <2>3. PICK a \in Nat : Lies(FlattenSeq(prog), prog[k], a)
    BY <1>6, <1>8, FlattenHas
  <2>4. Len(prog[k]) \in Nat /\ Len(FlattenSeq(prog)) \in Nat
    BY <1>6, <1>7, <1>8, <1>9, SMTT(25)
  <2> QED
    BY <1>7, <2>2, <2>3, <2>4, CoversOn
<1> QED
  BY <1>9, <1>11

(* Where the words of a bank are in the file. *)
LEMMA BankAt ==
  ASSUME NEW f \in Files, NEW b \in 1 .. Len(BanksOf(f))
  PROVE  /\ BanksOf(f)[b] \in Seq(Word) /\ Len(BanksOf(f)[b]) \in 1 .. BankWords
         /\ (b - 1) * BankWords \in Nat
         /\ Len(BanksOf(f)[b]) = IF b < Len(BanksOf(f)) THEN BankWords
                                 ELSE Len(ImageOf(f)) - (b - 1) * BankWords
         /\ (b - 1) * BankWords + Len(BanksOf(f)[b]) <= Len(ImageOf(f))
         /\ \A j \in 1 .. Len(BanksOf(f)[b]) : BanksOf(f)[b][j] = f[(b - 1) * BankWords + j]
<1> DEFINE img == ImageOf(f)
           c == Len(BanksOf(f))
           ws == BanksOf(f)[b]
           m == (b - 1) * BankWords
<1>1. img \in Seq(Word) /\ Len(img) \in Nat /\ BankWords \in Nat \ {0}
  BY FileFacts, Geometry
<1>2. BanksOf(f) = Pieces(img, BankWords)
  BY DEF BanksOf
<1>3. /\ ws \in Seq(Word) /\ Len(ws) \in 1 .. BankWords /\ m \in Nat /\ m + Len(ws) <= Len(img)
      /\ Len(ws) = IF b * BankWords < Len(img) THEN BankWords ELSE Len(img) - m
      /\ \A j \in 1 .. Len(ws) : ws[j] = img[m + j]
  <2>1. b \in 1 .. Len(Pieces(img, BankWords))
    BY <1>2
  <2> HIDE DEF img
  <2>2. /\ Pieces(img, BankWords)[b] \in Seq(Word)
        /\ Len(Pieces(img, BankWords)[b]) \in 1 .. BankWords
        /\ (b - 1) * BankWords \in Nat
        /\ (b - 1) * BankWords + Len(Pieces(img, BankWords)[b]) <= Len(img)
    BY <1>1, <2>1, PiecesFacts, Zenon
  <2>3. /\ Len(Pieces(img, BankWords)[b]) =
             IF b * BankWords < Len(img) THEN BankWords ELSE Len(img) - (b - 1) * BankWords
        /\ \A j \in 1 .. Len(Pieces(img, BankWords)[b]) :
             Pieces(img, BankWords)[b][j] = img[(b - 1) * BankWords + j]
    <3>1. PieceIs(img, BankWords, b, Pieces(img, BankWords)[b])
      BY <1>1, <2>1, PieceAt, Zenon
    <3> QED
      BY <3>1, Zenon DEF PieceIs
  <2> QED
    BY <1>2, <2>2, <2>3
<1>4. c \in Nat /\ IsCeiling(Len(img), BankWords, c)
  <2>1. c = (Len(img) + BankWords - 1) \div BankWords /\ c \in Nat
    BY BanksFacts, FileFacts
  <2> QED
    BY <1>1, <2>1, Ceiling
<1>5. b * BankWords < Len(img) <=> b < c
  <2>1. b < c => b * BankWords < Len(img)
    <3>1. b < c => b + 1 \in 1 .. c /\ (b + 1) - 1 = b
      BY <1>4
    <3> HIDE DEF c
    <3> QED
      BY <1>4, <3>1 DEF IsCeiling
  <2>2. ~(b < c) => b = c
    BY <1>4
  <2>3. Len(img) <= c * BankWords
    BY <1>4 DEF IsCeiling
  <2>4. c * BankWords \in Nat
    BY <1>4, Geometry
  <2> HIDE DEF c
  <2> QED
    BY <1>1, <2>1, <2>2, <2>3, <2>4
<1>6. \A j \in 1 .. Len(ws) : img[m + j] = f[m + j]
  <2>1. \A j \in 1 .. Len(ws) : m + j \in 1 .. Len(img)
    BY <1>1, <1>3
  <2> QED
    BY <2>1, ImageAt
<1> HIDE DEF m
<1> QED
  BY <1>3, <1>5, <1>6 DEF m

(* Every part consists of steps of its own kind, and none is empty. *)
LEMMA PartKinds ==
  ASSUME NEW f \in Files
  PROVE  /\ Unlocks(f) \in Seq(UnlockSteps(f)) /\ Len(Unlocks(f)) >= Blocks
         /\ Erases(f) \in Seq(EraseSteps(f)) /\ Len(Erases(f)) >= Blocks
         /\ Programs(f) \in Seq(BufferFills(f)) /\ Len(Programs(f)) >= 1
         /\ \A x \in 1 .. Len(ImageOf(f)) : Covers(Programs(f), f, x)
<1> DEFINE banks == BanksOf(f)
           c == Len(banks)
           unlock == [b \in DOMAIN banks |-> bank_unlock(b - 1)]
           erase == [b \in DOMAIN banks |-> bank_erase(b - 1)]
           program == [b \in DOMAIN banks |-> bank_program(b - 1, banks[(b - 1) + 1])]
<1>1. c \in Nat /\ c > 0 /\ DOMAIN banks = 1 .. c
  BY BanksFacts
<1>2. ASSUME NEW b \in 1 .. c
      PROVE  /\ bank_unlock(b - 1) \in Seq(UnlockSteps(f)) /\ Len(bank_unlock(b - 1)) = Blocks
             /\ bank_erase(b - 1) \in Seq(EraseSteps(f)) /\ Len(bank_erase(b - 1)) = Blocks
  <2>1. \A k \in 1 .. Blocks : <<b - 1, k - 1>> \in (0 .. c - 1) \X (0 .. Blocks - 1)
    BY <1>1, Geometry
  <2>2. \A k \in 1 .. Blocks : /\ block_unlock(b - 1, k - 1) \in UnlockSteps(f)
                               /\ block_erase(b - 1, k - 1) \in EraseSteps(f)
    <3> SUFFICES ASSUME NEW k \in 1 .. Blocks
                 PROVE  /\ block_unlock(b - 1, k - 1) \in UnlockSteps(f)
                        /\ block_erase(b - 1, k - 1) \in EraseSteps(f)
      OBVIOUS
    <3> DEFINE p == <<b - 1, k - 1>>
    <3>1. p \in (0 .. c - 1) \X (0 .. Blocks - 1) /\ p[1] = b - 1 /\ p[2] = k - 1
      BY <2>1
    <3> HIDE DEF p
    <3>2. block_unlock(p[1], p[2]) \in UnlockSteps(f) /\ block_erase(p[1], p[2]) \in EraseSteps(f)
      BY <3>1 DEF UnlockSteps, EraseSteps
    <3> QED
      BY <3>1, <3>2
  <2> QED
    BY <2>2, Geometry DEF bank_unlock, bank_erase
<1>3. ASSUME NEW b \in 1 .. c
      PROVE  /\ bank_program(b - 1, banks[(b - 1) + 1]) \in Seq(BufferFills(f))
             /\ \A j \in 1 .. Len(banks[b]) :
                  Covers(bank_program(b - 1, banks[(b - 1) + 1]), f, (b - 1) * BankWords + j)
  <2> DEFINE ws == banks[b]
             q == b - 1
  <2>1. /\ ws \in Seq(Word) /\ Len(ws) \in 1 .. BankWords /\ q * BankWords \in Nat
        /\ q * BankWords + Len(ws) <= Len(ImageOf(f))
        /\ \A j \in 1 .. Len(ws) : ws[j] = f[q * BankWords + j]
    BY BankAt
  <2>2. q \in 0 .. Len(BanksOf(f)) - 1 /\ (b - 1) + 1 = b
    BY <1>1
  <2> HIDE DEF ws, q
  <2>3. \A j \in 1 .. Len(ws) : q * BankWords + j <= Len(ImageOf(f))
    BY <2>1, FileFacts
  <2>4. Len(ws) <= BankWords
    BY <2>1, Geometry
  <2>5. /\ bank_program(q, ws) \in Seq(BufferFills(f))
        /\ \A j \in 1 .. Len(ws) : Covers(bank_program(q, ws), f, q * BankWords + j)
    BY <2>1, <2>2, <2>3, <2>4, BankFills
  <2> QED
    BY <2>2, <2>5 DEF ws, q
<1> HIDE DEF banks, c
<1>4. /\ unlock \in Seq(Seq(UnlockSteps(f))) /\ erase \in Seq(Seq(EraseSteps(f)))
      /\ program \in Seq(Seq(BufferFills(f))) /\ Len(unlock) = c /\ Len(erase) = c
      /\ Len(program) = c
  BY <1>1, <1>2, <1>3
<1>5. 1 \in 1 .. c
  BY <1>1
<1>6. unlock[1] = bank_unlock(1 - 1) /\ erase[1] = bank_erase(1 - 1)
  BY <1>1, <1>5
<1>12. \A b \in 1 .. c : program[b] = bank_program(b - 1, banks[(b - 1) + 1])
  BY <1>1
<1>7. /\ Unlocks(f) = FlattenSeq(unlock) /\ Erases(f) = FlattenSeq(erase)
      /\ Programs(f) = FlattenSeq(program)
  BY DEF Unlocks, Erases, Programs, banks
<1> HIDE DEF unlock, erase, program
<1>8. /\ Unlocks(f) \in Seq(UnlockSteps(f)) /\ Erases(f) \in Seq(EraseSteps(f))
      /\ Programs(f) \in Seq(BufferFills(f))
  BY <1>4, <1>7, FlattenType
<1>9. Len(Unlocks(f)) >= Blocks
  <2>1. PICK a \in Nat : Lies(Unlocks(f), unlock[1], a)
    BY <1>4, <1>5, <1>7, FlattenHas
  <2>2. Len(unlock[1]) = Blocks
    BY <1>2, <1>5, <1>6
  <2> QED
    BY <1>8, <2>1, <2>2, Geometry DEF Lies
<1>10. Len(Erases(f)) >= Blocks
  <2>1. PICK a \in Nat : Lies(Erases(f), erase[1], a)
    BY <1>4, <1>5, <1>7, FlattenHas
  <2>2. Len(erase[1]) = Blocks
    BY <1>2, <1>5, <1>6
  <2> QED
    BY <1>8, <2>1, <2>2, Geometry DEF Lies
<1>11. ASSUME NEW x \in 1 .. Len(ImageOf(f)) PROVE Covers(Programs(f), f, x)
  <2>1. PICK b \in 1 .. c : \E j \in 1 .. Len(banks[b]) : x = (b - 1) * BankWords + j
    <3>1. ImageOf(f) \in Seq(Word) /\ BankWords \in Nat \ {0}
      BY FileFacts, Geometry
    <3> QED
      BY <3>1, PieceOf DEF banks, c, BanksOf
  <2>2. Covers(program[b], f, x)
    BY <1>3, <1>12, <2>1
  <2>3. PICK a \in Nat : Lies(Programs(f), program[b], a)
    BY <1>4, <1>7, FlattenHas
  <2>4. Len(program[b]) \in Nat /\ Len(Programs(f)) \in Nat
    BY <1>4, <1>8, SMTT(25)
  <2> QED
    BY <2>2, <2>3, <2>4, CoversOn
<1>13. Len(Programs(f)) >= 1
  <2>1. 1 \in 1 .. Len(ImageOf(f)) /\ Len(Programs(f)) \in Nat
    BY <1>8, FileFacts
  <2>2. Covers(Programs(f), f, 1)
    BY <1>11, <2>1
  <2> QED
    BY <2>1, <2>2 DEF Covers
<1> QED
  BY <1>8, <1>9, <1>10, <1>11, <1>13

-----------------------------------------------------------------------------
(* The commands of the steps. *)

Cmd(s, k) == s.writes[k].cmd
InOneBank(s) == BankOf(s.at[1]) = BankOf(s.writes[1].addr) /\ BankOf(s.at[1]) \in Bank

Setting(s) ==
  /\ Len(s.writes) = 2 /\ s.then = "next"
  /\ Cmd(s, 1) = "0x60" /\ Cmd(s, 2) = "0x03"
Plain(s) ==
  \/ s.writes = <<>> /\ s.then \in {"compare", "reconfig", "close"}
  \/ Len(s.writes) = 1 /\ s.then \in {"next", "show", "append"} /\ Cmd(s, 1) \in {"0x50", "0xFF"}
Unlocking(s) ==
  /\ Len(s.writes) = 3 /\ s.then = "unlocked"
  /\ Cmd(s, 1) = "0x60" /\ Cmd(s, 2) = "0xD0" /\ Cmd(s, 3) = "0x90"
Erasing(s) ==
  /\ Len(s.writes) = 2 /\ s.then = "erased" /\ InOneBank(s)
  /\ Cmd(s, 1) = "0x20" /\ Cmd(s, 2) = "0xD0"
Wording(s) ==
  /\ Len(s.writes) = 2 /\ s.then = "programmed" /\ InOneBank(s)
  /\ Cmd(s, 1) = "0x40" /\ Cmd(s, 2) = "data"
Filling(s) ==
  /\ Len(s.writes) \in 4 .. BufferWords + 3 /\ s.then = "programmed" /\ InOneBank(s)
  /\ Cmd(s, 1) = "0xE8" /\ Cmd(s, 2) = "count" /\ s.writes[2].n = Len(s.writes) - 4
  /\ \A i \in 3 .. Len(s.writes) - 1 : Cmd(s, i) = "data"
  /\ Cmd(s, Len(s.writes)) = "0xD0"
Shaped(s) ==
  Setting(s) \/ Plain(s) \/ Unlocking(s) \/ Erasing(s) \/ Wording(s) \/ Filling(s)

(* The image takes up banks that there are. *)
LEMMA BanksFit ==
  ASSUME NEW f \in Files
  PROVE  /\ Len(BanksOf(f)) <= SerialBank + 1
         /\ Len(ImageOf(f)) <= BankWords * (SerialBank + 1)
<1> DEFINE top == BankWords * (SerialBank + 1)
           l == Len(ImageOf(f))
<1>1. top \in Nat /\ l \in Nat /\ l = Len(f) - SerialWords /\ Len(f) \in Nat
  BY Geometry, FileFacts
<1>2. l <= top
  <2>1. CASE f \in Images
    BY <1>1, <2>1, FileAssumption, Geometry
  <2>2. CASE f \notin Images
    <3>1. PICK g \in Images : f = g \o NewSerial
      BY <2>2 DEF Files
    <3>2. g \in Seq(Word) /\ Len(g) <= top /\ Len(g) \in Nat
      BY FileAssumption, Geometry
    <3>3. Len(f) = Len(g) + SerialWords
      BY <3>1, <3>2, FileAssumption, ConcatProperties
    <3> QED
      BY <1>1, <3>2, <3>3, Geometry
  <2> QED
    BY <2>1, <2>2
<1>3. IsCeiling(l, BankWords, Len(BanksOf(f)))
  <2>1. Len(BanksOf(f)) = (l + BankWords - 1) \div BankWords
    BY <1>1, BanksFacts
  <2> QED
    BY <1>1, <2>1, Geometry, Ceiling
<1>4. l <= (SerialBank + 1) * BankWords /\ SerialBank + 1 \in Nat
  BY <1>1, <1>2, Geometry
<1> HIDE DEF l
<1>5. Len(BanksOf(f)) <= SerialBank + 1
  BY <1>3, <1>4 DEF IsCeiling
<1> QED
  BY <1>2, <1>5 DEF l

(* The functions that set the chip up and read. *)
LEMMA PlainShapes ==
  /\ \A x : Setting(set_config_register(x))
  /\ Plain(clear_stats_regs) /\ Plain(Step(<<>>, "compare", <<>>)) /\ Plain(reconfig)
  /\ \A b, n : Plain(read_bank(b, n))
  /\ \A s, at : \A then \in {"show", "append"} : Plain(Step(<<Write(s, "0xFF")>>, then, at))
<1>1. \A x : Setting(set_config_register(x))
  BY DEF set_config_register, Step, Write, Setting, Cmd
<1>2. Plain(clear_stats_regs)
  BY DEF clear_stats_regs, Step, Write, Plain, Cmd
<1>3. Plain(Step(<<>>, "compare", <<>>)) /\ Plain(reconfig)
  BY DEF reconfig, Step, Plain
<1>4. \A s, at : \A then \in {"show", "append"} : Plain(Step(<<Write(s, "0xFF")>>, then, at))
  BY DEF Step, Write, Plain, Cmd
<1>5. \A b, n : Plain(read_bank(b, n))
  BY <1>4 DEF read_bank
<1> QED
  BY <1>1, <1>2, <1>3, <1>4, <1>5

(* Unlocking and erasing a block of a bank. *)
LEMMA BlockShapes ==
  ASSUME NEW b \in Bank, NEW k \in 0 .. Blocks - 1
  PROVE  Unlocking(block_unlock(b, k)) /\ Erasing(block_erase(b, k))
<1>1. Unlocking(block_unlock(b, k))
  BY DEF block_unlock, Step, Write, Unlocking, Cmd
<1>2. Erasing(block_erase(b, k))
  <2> DEFINE s == BlockAt(b, 0)
  <2>1. BankOf(s) = b
    <3>1. b \in Nat /\ 0 \in 0 .. Blocks - 1 /\ 0 \in 0 .. BlockWords - 1
      BY Geometry DEF Bank
    <3>2. BankOf(BlockAt(b, 0) + 0) = b /\ BlockAt(b, 0) \in Nat
      BY <3>1, BlockCount, BlockAtValue
    <3>3. BlockAt(b, 0) + 0 = BlockAt(b, 0)
      BY <3>2
    <3> QED
      BY <3>2, <3>3
  <2> HIDE DEF s
  <2>2. /\ block_erase(b, k).writes = <<Write(s, "0x20"), Write(BlockAt(b, k), "0xD0")>>
        /\ block_erase(b, k).then = "erased" /\ block_erase(b, k).at = <<s>>
    BY DEF block_erase, Step, s
  <2> QED
    BY <2>1, <2>2 DEF Write, Erasing, Cmd, InOneBank
<1> QED
  BY <1>1, <1>2

(* Programming a word. *)
LEMMA WordShape ==
  ASSUME NEW a, NEW w, BankOf(a) \in Bank
  PROVE  Wording(word_program(a, w))
BY DEF word_program, Step, Write, Data, Wording, Cmd, InOneBank

(* The writes of a buffer, one by one. *)
LEMMA FillWrites ==
  ASSUME NEW a \in Nat, NEW words \in Seq(Word), Len(words) > 0
  PROVE  LET s == buffer_program(a, words) IN
           /\ s.then = "programmed" /\ s.at = <<a>>
           /\ Len(s.writes) = Len(words) + 3 /\ s.writes \in Seq({s.writes[i] : i \in 1 .. Len(words) + 3})
           /\ s.writes[1] = Write(a, "0xE8") /\ s.writes[2] = Count(a, Len(words) - 1)
           /\ \A i \in 1 .. Len(words) : s.writes[2 + i] = Data(a + i - 1, bit_swap(words[i]))
           /\ s.writes[Len(words) + 3] = Write(a, "0xD0")
<1> DEFINE n == Len(words)
           data == [i \in DOMAIN words |-> Data(a + i - 1, bit_swap(words[i]))]
           first == <<Write(a, "0xE8"), Count(a, Len(words) - 1)>>
           last == <<Write(a, "0xD0")>>
           S == {first[1], first[2], last[1]} \cup {data[i] : i \in 1 .. n}
           ws == first \o data \o last
<1>1. n \in Nat /\ n > 0 /\ DOMAIN words = 1 .. n
  OBVIOUS
<1>2. first \in Seq(S) /\ last \in Seq(S) /\ data \in Seq(S) /\ Len(data) = n
  <2>1. data \in [1 .. n -> S]
    BY <1>1
  <2> QED
    BY <1>1, <2>1
<1>3. Len(first) = 2 /\ Len(last) = 1
  OBVIOUS
<1>4. /\ buffer_program(a, words).writes = ws /\ buffer_program(a, words).then = "programmed"
      /\ buffer_program(a, words).at = <<a>>
  BY DEF buffer_program, Step
<1>5. /\ first[1] = Write(a, "0xE8") /\ first[2] = Count(a, n - 1) /\ last[1] = Write(a, "0xD0")
      /\ \A i \in 1 .. n : data[i] = Data(a + i - 1, bit_swap(words[i]))
  BY <1>1
<1> HIDE DEF first, last, data, S, n
<1>6. /\ first \o data \in Seq(S) /\ Len(first \o data) = n + 2
      /\ Lies(first \o data, first, 0) /\ Lies(first \o data, data, 2)
  <2>1. /\ first \o data \in Seq(S) /\ Len(first \o data) = Len(first) + Len(data)
        /\ Lies(first \o data, first, 0) /\ Lies(first \o data, data, Len(first))
    BY <1>2, JoinLies
  <2> QED
    BY <1>1, <1>2, <1>3, <2>1
<1> DEFINE fd == first \o data
<1>7. fd \in Seq(S) /\ Len(fd) = n + 2 /\ Lies(fd, first, 0) /\ Lies(fd, data, 2)
  BY <1>6
<1>8. ws = fd \o last
  OBVIOUS
<1> HIDE DEF fd, ws
<1>9. /\ ws \in Seq(S) /\ Len(ws) = n + 3 /\ Lies(ws, fd, 0) /\ Lies(ws, last, n + 2)
  <2>1. /\ fd \o last \in Seq(S) /\ Len(fd \o last) = Len(fd) + Len(last)
        /\ Lies(fd \o last, fd, 0) /\ Lies(fd \o last, last, Len(fd))
    BY <1>2, <1>7, JoinLies
  <2> QED
    BY <1>1, <1>3, <1>7, <1>8, <2>1
<1>10. Lies(ws, first, 0) /\ Lies(ws, data, 2)
  BY <1>1, <1>2, <1>7, <1>9, LiesOn
<1>11. ws[1] = first[1] /\ ws[2] = first[2] /\ ws[n + 3] = last[1]
  <2>1. 1 \in 1 .. 2 /\ 2 \in 1 .. 2 /\ 0 + 1 = 1 /\ 0 + 2 = 2 /\ (n + 2) + 1 = n + 3 /\ 1 \in 1 .. 1
    BY <1>1
  <2> QED
    BY <1>3, <1>9, <1>10, <2>1 DEF Lies
<1>12. \A i \in 1 .. n : ws[2 + i] = data[i]
  BY <1>2, <1>10 DEF Lies
<1>13. ws \in Seq({ws[i] : i \in 1 .. n + 3})
  BY <1>1, <1>9
<1> QED
  BY <1>4, <1>5, <1>9, <1>11, <1>12, <1>13 DEF n

(* Programming a buffer. *)
LEMMA FillShape ==
  ASSUME NEW f \in Files, NEW p \in Buffers(f)
  PROVE  Filling(buffer_program(p[1], p[2]))
<1> DEFINE s == buffer_program(p[1], p[2])
           a == p[1]
           words == p[2]
           n == Len(words)
<1>1. /\ a \in Nat /\ words \in Seq(Word) /\ n \in 1 .. BufferWords
      /\ BankOf(a) < Len(BanksOf(f))
  BY DEF Buffers
<1>2. n \in Nat /\ n > 0
  BY <1>1, Geometry
<1>3. BankOf(a) \in Bank
  <2>1. BankOf(a) \in Nat
    BY <1>1, Geometry DEF BankOf
  <2> QED
    BY <1>1, <2>1, BanksFit, BanksFacts, Geometry DEF Bank
<1>4. /\ s.then = "programmed" /\ s.at = <<a>> /\ Len(s.writes) = n + 3
      /\ s.writes[1] = Write(a, "0xE8") /\ s.writes[2] = Count(a, n - 1)
      /\ \A i \in 1 .. n : s.writes[2 + i] = Data(a + i - 1, bit_swap(words[i]))
      /\ s.writes[n + 3] = Write(a, "0xD0")
  BY <1>1, <1>2, FillWrites
<1> HIDE DEF s, n, a, words
<1>5. Len(s.writes) \in 4 .. BufferWords + 3 /\ n - 1 = Len(s.writes) - 4
  BY <1>1, <1>2, <1>4, Geometry, SMTT(25)
<1>6. ASSUME NEW i \in 3 .. Len(s.writes) - 1 PROVE Cmd(s, i) = "data"
  <2>1. i - 2 \in 1 .. n /\ 2 + (i - 2) = i
    BY <1>2, <1>4, <1>6
  <2>2. s.writes[i] = Data(a + (i - 2) - 1, bit_swap(words[i - 2]))
    BY <1>4, <2>1
  <2> QED
    BY <2>2 DEF Cmd, Data
<1>7. InOneBank(s)
  BY <1>3, <1>4 DEF InOneBank, Write
<1>8. /\ Cmd(s, 1) = "0xE8" /\ Cmd(s, 2) = "count" /\ s.writes[2].n = n - 1
      /\ Cmd(s, Len(s.writes)) = "0xD0"
  BY <1>4 DEF Cmd, Write, Count
<1> QED
  BY <1>4, <1>5, <1>6, <1>7, <1>8 DEF Filling, s, a, words

-----------------------------------------------------------------------------
(* The steps of an update, one by one. *)

NumberRead(then) ==
  Step(<<Write(BlockAt(SerialBank, 0), "0xFF")>>, then,
       [i \in 1 .. SerialWords |-> BlockAt(SerialBank, 0) + SerialWords - i])
NumberWord(f, i) ==
  word_program(BlockAt(SerialBank, 0) + i - 1, SerialOf(f)[SerialWords + 1 - i])

IspSteps(f, s) ==
  /\ s[1] = set_config_register(AsyncMode) /\ s[2] = clear_stats_regs
  /\ \A i \in 3 .. Unlocked(f) : s[i] \in UnlockSteps(f)
  /\ \A i \in Unlocked(f) + 1 .. Erased(f) : s[i] \in EraseSteps(f)
  /\ \A i \in Erased(f) + 1 .. Filled(f) : s[i] \in BufferFills(f)
  /\ s[Filled(f) + 1] = set_config_register(AsyncMode)
  /\ s[Filled(f) + 2] = clear_stats_regs
  /\ s[Filled(f) + 3] = block_unlock(SerialBank, 0)
  /\ s[Filled(f) + 4] = block_erase(SerialBank, 0)
  /\ \A i \in 1 .. SerialWords : s[Filled(f) + 4 + i] = NumberWord(f, i)
  /\ s[Numbered(f) + 1] = set_config_register(AsyncMode)
  /\ s[Numbered(f) + 2] = clear_stats_regs
  /\ s[Numbered(f) + 3] = NumberRead("show")
  /\ \A b \in 1 .. Len(BanksOf(f)) :
       s[Numbered(f) + 3 + b] = read_bank(b - 1, Len(BanksOf(f)[b]))
  /\ s[Verified(f) - 2] = set_config_register(AsyncMode)
  /\ s[Verified(f) - 1] = clear_stats_regs
  /\ s[Verified(f)] = NumberRead("append")
  /\ s[Verified(f) + 1] = Step(<<>>, "compare", <<>>)
  /\ s[Verified(f) + 2] = set_config_register(SyncMode)
  /\ s[Verified(f) + 3] = reconfig

(* Where the parts end. *)
LEMMA IspPlaces ==
  ASSUME NEW f \in Files
  PROVE  /\ Unlocked(f) \in Nat /\ Unlocked(f) >= 2 + Blocks
         /\ Erased(f) \in Nat /\ Erased(f) >= Unlocked(f) + Blocks
         /\ Filled(f) \in Nat /\ Filled(f) > Erased(f)
         /\ Numbered(f) \in Nat /\ Numbered(f) = Filled(f) + 4 + SerialWords
         /\ Verified(f) \in Nat /\ Verified(f) = Numbered(f) + Len(BanksOf(f)) + 6
         /\ Len(BanksOf(f)) \in Nat /\ Len(BanksOf(f)) > 0
         /\ Len(Isp(f)) = Verified(f) + 3
<1>1. /\ Len(Unlocks(f)) \in Nat /\ Len(Erases(f)) \in Nat /\ Len(Programs(f)) \in Nat
      /\ Len(Unlocks(f)) >= Blocks /\ Len(Erases(f)) >= Blocks /\ Len(Programs(f)) >= 1
  BY PartKinds
<1>2. Len(BanksOf(f)) \in Nat /\ Len(BanksOf(f)) > 0
  BY BanksFacts
<1>3. Len(Isp(f)) = Verified(f) + 3
  BY IspAt DEF IspParts
<1> QED
  BY <1>1, <1>2, <1>3, Geometry DEF Unlocked, Erased, Filled, Numbered, Verified

(* What is at each place. *)
LEMMA IspContents ==
  ASSUME NEW f \in Files
  PROVE  IspSteps(f, Isp(f))
<1> DEFINE s == Isp(f)
           c == Len(BanksOf(f))
           number == set_logic_num(SerialOf(f))
           show == read_logic_num("show")
           append == read_logic_num("append")
<1>1. /\ Lies(s, Setup, 0) /\ Lies(s, Unlocks(f), 2) /\ Lies(s, Erases(f), Unlocked(f))
      /\ Lies(s, Programs(f), Erased(f)) /\ Lies(s, number, Filled(f))
      /\ Lies(s, show, Numbered(f)) /\ Lies(s, Reads(f), Numbered(f) + 3)
      /\ Lies(s, append, Numbered(f) + 3 + c) /\ Lies(s, Closing, Verified(f))
  BY IspAt DEF IspParts
<1>2. /\ Unlocked(f) \in Nat /\ Erased(f) \in Nat /\ Filled(f) \in Nat /\ Numbered(f) \in Nat
      /\ Verified(f) \in Nat /\ Verified(f) = Numbered(f) + c + 6 /\ c \in Nat
      /\ SerialWords \in Nat
  BY IspPlaces, Geometry
<1>3. /\ Len(Unlocks(f)) \in Nat /\ Len(Erases(f)) \in Nat /\ Len(Programs(f)) \in Nat
      /\ \A i \in 1 .. Len(Unlocks(f)) : Unlocks(f)[i] \in UnlockSteps(f)
      /\ \A i \in 1 .. Len(Erases(f)) : Erases(f)[i] \in EraseSteps(f)
      /\ \A i \in 1 .. Len(Programs(f)) : Programs(f)[i] \in BufferFills(f)
      /\ Unlocked(f) = 2 + Len(Unlocks(f)) /\ Erased(f) = Unlocked(f) + Len(Erases(f))
      /\ Filled(f) = Erased(f) + Len(Programs(f))
  BY PartKinds DEF Unlocked, Erased, Filled
<1> HIDE DEF s, number, show, append
<1>4. s[1] = set_config_register(AsyncMode) /\ s[2] = clear_stats_regs
  <2>1. Len(Setup) = 2 /\ s[0 + 1] = Setup[1] /\ s[0 + 2] = Setup[2]
    <3>1. Len(Setup) = 2 /\ 1 \in 1 .. 2 /\ 2 \in 1 .. 2
      BY DEF Setup
    <3> QED
      BY <1>1, <3>1 DEF Lies
  <2> QED
    BY <2>1 DEF Setup
<1>5. ASSUME NEW i \in 3 .. Unlocked(f) PROVE s[i] \in UnlockSteps(f)
  <2>1. i - 2 \in 1 .. Len(Unlocks(f)) /\ 2 + (i - 2) = i
    BY <1>2, <1>3
  <2>2. s[2 + (i - 2)] = Unlocks(f)[i - 2]
    BY <1>1, <2>1 DEF Lies
  <2> QED
    BY <1>3, <2>1, <2>2
<1>6. ASSUME NEW i \in Unlocked(f) + 1 .. Erased(f) PROVE s[i] \in EraseSteps(f)
  <2> DEFINE u == Unlocked(f)
  <2>1. i - u \in 1 .. Len(Erases(f)) /\ u + (i - u) = i
    BY <1>2, <1>3
  <2>2. s[u + (i - u)] = Erases(f)[i - u]
    BY <1>1, <2>1 DEF Lies
  <2> QED
    BY <1>3, <2>1, <2>2
<1>7. ASSUME NEW i \in Erased(f) + 1 .. Filled(f) PROVE s[i] \in BufferFills(f)
  <2> DEFINE u == Erased(f)
  <2>1. i - u \in 1 .. Len(Programs(f)) /\ u + (i - u) = i
    BY <1>2, <1>3
  <2>2. s[u + (i - u)] = Programs(f)[i - u]
    BY <1>1, <2>1 DEF Lies
  <2> QED
    BY <1>3, <2>1, <2>2
<1>8. /\ s[Filled(f) + 1] = set_config_register(AsyncMode)
      /\ s[Filled(f) + 2] = clear_stats_regs
      /\ s[Filled(f) + 3] = block_unlock(SerialBank, 0)
      /\ s[Filled(f) + 4] = block_erase(SerialBank, 0)
      /\ \A i \in 1 .. SerialWords : s[Filled(f) + 4 + i] = NumberWord(f, i)
  <2> DEFINE head == <<set_config_register(AsyncMode), clear_stats_regs,
                       block_unlock(SerialBank, 0), block_erase(SerialBank, 0)>>
             prog == [i \in 1 .. SerialWords |-> NumberWord(f, i)]
             S == {head[i] : i \in 1 .. 4} \cup {prog[i] : i \in 1 .. SerialWords}
  <2>1. number = head \o prog
    BY DEF number, set_logic_num, NumberWord
  <2>2. head \in Seq(S) /\ Len(head) = 4
    OBVIOUS
  <2>3. prog \in Seq(S) /\ Len(prog) = SerialWords
    BY <1>2, SMTT(25)
  <2>4. /\ head[1] = set_config_register(AsyncMode) /\ head[2] = clear_stats_regs
        /\ head[3] = block_unlock(SerialBank, 0) /\ head[4] = block_erase(SerialBank, 0)
        /\ \A i \in 1 .. SerialWords : prog[i] = NumberWord(f, i)
    OBVIOUS
  <2> HIDE DEF head, prog, S
  <2>5. /\ Len(number) = Len(head) + Len(prog)
        /\ Lies(number, head, 0) /\ Lies(number, prog, Len(head))
    BY <2>1, <2>2, <2>3, JoinLies
  <2>6. Len(number) = 4 + SerialWords /\ Lies(number, prog, 4)
    BY <2>2, <2>3, <2>5
  <2>7. ASSUME NEW i \in 1 .. 4 PROVE s[Filled(f) + i] = head[i]
    <3>1. i \in 1 .. Len(number) /\ 0 + i = i
      BY <1>2, <2>6
    <3> QED
      BY <1>1, <2>2, <2>5, <3>1, SMTT(25) DEF Lies
  <2>8. ASSUME NEW i \in 1 .. SerialWords PROVE s[Filled(f) + 4 + i] = prog[i]
    <3>1. 4 + i \in 1 .. Len(number) /\ Filled(f) + 4 + i = Filled(f) + (4 + i)
      BY <1>2, <2>6
    <3>2. s[Filled(f) + (4 + i)] = number[4 + i]
      BY <1>1, <3>1 DEF Lies
    <3>3. number[4 + i] = prog[i]
      BY <2>3, <2>6 DEF Lies
    <3> QED
      BY <3>1, <3>2, <3>3
  <2> QED
    BY <2>4, <2>7, <2>8
<1>9. ASSUME NEW then, NEW ss, ss = read_logic_num(then), NEW a \in Nat, Lies(s, ss, a)
      PROVE  /\ s[a + 1] = set_config_register(AsyncMode)
             /\ s[a + 2] = clear_stats_regs /\ s[a + 3] = NumberRead(then)
  <2>1. ss = <<set_config_register(AsyncMode), clear_stats_regs, NumberRead(then)>>
    BY <1>9 DEF read_logic_num, read_num, NumberRead
  <2>2. Len(ss) = 3 /\ 1 \in 1 .. 3 /\ 2 \in 1 .. 3 /\ 3 \in 1 .. 3
    BY <2>1
  <2>3. s[a + 1] = ss[1] /\ s[a + 2] = ss[2] /\ s[a + 3] = ss[3]
    BY <1>9, <2>2 DEF Lies
  <2> QED
    BY <2>1, <2>3
<1>10. /\ s[Numbered(f) + 1] = set_config_register(AsyncMode)
       /\ s[Numbered(f) + 2] = clear_stats_regs /\ s[Numbered(f) + 3] = NumberRead("show")
  BY <1>1, <1>2, <1>9 DEF show
<1>11. /\ s[Verified(f) - 2] = set_config_register(AsyncMode)
       /\ s[Verified(f) - 1] = clear_stats_regs /\ s[Verified(f)] = NumberRead("append")
  <2> DEFINE a == Numbered(f) + 3 + c
  <2>1. a \in Nat /\ a + 1 = Verified(f) - 2 /\ a + 2 = Verified(f) - 1 /\ a + 3 = Verified(f)
    BY <1>2, SMTT(25)
  <2>2. append = read_logic_num("append") /\ Lies(s, append, a)
    BY <1>1 DEF append
  <2> HIDE DEF a, append
  <2>3. /\ s[a + 1] = set_config_register(AsyncMode)
        /\ s[a + 2] = clear_stats_regs /\ s[a + 3] = NumberRead("append")
    BY <1>9, <2>1, <2>2
  <2> QED
    BY <2>1, <2>3
<1>12. ASSUME NEW b \in 1 .. c
       PROVE  s[Numbered(f) + 3 + b] = read_bank(b - 1, Len(BanksOf(f)[b]))
  <2>1. Len(Reads(f)) = c /\ Reads(f)[b] = read_bank(b - 1, Len(BanksOf(f)[b]))
    <3>1. DOMAIN BanksOf(f) = 1 .. c
      BY BanksFacts
    <3> QED
      BY <3>1, PartTypes DEF Reads
  <2> QED
    BY <1>1, <2>1 DEF Lies
<1>13. /\ s[Verified(f) + 1] = Step(<<>>, "compare", <<>>)
       /\ s[Verified(f) + 2] = set_config_register(SyncMode) /\ s[Verified(f) + 3] = reconfig
  <2>1. Len(Closing) = 3 /\ 1 \in 1 .. 3 /\ 2 \in 1 .. 3 /\ 3 \in 1 .. 3
    BY DEF Closing
  <2>2. /\ s[Verified(f) + 1] = Closing[1] /\ s[Verified(f) + 2] = Closing[2]
        /\ s[Verified(f) + 3] = Closing[3]
    BY <1>1, <2>1 DEF Lies
  <2> QED
    BY <2>2 DEF Closing
<1>14. IspSteps(f, s)
  BY <1>4, <1>5, <1>6, <1>7, <1>8, <1>10, <1>11, <1>12, <1>13 DEF IspSteps
<1> QED
  BY <1>14 DEF s

(* Where a step of the number, or of the end of an update, may be. *)
LEMMA NumberPlaces ==
  ASSUME NEW p \in Nat, NEW w \in Nat, NEW i \in p + 1 .. p + 4 + w
  PROVE  \/ i = p + 1 \/ i = p + 2 \/ i = p + 3 \/ i = p + 4
         \/ \E j \in 1 .. w : i = p + 4 + j
<1>1. CASE i > p + 4
  <2>1. i - (p + 4) \in 1 .. w /\ i = p + 4 + (i - (p + 4))
    BY <1>1
  <2> QED
    BY <2>1
<1>2. CASE ~(i > p + 4)
  <2>1. i \in Int /\ i >= p + 1 /\ i <= p + 4
    BY <1>2
  <2> QED
    BY <2>1
<1> QED
  BY <1>1, <1>2

(* The steps after the serial number is read, by their place. *)
LEMMA EndPlaces ==
  ASSUME NEW n \in Nat, NEW c \in Nat, NEW i \in n + 1 .. n + c + 9
  PROVE  \/ i = n + 1 \/ i = n + 2 \/ i = n + 3
         \/ \E b \in 1 .. c : i = n + 3 + b
         \/ i = n + c + 4 \/ i = n + c + 5 \/ i = n + c + 6
         \/ i = n + c + 7 \/ i = n + c + 8 \/ i = n + c + 9
<1>1. CASE i > n + 3 /\ i <= n + 3 + c
  <2>1. i - (n + 3) \in 1 .. c /\ i = n + 3 + (i - (n + 3))
    BY <1>1
  <2> QED
    BY <2>1
<1>2. CASE ~(i > n + 3)
  <2>1. i \in Int /\ i >= n + 1 /\ i <= n + 3
    BY <1>2
  <2> QED
    BY <2>1
<1>3. CASE ~(i <= n + 3 + c)
  <2>1. i \in Int /\ i >= n + c + 4 /\ i <= n + c + 9
    BY <1>3
  <2> QED
    BY <2>1
<1> QED
  BY <1>1, <1>2, <1>3

(* The kind of each step. *)
LEMMA IspKinds ==
  ASSUME NEW f \in Files
  PROVE  LET s == Isp(f) IN
           /\ Setting(s[1]) /\ Plain(s[2]) /\ s[2].then = "next" /\ Len(s[2].writes) = 1
           /\ \A i \in 3 .. Unlocked(f) : Unlocking(s[i])
           /\ \A i \in Unlocked(f) + 1 .. Erased(f) : Erasing(s[i])
           /\ \A i \in Erased(f) + 1 .. Filled(f) : Filling(s[i])
           /\ \A i \in Filled(f) + 1 .. Numbered(f) :
                \/ Setting(s[i]) \/ (Plain(s[i]) /\ s[i].then = "next")
                \/ Unlocking(s[i]) \/ Erasing(s[i]) \/ Wording(s[i])
           /\ \A i \in Numbered(f) + 1 .. Verified(f) + 3 : Setting(s[i]) \/ Plain(s[i])
<1> DEFINE s == Isp(f)
<1>1. IspSteps(f, s)
  BY IspContents
<1>2. /\ Numbered(f) = Filled(f) + 4 + SerialWords /\ SerialWords \in Nat
      /\ Filled(f) \in Nat /\ Numbered(f) \in Nat /\ Verified(f) \in Nat
      /\ Verified(f) = Numbered(f) + Len(BanksOf(f)) + 6 /\ Len(BanksOf(f)) \in Nat
  BY IspPlaces, Geometry
<1> HIDE DEF s
<1>3. Setting(s[1]) /\ Plain(s[2]) /\ s[2].then = "next" /\ Len(s[2].writes) = 1
  <2>1. s[1] = set_config_register(AsyncMode) /\ s[2] = clear_stats_regs
    BY <1>1 DEF IspSteps
  <2> QED
    BY <2>1, PlainShapes DEF clear_stats_regs, Step
<1>4. ASSUME NEW p \in (0 .. Len(BanksOf(f)) - 1) \X (0 .. Blocks - 1)
      PROVE  Unlocking(block_unlock(p[1], p[2])) /\ Erasing(block_erase(p[1], p[2]))
  <2>1. p[1] \in Bank /\ p[2] \in 0 .. Blocks - 1
    BY <1>2, BanksFit, Geometry DEF Bank
  <2> QED
    BY <2>1, BlockShapes
<1>5. \A i \in 3 .. Unlocked(f) : Unlocking(s[i])
  BY <1>1, <1>4 DEF IspSteps, UnlockSteps
<1>6. \A i \in Unlocked(f) + 1 .. Erased(f) : Erasing(s[i])
  BY <1>1, <1>4 DEF IspSteps, EraseSteps
<1>7. \A i \in Erased(f) + 1 .. Filled(f) : Filling(s[i])
  BY <1>1, FillShape DEF IspSteps, BufferFills
<1>8. ASSUME NEW i \in Filled(f) + 1 .. Numbered(f)
      PROVE  \/ Setting(s[i]) \/ (Plain(s[i]) /\ s[i].then = "next")
             \/ Unlocking(s[i]) \/ Erasing(s[i]) \/ Wording(s[i])
  <2> DEFINE p == Filled(f)
  <2>1. i \in p + 1 .. p + 4 + SerialWords /\ p \in Nat
    BY <1>2
  <2>2. /\ s[p + 1] = set_config_register(AsyncMode) /\ s[p + 2] = clear_stats_regs
        /\ s[p + 3] = block_unlock(SerialBank, 0) /\ s[p + 4] = block_erase(SerialBank, 0)
        /\ \A j \in 1 .. SerialWords : s[p + 4 + j] = NumberWord(f, j)
    BY <1>1 DEF IspSteps
  <2>3. clear_stats_regs.then = "next"
    BY DEF clear_stats_regs, Step
  <2>4. SerialBank \in Bank /\ 0 \in 0 .. Blocks - 1
    BY Geometry DEF Bank
  <2>5. ASSUME NEW j \in 1 .. SerialWords PROVE Wording(NumberWord(f, j))
    <3>1. BankOf(BlockAt(SerialBank, 0) + j - 1) \in Bank
      <4>1. j - 1 \in 0 .. BlockWords - 1 /\ 0 \in 0 .. Blocks - 1 /\ SerialBank \in Nat
        BY Geometry
      <4>2. BankOf(BlockAt(SerialBank, 0) + (j - 1)) = SerialBank /\ BlockAt(SerialBank, 0) \in Nat
        <5>1. 0 \in 0 .. BlockWords - 1
          BY Geometry
        <5> QED
          BY <4>1, <5>1, BlockCount, BlockAtValue
      <4>3. BlockAt(SerialBank, 0) + (j - 1) = BlockAt(SerialBank, 0) + j - 1
        BY <4>2
      <4> QED
        BY <2>4, <4>2, <4>3
    <3> QED
      BY <3>1, WordShape DEF NumberWord
  <2> HIDE DEF p
  <2>6. \/ i = p + 1 \/ i = p + 2 \/ i = p + 3 \/ i = p + 4
        \/ \E j \in 1 .. SerialWords : i = p + 4 + j
    BY <1>2, <2>1, NumberPlaces
  <2> QED
    BY <2>2, <2>3, <2>4, <2>5, <2>6, PlainShapes, BlockShapes
<1>9. ASSUME NEW i \in Numbered(f) + 1 .. Verified(f) + 3 PROVE Setting(s[i]) \/ Plain(s[i])
  <2> DEFINE n == Numbered(f)
             c == Len(BanksOf(f))
             v == Verified(f)
  <2>1. /\ n \in Nat /\ c \in Nat /\ v = n + c + 6 /\ i \in n + 1 .. v + 3
    BY <1>2
  <2>2. /\ Plain(NumberRead("show")) /\ Plain(NumberRead("append"))
        /\ \A b \in 1 .. c : Plain(read_bank(b - 1, Len(BanksOf(f)[b])))
    BY PlainShapes DEF NumberRead
  <2>3. /\ s[n + 1] = set_config_register(AsyncMode) /\ s[n + 2] = clear_stats_regs
        /\ s[n + 3] = NumberRead("show")
        /\ \A b \in 1 .. c : s[n + 3 + b] = read_bank(b - 1, Len(BanksOf(f)[b]))
        /\ s[v - 2] = set_config_register(AsyncMode) /\ s[v - 1] = clear_stats_regs
        /\ s[v] = NumberRead("append") /\ s[v + 1] = Step(<<>>, "compare", <<>>)
        /\ s[v + 2] = set_config_register(SyncMode) /\ s[v + 3] = reconfig
    BY <1>1 DEF IspSteps
  <2> HIDE DEF n, c, v
  <2>4. v + 3 = n + c + 9 /\ v - 2 = n + c + 4 /\ v - 1 = n + c + 5 /\ v + 1 = n + c + 7
        /\ v + 2 = n + c + 8
    BY <2>1
  <2>5. \/ i = n + 1 \/ i = n + 2 \/ i = n + 3
        \/ \E b \in 1 .. c : i = n + 3 + b
        \/ i = v - 2 \/ i = v - 1 \/ i = v \/ i = v + 1 \/ i = v + 2 \/ i = v + 3
    BY <2>1, <2>4, EndPlaces
  <2> QED
    BY <2>2, <2>3, <2>5, PlainShapes
<1> QED
  BY <1>3, <1>5, <1>6, <1>7, <1>8, <1>9 DEF s

(* The other tool only reads. *)
LEMMA DsnKinds ==
  \A i \in 1 .. Len(Dsn) : Setting(Dsn[i]) \/ Plain(Dsn[i])
<1> DEFINE third(k) == Step(<<Write(BlockAt(SerialBank, 0), "0xFF")>>, "show",
                            [i \in 1 .. SerialWords |-> BlockAt(SerialBank, k) + SerialWords - i])
           close == Step(<<>>, "close", <<>>)
           cfg == set_config_register(AsyncMode)
<1>1. /\ read_num(1, "show") = <<cfg, clear_stats_regs, third(1)>>
      /\ read_num(0, "show") = <<cfg, clear_stats_regs, third(0)>>
  BY DEF read_num
<1>2. Setting(cfg) /\ Plain(clear_stats_regs) /\ Plain(third(1)) /\ Plain(third(0))
  BY PlainShapes
<1>3. Plain(close)
  BY DEF Plain, Step
<1>4. Dsn = read_num(1, "show") \o read_num(0, "show") \o <<close>>
  BY DEF Dsn, read_hardware_num, read_logic_num
<1> DEFINE S == {cfg, clear_stats_regs, third(1), third(0), close}
           first == read_num(1, "show")
           second == read_num(0, "show")
<1> HIDE DEF cfg, close, third
<1>5. first \in Seq(S) /\ second \in Seq(S) /\ <<close>> \in Seq(S)
  <2>1. cfg \in S /\ clear_stats_regs \in S /\ third(1) \in S /\ third(0) \in S /\ close \in S
    OBVIOUS
  <2> HIDE DEF S
  <2>2. /\ <<cfg, clear_stats_regs, third(1)>> \in Seq(S)
        /\ <<cfg, clear_stats_regs, third(0)>> \in Seq(S) /\ <<close>> \in Seq(S)
    BY <2>1
  <2> QED
    BY <1>1, <2>2
<1>6. \A x \in S : Setting(x) \/ Plain(x)
  BY <1>2, <1>3
<1> HIDE DEF S, first, second
<1>7. first \o second \o <<close>> \in Seq(S)
  BY <1>5
<1>8. Dsn \in Seq(S)
  BY <1>4, <1>7 DEF first, second
<1> QED
  BY <1>6, <1>8

-----------------------------------------------------------------------------
(* The chip and the tool in step.  A killed tool leaves the chip within a     *)
(* command, and the next one writes into it: until the chip is ready again    *)
(* what the tool writes is not what the chip takes it for.                    *)

Openings == {"0x60", "0x20", "0x40", "0xE8"}
First(s) == IF Len(s.writes) = 0 THEN "none" ELSE Cmd(s, 1)
StatusOf(ch, s) == ch.read[BankOf(s.at[1])] = "status"

(* The chip is in the command of step s, of which k writes are done. *)
Matches(ch, s, k) ==
  \/ k = 1 /\ First(s) \in Openings /\ ch.cui.st = First(s)
  \/ First(s) = "0xE8" /\ ch.cui.st = "load" /\ k > 1 /\ ch.cui.left = Len(s.writes) - 1 - k
  \/ First(s) = "0xE8" /\ ch.cui.st = "confirm" /\ k = Len(s.writes) - 1
  \/ First(s) \in Openings \ {"0x60"} /\ ch.cui.st = "busy" /\ k = Len(s.writes)
InStep(ch, s, k) ==
  \/ ch.cui.st = "ready"
  \/ Matches(ch, s, k) /\ (First(s) # "0x60" => StatusOf(ch, s))

(* Writes of an update before write k of step pc, at least. *)
Before(pc, k) == IF pc = 1 THEN k ELSE IF pc = 2 THEN 2 + k ELSE 2 * pc - 3 + k

(* The chip is in a command that an earlier run began; f is erased when the   *)
(* chip must have got out of it.                                              *)
Behind(ch, f, pc, k) ==
  \/ ch.cui.st = "busy" /\ (pc <= Erased(f) \/ (pc = Erased(f) + 1 /\ k = 0))
  \/ ch.cui.st \in {"load", "confirm"} /\ ch.cui.left + Before(pc, k) <= BufferWords
  \/ ch.cui.st \in Openings /\ pc = 1 /\ k = 0

BufInv(ch) ==
  /\ ch.cui.st = "load" => ch.cui.left \in 1 .. BufferWords
  /\ ch.cui.st = "confirm" => ch.cui.left = 0

(* The commands a step writes, after its first and before its last. *)
LEMMA ShapeWrites ==
  ASSUME NEW s, Shaped(s), NEW k \in Nat, k < Len(s.writes)
  PROVE  /\ k > 0 => Cmd(s, k + 1) \notin Openings
         /\ Cmd(s, k + 1) = "count" => s.writes[k + 1].n + 1 \in 1 .. BufferWords
         /\ k = 0 => First(s) = Cmd(s, k + 1)
<1>1. k = 0 => First(s) = Cmd(s, k + 1)
  BY DEF First
<1>2. CASE Setting(s)
  <2>1. k = 0 \/ k = 1
    BY <1>2 DEF Setting
  <2> QED
    BY <1>1, <1>2, <2>1 DEF Setting, Openings
<1>3. CASE Plain(s)
  <2>1. k = 0 /\ Len(s.writes) = 1
    <3>1. s.writes = <<>> => Len(s.writes) = 0
      OBVIOUS
    <3>2. Len(s.writes) = 1
      BY <1>3, <3>1 DEF Plain
    <3> QED
      BY <3>2
  <2> QED
    BY <1>1, <1>3, <2>1 DEF Plain, Openings
<1>4. CASE Unlocking(s)
  <2>1. k = 0 \/ k = 1 \/ k = 2
    BY <1>4 DEF Unlocking
  <2> QED
    BY <1>1, <1>4, <2>1 DEF Unlocking, Openings
<1>5. CASE Erasing(s)
  <2>1. k = 0 \/ k = 1
    BY <1>5 DEF Erasing
  <2> QED
    BY <1>1, <1>5, <2>1 DEF Erasing, Openings
<1>6. CASE Wording(s)
  <2>1. k = 0 \/ k = 1
    BY <1>6 DEF Wording
  <2> QED
    BY <1>1, <1>6, <2>1 DEF Wording, Openings
<1>7. CASE Filling(s)
  <2> DEFINE m == Len(s.writes)
  <2>1. /\ m \in 4 .. BufferWords + 3 /\ Cmd(s, 1) = "0xE8" /\ Cmd(s, 2) = "count"
        /\ s.writes[2].n = m - 4 /\ Cmd(s, m) = "0xD0"
        /\ \A i \in 3 .. m - 1 : Cmd(s, i) = "data"
    BY <1>7 DEF Filling
  <2> HIDE DEF m
  <2>2. k < m
    BY DEF m
  <2>3. k = 0 \/ k = 1 \/ k + 1 \in 3 .. m - 1 \/ k + 1 = m
    BY <2>1, <2>2, Geometry
  <2>4. (m - 4) + 1 \in 1 .. BufferWords
    BY <2>1, Geometry
  <2>5. CASE k = 0
    BY <1>1, <2>1, <2>5
  <2>6. CASE k = 1
    <3>1. k + 1 = 2
      BY <2>6
    <3> QED
      BY <2>1, <2>4, <2>6, <3>1 DEF Openings
  <2>7. CASE k + 1 \in 3 .. m - 1 \/ k + 1 = m
    <3>1. k # 0
      BY <2>1, <2>7
    <3> QED
      BY <2>1, <2>7, <3>1 DEF Openings
  <2> QED
    BY <2>3, <2>5, <2>6, <2>7
<1> QED
  BY <1>2, <1>3, <1>4, <1>5, <1>6, <1>7 DEF Shaped

(* An operation starts, or not. *)
LEMMA Started ==
  ASSUME ChipInv, NEW a, NEW op, NEW buf
  PROVE  LET c == StartOperation(a, op, buf) IN
           /\ c.cui.st \in {"ready", "busy"}
           /\ c.read = chip.read /\ c.config = chip.config
BY DEF ChipInv, Chips, StartOperation, Ready

(* A command begins. *)
LEMMA AfterFirst ==
  ASSUME ChipInv, chip.cui.st = "ready", NEW w, NEW c, c = AfterWrite(w)
  PROVE  /\ w.cmd \in Openings =>
              c.cui.st = w.cmd /\ (BankOf(w.addr) \in Bank => c.read[BankOf(w.addr)] = "status")
         /\ w.cmd \notin Openings => c.cui.st = "ready"
         /\ w.cmd = "0xFF" /\ BankOf(w.addr) \in Bank => c.read[BankOf(w.addr)] = "array"
         /\ c.config = chip.config
<1>1. c = FirstWrite(w)
  BY DEF AfterWrite
<1>2. CASE w.cmd \in Openings
  BY <1>1, <1>2 DEF FirstWrite, Openings, ChipInv, Chips
<1>3. CASE w.cmd = "0x50"
  BY <1>1, <1>3 DEF FirstWrite, Openings, ChipInv, Chips
<1>4. CASE w.cmd = "0x90"
  BY <1>1, <1>4 DEF FirstWrite, Openings, ChipInv, Chips
<1>5. CASE w.cmd = "0xFF"
  BY <1>1, <1>5 DEF FirstWrite, Openings, ChipInv, Chips
<1>6. CASE w.cmd \notin Openings \cup {"0x50", "0x90", "0xFF"}
  <2>1. c = chip
    BY <1>1, <1>6 DEF FirstWrite, Openings
  <2> QED
    BY <1>6, <2>1
<1> QED
  BY <1>2, <1>3, <1>4, <1>5, <1>6

(* A command goes on. *)
LEMMA AfterLater ==
  ASSUME ChipInv, chip.cui.st # "ready", NEW w, NEW c, c = AfterWrite(w)
  PROVE  /\ c.read = chip.read
         /\ ~(chip.cui.st = "0x60" /\ w.cmd = "0x03") => c.config = chip.config
         /\ chip.cui.st = "0x60" =>
              c.cui.st = "ready" /\ (w.cmd = "0x03" => c.config = w.addr)
         /\ chip.cui.st \in {"0x20", "0x40", "confirm"} => c.cui.st \in {"ready", "busy"}
         /\ chip.cui.st = "0x20" /\ w.cmd # "0xD0" => c.cui.st = "ready"
         /\ chip.cui.st = "0xE8" /\ w.cmd = "count" =>
              c.cui.st = "load" /\ c.cui.left = w.n + 1
         /\ chip.cui.st = "0xE8" /\ w.cmd # "count" => c.cui.st = "ready"
         /\ chip.cui.st = "load" =>
              /\ c.cui.st = IF chip.cui.left = 1 THEN "confirm" ELSE "load"
              /\ c.cui.left = chip.cui.left - 1
         /\ chip.cui.st = "busy" => c = chip
<1>1. c = LaterWrite(w)
  BY DEF AfterWrite
<1>2. chip.cui.st \in States \ {"ready"}
  BY DEF ChipInv, Chips
<1>3. CASE chip.cui.st = "0x60"
  BY <1>1, <1>3 DEF LaterWrite, SequenceError, Ready, ChipInv, Chips
<1>4. CASE chip.cui.st = "0x20"
  BY <1>1, <1>4, Started DEF LaterWrite, SequenceError, Ready, ChipInv, Chips
<1>5. CASE chip.cui.st = "0x40"
  BY <1>1, <1>5, Started DEF LaterWrite
<1>6. CASE chip.cui.st = "0xE8"
  BY <1>1, <1>6 DEF LaterWrite, SequenceError, Ready, ChipInv, Chips
<1>7. CASE chip.cui.st = "load"
  BY <1>1, <1>7 DEF LaterWrite, ChipInv, Chips
<1>8. CASE chip.cui.st = "confirm"
  BY <1>1, <1>8, Started DEF LaterWrite, SequenceError, Ready, ChipInv, Chips
<1>9. CASE chip.cui.st = "busy"
  BY <1>1, <1>9 DEF LaterWrite
<1> QED
  BY <1>2, <1>3, <1>4, <1>5, <1>6, <1>7, <1>8, <1>9 DEF States

(* A write to a chip that is in step leaves it in step. *)
LEMMA WriteInStep ==
  ASSUME ChipInv, BufInv(chip), NEW s, Shaped(s), NEW k \in Nat, k < Len(s.writes),
         InStep(chip, s, k), NEW c, c = AfterWrite(s.writes[k + 1])
  PROVE  InStep(c, s, k + 1) /\ BufInv(c) /\ (k = 0 => chip.cui.st = "ready")
<1> DEFINE w == s.writes[k + 1]
           m == Len(s.writes)
<1>1. /\ k > 0 => w.cmd \notin Openings
      /\ w.cmd = "count" => w.n + 1 \in 1 .. BufferWords
      /\ k = 0 => First(s) = w.cmd /\ w = s.writes[1]
  BY ShapeWrites DEF Cmd
<1>2. m \in Nat /\ (First(s) \in Openings \ {"0x60"} => InOneBank(s) /\ m > 1)
  <2>1. CASE Setting(s) \/ Unlocking(s)
    BY <2>1 DEF Setting, Unlocking, First, Openings
  <2>2. CASE Plain(s)
    <3>1. s.writes = <<>> => m = 0
      OBVIOUS
    <3> QED
      BY <2>2, <3>1 DEF Plain, First, Openings
  <2>3. CASE Erasing(s) \/ Wording(s)
    <3>1. m = 2 /\ InOneBank(s)
      BY <2>3 DEF Erasing, Wording
    <3> QED
      BY <3>1
  <2>4. CASE Filling(s)
    <3>1. m \in 4 .. BufferWords + 3
      BY <2>4 DEF Filling
    <3> QED
      BY <2>4, <3>1, Geometry DEF Filling
  <2> QED
    BY <2>1, <2>2, <2>3, <2>4 DEF Shaped
<1> HIDE DEF w, m
<1>3. CASE chip.cui.st = "ready"
  <2>1. /\ w.cmd \in Openings =>
             c.cui.st = w.cmd /\ (BankOf(w.addr) \in Bank => c.read[BankOf(w.addr)] = "status")
        /\ w.cmd \notin Openings => c.cui.st = "ready"
    BY <1>3, AfterFirst DEF w
  <2>2. CASE w.cmd \notin Openings
    BY <1>3, <2>1, <2>2 DEF InStep, BufInv
  <2>3. CASE w.cmd \in Openings
    <3>1. k = 0 /\ First(s) = w.cmd /\ w = s.writes[1]
      BY <1>1, <2>3
    <3>2. c.cui.st = First(s) /\ k + 1 = 1
      BY <2>1, <2>3, <3>1
    <3>3. First(s) # "0x60" => StatusOf(c, s)
      <4>1. First(s) # "0x60" => InOneBank(s)
        BY <1>2, <2>3, <3>1 DEF Openings
      <4> QED
        BY <2>1, <2>3, <3>1, <4>1 DEF InOneBank, StatusOf
    <3>4. BufInv(c)
      BY <2>1, <2>3 DEF BufInv, Openings
    <3>5. Matches(c, s, k + 1)
      BY <2>3, <3>1, <3>2 DEF Matches
    <3> QED
      BY <1>3, <3>3, <3>4, <3>5 DEF InStep
  <2> QED
    BY <2>2, <2>3
<1>4. CASE chip.cui.st # "ready"
  <2>1. Matches(chip, s, k) /\ (First(s) # "0x60" => StatusOf(chip, s))
    BY <1>4 DEF InStep
  <2>2. /\ c.read = chip.read
        /\ chip.cui.st = "0x60" => c.cui.st = "ready"
        /\ chip.cui.st \in {"0x20", "0x40", "confirm"} => c.cui.st \in {"ready", "busy"}
        /\ chip.cui.st = "0xE8" /\ w.cmd = "count" =>
             c.cui.st = "load" /\ c.cui.left = w.n + 1
        /\ chip.cui.st = "0xE8" /\ w.cmd # "count" => c.cui.st = "ready"
        /\ chip.cui.st = "load" =>
             /\ c.cui.st = IF chip.cui.left = 1 THEN "confirm" ELSE "load"
             /\ c.cui.left = chip.cui.left - 1
    BY <1>4, AfterLater DEF w
  <2>3. StatusOf(chip, s) => StatusOf(c, s)
    BY <2>2 DEF StatusOf
  <2>4. k # 0
    <3>1. k < m
      BY DEF m
    <3>2. First(s) \in Openings \ {"0x60"} => m # 0 /\ m - 1 # 0
      BY <1>2
    <3>3. First(s) = "0xE8" => First(s) \in Openings \ {"0x60"}
      BY DEF Openings
    <3>4. k = 1 \/ k > 1 \/ (k = m - 1 /\ m - 1 # 0) \/ (k = m /\ m # 0)
      BY <2>1, <3>2, <3>3 DEF Matches, m
    <3>5. m \in Nat
      BY <1>2
    <3> QED
      BY <3>4, <3>5
  <2>5. CASE c.cui.st = "ready"
    BY <2>4, <2>5 DEF InStep, BufInv
  <2>6. CASE c.cui.st # "ready"
    <3>1. Matches(c, s, k + 1)
      <4>1. CASE chip.cui.st \in Openings
        <5>1. k = 1 /\ First(s) = chip.cui.st
          BY <2>1, <4>1 DEF Matches, Openings
        <5>2. First(s) # "0x60" /\ First(s) \in Openings
          BY <2>2, <2>6, <4>1, <5>1
        <5>3. CASE First(s) = "0xE8"
          <6>1. Filling(s)
            BY <5>3 DEF Shaped, Setting, Plain, Unlocking, Erasing, Wording, First
          <6>2. m \in 4 .. BufferWords + 3 /\ w.cmd = "count" /\ w.n = m - 4
            <7>1. k + 1 = 2
              BY <5>1
            <7> QED
              BY <6>1, <7>1 DEF Filling, Cmd, w, m
          <6>3. c.cui.st = "load" /\ c.cui.left = m - 4 + 1
            BY <2>2, <5>1, <5>3, <6>2
          <6>4. m - 4 + 1 = m - 1 - 2 /\ k + 1 = 2
            BY <5>1, <6>2
          <6> QED
            BY <5>3, <6>3, <6>4 DEF Matches, m
        <5>4. CASE First(s) # "0xE8"
          <6>1. Erasing(s) \/ Wording(s)
            BY <5>2, <5>4 DEF Shaped, Setting, Plain, Unlocking, Filling, First, Openings
          <6>2. m = 2
            BY <6>1 DEF Erasing, Wording, m
          <6>3. c.cui.st = "busy"
            BY <2>2, <2>6, <5>1, <5>2, <5>4 DEF Openings
          <6> QED
            BY <5>1, <5>2, <6>2, <6>3 DEF Matches, m
        <5> QED
          BY <5>3, <5>4
      <4>2. CASE chip.cui.st = "load"
        <5>1. First(s) = "0xE8" /\ k > 1 /\ chip.cui.left = m - 1 - k
          BY <2>1, <4>2 DEF Matches, m, Openings
        <5>2. /\ c.cui.st = IF chip.cui.left = 1 THEN "confirm" ELSE "load"
              /\ c.cui.left = chip.cui.left - 1
          BY <2>2, <4>2
        <5>3. m \in Nat
          BY <1>2, <5>1 DEF Openings
        <5>4. chip.cui.left = 1 => k + 1 = m - 1
          BY <5>1, <5>3
        <5>5. chip.cui.left - 1 = m - 1 - (k + 1) /\ k + 1 > 1
          BY <5>1, <5>3
        <5> QED
          BY <5>1, <5>2, <5>4, <5>5 DEF Matches, m
      <4>3. CASE chip.cui.st = "confirm"
        <5>1. First(s) = "0xE8" /\ k = m - 1
          BY <2>1, <4>3 DEF Matches, m, Openings
        <5>2. k + 1 = m
          BY <1>2, <5>1 DEF Openings
        <5>3. c.cui.st = "busy"
          BY <2>2, <2>6, <4>3
        <5> QED
          BY <5>1, <5>2, <5>3 DEF Matches, m, Openings
      <4>4. CASE chip.cui.st = "busy"
        <5>1. k = m
          BY <2>1, <4>4 DEF Matches, m, Openings
        <5>2. k < m
          BY DEF m
        <5> QED
          BY <5>1, <5>2
      <4>5. chip.cui.st \in Openings \cup {"load", "confirm", "busy"}
        BY <1>4 DEF ChipInv, Chips, States, Openings
      <4> QED
        BY <4>1, <4>2, <4>3, <4>4, <4>5
    <3>2. BufInv(c)
      <4>1. CASE chip.cui.st = "load"
        <5>1. chip.cui.left \in 1 .. BufferWords
          BY <4>1 DEF BufInv
        <5>2. /\ c.cui.st = IF chip.cui.left = 1 THEN "confirm" ELSE "load"
              /\ c.cui.left = chip.cui.left - 1
          BY <2>2, <4>1
        <5> QED
          BY <5>1, <5>2, Geometry DEF BufInv
      <4>2. CASE chip.cui.st # "load"
        <5>1. c.cui.st = "load" => chip.cui.st = "0xE8" /\ w.cmd = "count"
          BY <2>1, <2>2, <2>6, <4>2, <3>1 DEF Matches, Openings
        <5>2. c.cui.st # "confirm"
          <6>1. chip.cui.st # "busy"
            <7>1. k < m
              BY DEF m
            <7> QED
              BY <2>1, <7>1 DEF Matches, m, Openings
          <6>2. chip.cui.st \in Openings \cup {"confirm"}
            BY <1>4, <4>2, <6>1 DEF ChipInv, Chips, States, Openings
          <6> QED
            BY <2>2, <6>2 DEF Openings
        <5> QED
          BY <1>1, <2>2, <5>1, <5>2 DEF BufInv
      <4> QED
        BY <4>1, <4>2
    <3> QED
      BY <2>1, <2>3, <2>4, <3>1, <3>2 DEF InStep
  <2> QED
    BY <2>5, <2>6
<1> QED
  BY <1>3, <1>4

(* The place of a step says what it is. *)
LEMMA IspPlace ==
  ASSUME NEW f \in Files, NEW i \in 1 .. Len(Isp(f)), NEW s, s = Isp(f)[i]
  PROVE  /\ Shaped(s) /\ i \in Nat /\ i > 0
         /\ i = 1 => Len(s.writes) = 2
         /\ i = 2 => Len(s.writes) = 1
         /\ i > 2 /\ i <= Erased(f) => Len(s.writes) > 1
         /\ i = Erased(f) + 1 => Filling(s)
         /\ i <= Numbered(f) => s.then \in {"next", "unlocked", "erased", "programmed"}
         /\ i > Numbered(f) => Setting(s) \/ Plain(s)
<1> DEFINE u == Unlocked(f)
           e == Erased(f)
           g == Filled(f)
           n == Numbered(f)
           v == Verified(f)
           ss == Isp(f)
<1>1. /\ u \in Nat /\ e \in Nat /\ g \in Nat /\ n \in Nat /\ v \in Nat
      /\ u >= 2 /\ e >= u /\ g > e /\ n > g /\ v > n /\ Len(ss) = v + 3
  <2>1. /\ u \in Nat /\ u >= 2 + Blocks /\ e \in Nat /\ e >= u + Blocks
        /\ g \in Nat /\ g > e /\ n \in Nat /\ n = g + 4 + SerialWords
        /\ v \in Nat /\ v = n + Len(BanksOf(f)) + 6 /\ Len(BanksOf(f)) \in Nat
        /\ Len(ss) = v + 3
    BY IspPlaces
  <2> HIDE DEF u, e, g, n, v, ss
  <2> QED
    BY <2>1, Geometry
<1>2. /\ Setting(ss[1]) /\ Plain(ss[2]) /\ ss[2].then = "next" /\ Len(ss[2].writes) = 1
      /\ \A j \in 3 .. u : Unlocking(ss[j])
      /\ \A j \in u + 1 .. e : Erasing(ss[j])
      /\ \A j \in e + 1 .. g : Filling(ss[j])
      /\ \A j \in g + 1 .. n :
           \/ Setting(ss[j]) \/ (Plain(ss[j]) /\ ss[j].then = "next")
           \/ Unlocking(ss[j]) \/ Erasing(ss[j]) \/ Wording(ss[j])
      /\ \A j \in n + 1 .. v + 3 : Setting(ss[j]) \/ Plain(ss[j])
  BY IspKinds
<1>3. s = ss[i]
  OBVIOUS
<1>4. i \in 1 .. Len(ss)
  OBVIOUS
<1> HIDE DEF u, e, g, n, v, ss
<1>5. /\ i \in Nat /\ i > 0
      /\ \/ i = 1 \/ i = 2 \/ i \in 3 .. u \/ i \in u + 1 .. e
         \/ i \in e + 1 .. g \/ i \in g + 1 .. n \/ i \in n + 1 .. v + 3
  BY <1>1, <1>4
<1> DEFINE Early == {"next", "unlocked", "erased", "programmed"}
           Goal == /\ Shaped(s)
                   /\ i = 1 => Len(s.writes) = 2
                   /\ i = 2 => Len(s.writes) = 1
                   /\ i > 2 /\ i <= e => Len(s.writes) > 1
                   /\ i = e + 1 => Filling(s)
                   /\ i <= n => s.then \in Early
                   /\ i > n => Setting(s) \/ Plain(s)
<1>6. ASSUME i = 1 PROVE Goal
  BY <1>1, <1>2, <1>3, <1>6 DEF Shaped, Setting
<1>7. ASSUME i = 2 PROVE Goal
  BY <1>1, <1>2, <1>3, <1>7 DEF Shaped
<1>8. ASSUME i \in 3 .. u PROVE Goal
  <2>1. Unlocking(s) /\ i > 2 /\ i <= e /\ ~(i > n) /\ i # e + 1 /\ i # 1 /\ i # 2
    BY <1>1, <1>2, <1>3, <1>8
  <2>2. Len(s.writes) > 1 /\ s.then \in Early
    BY <2>1 DEF Unlocking
  <2> QED
    BY <2>1, <2>2 DEF Shaped
<1>9. ASSUME i \in u + 1 .. e PROVE Goal
  <2>1. Erasing(s) /\ i > 2 /\ i <= e /\ ~(i > n) /\ i # e + 1 /\ i # 1 /\ i # 2
    BY <1>1, <1>2, <1>3, <1>9
  <2>2. Len(s.writes) > 1 /\ s.then \in Early
    BY <2>1 DEF Erasing
  <2> QED
    BY <2>1, <2>2 DEF Shaped
<1>10. ASSUME i \in e + 1 .. g PROVE Goal
  <2>1. Filling(s) /\ ~(i <= e) /\ ~(i > n) /\ i # 1 /\ i # 2
    BY <1>1, <1>2, <1>3, <1>10
  <2>2. s.then \in Early
    BY <2>1 DEF Filling
  <2> QED
    BY <2>1, <2>2 DEF Shaped
<1>11. ASSUME i \in g + 1 .. n PROVE Goal
  <2>1. ~(i <= e) /\ ~(i > n) /\ i # 1 /\ i # 2 /\ i # e + 1
    BY <1>1, <1>11
  <2>2. \/ Setting(s) \/ (Plain(s) /\ s.then = "next")
        \/ Unlocking(s) \/ Erasing(s) \/ Wording(s)
    BY <1>2, <1>3, <1>11
  <2>3. s.then \in Early
    BY <2>2 DEF Setting, Unlocking, Erasing, Wording
  <2> QED
    BY <2>1, <2>2, <2>3 DEF Shaped
<1>12. ASSUME i \in n + 1 .. v + 3 PROVE Goal
  <2>1. ~(i <= e) /\ ~(i <= n) /\ i # 1 /\ i # 2 /\ i # e + 1
    BY <1>1, <1>12
  <2>2. Setting(s) \/ Plain(s)
    BY <1>2, <1>3, <1>12
  <2> QED
    BY <2>1, <2>2 DEF Shaped
<1>13. Goal
  <2> HIDE DEF Goal
  <2> QED
    BY <1>5, <1>6, <1>7, <1>8, <1>9, <1>10, <1>11, <1>12
<1> QED
  BY <1>5, <1>13 DEF e, n

(* A chip that waits for words still gets them before the blocks are erased. *)
LEMMA BehindEarly ==
  ASSUME NEW f \in Files, NEW pc \in Nat \ {0}, NEW k \in Nat,
         NEW ch, BufInv(ch), Behind(ch, f, pc, k)
  PROVE  pc <= Erased(f) \/ (ch.cui.st = "busy" /\ pc = Erased(f) + 1 /\ k = 0)
<1>1. Erased(f) \in Nat /\ Erased(f) >= 2 + 2 * Blocks /\ Blocks \in Nat
  <2>1. /\ Erased(f) \in Nat /\ Unlocked(f) \in Nat /\ Unlocked(f) >= 2 + Blocks
        /\ Erased(f) >= Unlocked(f) + Blocks
    BY IspPlaces
  <2> QED
    BY <2>1, Geometry
<1> DEFINE e == Erased(f)
<1> HIDE DEF e
<1>2. e \in Nat /\ e >= 2 + 2 * Blocks
  BY <1>1 DEF e
<1>3. CASE ch.cui.st \in {"load", "confirm"} /\ ch.cui.left + Before(pc, k) <= BufferWords
  <2>1. ch.cui.left \in Int /\ ch.cui.left >= 0
    BY <1>3, Geometry DEF BufInv
  <2>2. CASE pc > 2
    <3>1. Before(pc, k) = 2 * pc - 3 + k
      BY <2>2 DEF Before
    <3>2. 2 * pc - 3 <= 4 * Blocks + 2
      BY <1>1, <1>3, <2>1, <3>1, BufferAssumption, Geometry
    <3> QED
      BY <1>1, <1>2, <3>2 DEF e
  <2>3. CASE ~(pc > 2)
    BY <1>1, <1>2, <2>3 DEF e
  <2> QED
    BY <2>2, <2>3
<1>4. CASE ch.cui.st = "busy" /\ (pc <= e \/ (pc = e + 1 /\ k = 0))
  BY <1>4 DEF e
<1>5. CASE pc = 1
  BY <1>1, <1>5
<1> QED
  BY <1>3, <1>4, <1>5 DEF Behind, e

(* A write to a chip that is behind brings it nearer to being in step. *)
LEMMA WriteBehind ==
  ASSUME ChipInv, BufInv(chip), NEW f \in Files, NEW pc \in 1 .. Len(Isp(f)),
         NEW s, s = Isp(f)[pc], NEW k \in Nat, k < Len(s.writes),
         Behind(chip, f, pc, k), NEW c, c = AfterWrite(s.writes[k + 1]),
         NEW h, h = IF Cmd(s, k + 1) = "0xE8" /\ chip.cui.st = "busy" THEN 0 ELSE k + 1
  PROVE  (InStep(c, s, h) \/ Behind(c, f, pc, h)) /\ BufInv(c)
<1> DEFINE w == s.writes[k + 1]
           e == Erased(f)
<1>1. /\ Shaped(s) /\ pc \in Nat /\ pc > 0 /\ (pc = e + 1 => Filling(s))
      /\ (pc = 1 => Len(s.writes) = 2) /\ e \in Nat /\ e >= 2
  <2>1. e \in Nat /\ e >= 2
    <3>1. /\ e \in Nat /\ Unlocked(f) \in Nat /\ Unlocked(f) >= 2 + Blocks
          /\ e >= Unlocked(f) + Blocks
      BY IspPlaces
    <3> QED
      BY <3>1, Geometry
  <2> QED
    BY <2>1, IspPlace
<1>2. w.cmd = "count" => w.n + 1 \in 1 .. BufferWords
  BY <1>1, ShapeWrites DEF Cmd
<1>3. pc <= e \/ (chip.cui.st = "busy" /\ pc = e + 1 /\ k = 0)
  <2>1. pc \in Nat \ {0}
    BY <1>1
  <2> QED
    BY <2>1, BehindEarly
<1> HIDE DEF w, e
<1>4. chip.cui.st # "ready" /\ chip.cui.st \in States
  BY DEF Behind, Openings, ChipInv, Chips
<1>5. /\ chip.cui.st = "0x60" => c.cui.st = "ready"
      /\ chip.cui.st \in {"0x20", "0x40", "confirm"} => c.cui.st \in {"ready", "busy"}
      /\ chip.cui.st = "0xE8" /\ w.cmd = "count" => c.cui.st = "load" /\ c.cui.left = w.n + 1
      /\ chip.cui.st = "0xE8" /\ w.cmd # "count" => c.cui.st = "ready"
      /\ chip.cui.st = "load" =>
           /\ c.cui.st = IF chip.cui.left = 1 THEN "confirm" ELSE "load"
           /\ c.cui.left = chip.cui.left - 1
      /\ chip.cui.st = "busy" => c = chip
  BY <1>4, AfterLater, SMTT(25) DEF w
<1>6. CASE chip.cui.st = "busy"
  <2>1. c = chip /\ (pc <= e \/ (pc = e + 1 /\ k = 0))
    BY <1>3, <1>5, <1>6
  <2>2. pc = e + 1 /\ k = 0 => h = 0
    <3>1. pc = e + 1 /\ k = 0 => Cmd(s, k + 1) = "0xE8"
      BY <1>1 DEF Filling
    <3> QED
      BY <1>6, <3>1
  <2> QED
    BY <1>6, <2>1, <2>2 DEF Behind, BufInv, e
<1>7. CASE chip.cui.st = "load"
  <2>1. /\ chip.cui.left \in 1 .. BufferWords /\ chip.cui.left + Before(pc, k) <= BufferWords
        /\ h = k + 1
    BY <1>7 DEF Behind, BufInv, Openings
  <2>2. Before(pc, k + 1) = Before(pc, k) + 1 /\ Before(pc, k) \in Int
    BY <1>1 DEF Before
  <2>3. c.cui.st \in {"load", "confirm"} /\ c.cui.left = chip.cui.left - 1
    BY <1>5, <1>7
  <2>4. c.cui.left + Before(pc, h) <= BufferWords
    BY <2>1, <2>2, <2>3, Geometry, SMTT(25)
  <2>5. BufInv(c)
    BY <1>5, <1>7, <2>1, Geometry, SMTT(25) DEF BufInv
  <2> QED
    BY <2>3, <2>4, <2>5 DEF Behind
<1>8. CASE chip.cui.st = "confirm"
  <2>1. c.cui.st \in {"ready", "busy"} /\ pc <= e
    BY <1>3, <1>5, <1>8
  <2> QED
    BY <2>1 DEF Behind, InStep, BufInv, e
<1>9. CASE chip.cui.st \in Openings
  <2>1. pc = 1 /\ k = 0
    BY <1>9 DEF Behind, Openings
  <2>2. w.cmd # "count"
    <3>1. s = set_config_register(AsyncMode)
      BY <2>1, IspContents DEF IspSteps
    <3> QED
      BY <2>1, <3>1 DEF w, set_config_register, Step, Write
  <2>3. c.cui.st \in {"ready", "busy"} /\ pc <= e
    BY <1>1, <1>5, <1>9, <2>1, <2>2 DEF Openings
  <2> QED
    BY <2>3 DEF Behind, InStep, BufInv, e
<1> QED
  BY <1>4, <1>6, <1>7, <1>8, <1>9 DEF States, Openings

(* Steps have finitely many writes. *)
LEMMA ShapeLength ==
  ASSUME NEW s, Shaped(s)
  PROVE  Len(s.writes) \in Nat
<1>1. s.writes = <<>> => Len(s.writes) = 0
  OBVIOUS
<1>2. Filling(s) => Len(s.writes) \in Nat
  BY Geometry DEF Filling
<1> QED
  BY <1>1, <1>2 DEF Shaped, Setting, Plain, Unlocking, Erasing, Wording

(* At the end of a step the chip is ready, or still behind. *)
LEMMA NextInStep ==
  ASSUME ChipInv, BufInv(chip), NEW s, Shaped(s), InStep(chip, s, Len(s.writes)),
         s.then \in {"programmed", "erased"} /\ StatusOf(chip, s) => chip.cui.st # "busy"
  PROVE  chip.cui.st = "ready"
<1> DEFINE k == Len(s.writes)
<1> SUFFICES ASSUME chip.cui.st # "ready" PROVE FALSE
  OBVIOUS
<1>1. First(s) # "0x60" => StatusOf(chip, s)
  BY DEF InStep
<1>2. \/ k = 1 /\ First(s) \in Openings
      \/ First(s) = "0xE8" /\ chip.cui.st = "load" /\ k > 1 /\ chip.cui.left = k - 1 - k
      \/ First(s) = "0xE8" /\ k = k - 1
      \/ First(s) \in Openings \ {"0x60"} /\ chip.cui.st = "busy"
  BY DEF InStep, Matches
<1>3. \/ k \in {2, 3} /\ First(s) = "0x60"
      \/ First(s) \notin Openings
      \/ k = 2 /\ First(s) \in {"0x20", "0x40"} /\ s.then \in {"programmed", "erased"}
      \/ k > 3 /\ First(s) = "0xE8" /\ s.then = "programmed"
  <2>1. CASE Setting(s) \/ Unlocking(s)
    BY <2>1, SMTT(25) DEF Setting, Unlocking, First
  <2>2. CASE Plain(s)
    BY <2>2 DEF Plain, First, Openings
  <2>3. CASE Erasing(s)
    BY <2>3 DEF Erasing, First
  <2>4. CASE Wording(s)
    BY <2>4 DEF Wording, First
  <2>5. CASE Filling(s)
    BY <2>5, Geometry DEF Filling, First
  <2> QED
    BY <2>1, <2>2, <2>3, <2>4, <2>5 DEF Shaped
<1>4. k \in Nat
  BY ShapeLength
<1> HIDE DEF k
<1>5. k # k - 1 /\ (k > 3 => k # 1) /\ (chip.cui.st = "load" => chip.cui.left # k - 1 - k)
  BY <1>4, Geometry DEF BufInv
<1>6. "0x60" # "0xE8" /\ "0x60" \in Openings
  BY DEF Openings
<1>7. CASE k \in {2, 3} /\ First(s) = "0x60"
  BY <1>2, <1>6, <1>7
<1>8. CASE First(s) \notin Openings
  BY <1>2, <1>8 DEF Openings
<1>9. CASE k = 2 /\ First(s) \in {"0x20", "0x40"} /\ s.then \in {"programmed", "erased"}
  BY <1>1, <1>2, <1>9
<1>10. CASE k > 3 /\ First(s) = "0xE8" /\ s.then = "programmed"
  BY <1>1, <1>2, <1>5, <1>10
<1> QED
  BY <1>3, <1>7, <1>8, <1>9, <1>10

(* A chip left behind by a write is still no further behind at the next step. *)
LEMMA BehindOn ==
  ASSUME BufInv(chip), NEW f \in Files, NEW pc \in Nat \ {0}, NEW k \in Nat,
         pc = 1 => k = 2, pc = 2 => k = 1, pc > 2 /\ pc <= Erased(f) => k > 1,
         pc = Erased(f) + 1 => k > 0, Behind(chip, f, pc, k)
  PROVE  Behind(chip, f, pc + 1, 0)
<1> DEFINE e == Erased(f)
<1>1. e \in Nat
  BY IspPlaces
<1>2. pc <= e
  BY <1>1, BehindEarly
<1>3. pc > 2 => k > 1
  BY <1>2
<1> HIDE DEF e
<1>4. CASE chip.cui.st = "busy"
  <2>1. pc + 1 <= e \/ pc + 1 = e + 1
    BY <1>1, <1>2
  <2> QED
    BY <1>4, <2>1 DEF Behind, e
<1>5. CASE chip.cui.st \in {"load", "confirm"} /\ chip.cui.left + Before(pc, k) <= BufferWords
  <2>1. chip.cui.left \in Int
    BY <1>5, Geometry DEF BufInv
  <2>2. Before(pc + 1, 0) <= Before(pc, k) /\ Before(pc, k) \in Int /\ Before(pc + 1, 0) \in Int
    <3>1. CASE pc = 1
      <4>1. Before(1, 2) = 2 /\ Before(1 + 1, 0) = 2
        BY DEF Before
      <4> QED
        BY <3>1, <4>1
    <3>2. CASE pc = 2
      <4>1. Before(2, 1) = 3 /\ Before(2 + 1, 0) = 3
        BY DEF Before
      <4> QED
        BY <3>2, <4>1
    <3>3. CASE pc > 2
      <4>1. Before(pc + 1, 0) = 2 * (pc + 1) - 3 + 0 /\ Before(pc, k) = 2 * pc - 3 + k
        BY <3>3 DEF Before
      <4> QED
        BY <1>3, <3>3, <4>1
    <3> QED
      BY <3>1, <3>2, <3>3
  <2>3. chip.cui.left + Before(pc + 1, 0) <= BufferWords
    BY <1>5, <2>1, <2>2, Geometry
  <2> QED
    BY <1>5, <2>3 DEF Behind
<1>6. ~(pc = 1 /\ k = 0)
  OBVIOUS
<1> QED
  BY <1>4, <1>5, <1>6 DEF Behind

(* A step that ends with the chip behind leaves it behind for the next one. *)
LEMMA NextBehind ==
  ASSUME BufInv(chip), NEW f \in Files, NEW pc \in 1 .. Len(Isp(f)),
         NEW s, s = Isp(f)[pc], Behind(chip, f, pc, Len(s.writes))
  PROVE  Behind(chip, f, pc + 1, 0)
<1>1. /\ Shaped(s) /\ pc \in Nat \ {0} /\ (pc = Erased(f) + 1 => Filling(s))
      /\ (pc = 1 => Len(s.writes) = 2) /\ (pc = 2 => Len(s.writes) = 1)
      /\ (pc > 2 /\ pc <= Erased(f) => Len(s.writes) > 1)
  BY IspPlace
<1>2. Len(s.writes) \in Nat /\ (Filling(s) => Len(s.writes) > 0)
  BY <1>1, ShapeLength, Geometry DEF Filling
<1> QED
  BY <1>1, <1>2, BehindOn

(* A count is all that makes the chip wait for words. *)
LEMMA BufKept ==
  ASSUME ChipInv, BufInv(chip), NEW w, w.cmd = "count" => w.n + 1 \in 1 .. BufferWords,
         NEW c, c = AfterWrite(w)
  PROVE  BufInv(c)
<1>1. CASE chip.cui.st = "ready"
  BY <1>1, AfterFirst DEF BufInv, Openings
<1>2. CASE chip.cui.st \in {"0x60", "0x20", "0x40", "confirm"}
  <2>1. c.cui.st \in {"ready", "busy"}
    BY <1>2, AfterLater
  <2> QED
    BY <2>1 DEF BufInv
<1>3. CASE chip.cui.st = "0xE8"
  <2>1. \/ c.cui.st = "ready"
        \/ w.cmd = "count" /\ c.cui.st = "load" /\ c.cui.left = w.n + 1
    BY <1>3, AfterLater
  <2> QED
    BY <2>1 DEF BufInv
<1>4. CASE chip.cui.st = "load"
  <2>1. /\ c.cui.st = IF chip.cui.left = 1 THEN "confirm" ELSE "load"
        /\ c.cui.left = chip.cui.left - 1 /\ chip.cui.left \in 1 .. BufferWords
    BY <1>4, AfterLater DEF BufInv
  <2> QED
    BY <2>1, Geometry DEF BufInv
<1>5. CASE chip.cui.st = "busy"
  BY <1>5, AfterLater DEF BufInv
<1>6. chip.cui.st \in States
  BY DEF ChipInv, Chips
<1> QED
  BY <1>1, <1>2, <1>3, <1>4, <1>5, <1>6 DEF States

-----------------------------------------------------------------------------
(* What is read back, and what the reading rests on. *)

(* Where the first words of the image are kept, and then the number. *)
CellAt(f, i) ==
  IF i <= Len(ImageOf(f)) THEN i - 1
  ELSE BlockAt(SerialBank, 0) + SerialWords - (i - Len(ImageOf(f)))

(* The words read before step pc: bank by bank, and the number. *)
Covered(f, pc) ==
  LET b == pc - (Numbered(f) + 4)
      c == Len(BanksOf(f))
  IN IF b <= 0 THEN 0 ELSE IF b < c THEN b * BankWords
     ELSE IF b < c + 3 THEN Len(ImageOf(f)) ELSE Len(ImageOf(f)) + SerialWords
ReadBack(ch, f, pc) == [i \in 1 .. Covered(f, pc) |-> ch.cells[CellAt(f, i)]]

AsyncPlace(f, pc, k) ==
  \/ pc = Numbered(f) + 1 /\ k = 2
  \/ pc \in Numbered(f) + 2 .. Verified(f) + 1
  \/ pc = Verified(f) + 2 /\ k # 2
SyncPlace(f, pc, k) == (pc = Verified(f) + 2 /\ k = 2) \/ pc = Verified(f) + 3

(* From the reading on, each command finds the chip ready. *)
LateInv(ch, f, s, pc, k) ==
  /\ First(s) = "0x60" /\ k = 1 => ch.cui.st = "0x60"
  /\ First(s) = "0xFF" /\ k = 1 => ch.read[BankOf(s.writes[1].addr)] = "array"
  /\ AsyncPlace(f, pc, k) => ch.config = AsyncMode
  /\ SyncPlace(f, pc, k) => ch.config = SyncMode

(* The chip holds what f says it should. *)
Written(ch, f) ==
  /\ \A i \in DOMAIN ImageOf(f) : ch.cells[i - 1] = bit_swap(f[i])
  /\ \A i \in 1 .. SerialWords :
       ch.cells[BlockAt(SerialBank, 0) + SerialWords - i] = SerialOf(f)[i]

(* Run r is an update from file f of the chip ch. *)
IspInv(ch, f, r) ==
  LET s == Isp(f)[r.pc] IN
    /\ InStep(ch, s, r.k) \/ Behind(ch, f, r.pc, r.k)
    /\ r.out = ReadBack(ch, f, r.pc)
    /\ r.pc > Numbered(f) => LateInv(ch, f, s, r.pc, r.k)
    /\ r.pc > Verified(f) + 1 => Written(ch, f)
UpdateInv ==
  /\ FlashInv
  /\ BufInv(chip)
  /\ run.tool # "none" => result = "running"
  /\ run.tool = "isp" => IspInv(chip, file, run)

(* The steps that read. *)
Reading(s) ==
  /\ Len(s.writes) = 1 /\ First(s) = "0xFF" /\ BankOf(s.writes[1].addr) \in Bank
  /\ s.at \in Seq(Nat) /\ Len(s.at) \in Nat
  /\ \A j \in 1 .. Len(s.at) : BankOf(s.at[j]) = BankOf(s.writes[1].addr)

(* A step of one read array command reads the cells that it names. *)
LEMMA ReadingOf ==
  ASSUME NEW q \in Bank, NEW m \in Nat, NEW a \in Nat, NEW at \in [1 .. m -> Nat],
         BankOf(a) = q, \A i \in 1 .. m : BankOf(at[i]) = q,
         NEW then, NEW s, s = Step(<<Write(a, "0xFF")>>, then, at)
  PROVE  Reading(s) /\ s.then = then /\ Len(s.at) = m /\ s.at = at
<1>1. s.writes = <<Write(a, "0xFF")>> /\ s.then = then /\ s.at = at
  BY DEF Step
<1>2. s.at \in Seq(Nat) /\ Len(s.at) = m
  BY <1>1
<1>3. Len(s.writes) = 1 /\ s.writes[1] = Write(a, "0xFF")
  BY <1>1
<1>4. Len(s.writes) = 1 /\ s.writes[1].addr = a /\ s.writes[1].cmd = "0xFF"
  BY <1>3 DEF Write
<1>5. First(s) = "0xFF"
  BY <1>4 DEF First, Cmd
<1> QED
  BY <1>1, <1>2, <1>4, <1>5 DEF Reading

(* read_bank reads the first words of a bank, in order. *)
LEMMA PartReading ==
  ASSUME NEW q \in Bank, NEW m \in 1 .. BankWords, NEW s, s = read_bank(q, m)
  PROVE  /\ Reading(s) /\ s.then = "append" /\ Len(s.at) = m
         /\ \A j \in 1 .. m : s.at[j] = q * BankWords + j - 1
<1> DEFINE a == BlockAt(q, 0)
           at == [i \in 1 .. m |-> a + i - 1]
<1>1. q \in Nat /\ m \in Nat
  BY Geometry DEF Bank
<1>2. a = q * BankWords /\ a \in Nat /\ q * BankWords \in Nat
  <2>1. 0 \in 0 .. Blocks - 1 /\ 0 \in 0 .. BlockWords - 1 /\ 0 \in 0 .. BankWords - 1
    BY Geometry
  <2>2. a \in Nat /\ q * BankWords + 0 \in Nat /\ BlockAt(q, 0) = q * BankWords + 0
    BY <1>1, <2>1, BlockAtValue, InBank, Geometry DEF BlockAt
  <2> QED
    BY <1>1, <2>2, Geometry
<1>3. s = Step(<<Write(a, "0xFF")>>, "append", at)
  BY DEF read_bank
<1> HIDE DEF a
<1>5. ASSUME NEW i \in 0 .. BankWords - 1 PROVE BankOf(a + i) = q
  BY <1>1, <1>2, InBank
<1>6. \A i \in 1 .. m : a + i - 1 \in Nat /\ a + i - 1 = a + (i - 1) /\ i - 1 \in 0 .. BankWords - 1
  BY <1>1, <1>2, Geometry
<1>7. BankOf(a) = q
  <2>1. 0 \in 0 .. BankWords - 1 /\ a + 0 = a
    BY <1>2, Geometry
  <2>2. BankOf(a + 0) = q
    BY <1>5, <2>1
  <2> QED
    BY <2>1, <2>2
<1>8. at \in [1 .. m -> Nat] /\ \A i \in 1 .. m : at[i] = a + i - 1
  BY <1>6
<1>9. \A i \in 1 .. m : BankOf(at[i]) = q
  BY <1>5, <1>6, <1>8
<1> HIDE DEF at
<1>10. Reading(s) /\ s.then = "append" /\ Len(s.at) = m /\ s.at = at
  <2>1. a \in Nat /\ at \in [1 .. m -> Nat]
    BY <1>2, <1>8
  <2> QED
    BY <1>1, <1>3, <1>7, <1>9, <2>1, ReadingOf, SMTT(25)
<1> QED
  BY <1>2, <1>8, <1>10

(* The update reads back each bank of the file, as far as the file fills it. *)
LEMMA BankReading ==
  ASSUME NEW f \in Files, NEW b \in 1 .. Len(BanksOf(f)), NEW s,
         s = read_bank(b - 1, Len(BanksOf(f)[b]))
  PROVE  /\ Reading(s) /\ s.then = "append" /\ Len(s.at) = Len(BanksOf(f)[b])
         /\ \A j \in 1 .. Len(s.at) : s.at[j] = (b - 1) * BankWords + j - 1
<1>1. Len(BanksOf(f)[b]) \in 1 .. BankWords
  BY BankAt
<1>2. b - 1 \in Bank
  BY BanksFit, BanksFacts, Geometry DEF Bank
<1> QED
  BY <1>1, <1>2, PartReading

(* read_serial_number reads the words of the number, the last one first. *)
LEMMA NumberReading ==
  ASSUME NEW then, NEW s, s = NumberRead(then)
  PROVE  /\ Reading(s) /\ s.then = then /\ Len(s.at) = SerialWords
         /\ \A j \in 1 .. SerialWords : s.at[j] = BlockAt(SerialBank, 0) + SerialWords - j
<1> DEFINE a == BlockAt(SerialBank, 0)
           m == SerialWords
<1>1. /\ a \in Nat /\ \A i \in 0 .. BlockWords - 1 : BankOf(a + i) = SerialBank
  <2>1. SerialBank \in Nat /\ 0 \in 0 .. Blocks - 1 /\ 0 \in 0 .. BlockWords - 1
    BY Geometry
  <2> QED
    BY <2>1, BlockCount, BlockAtValue
<1>2. SerialBank \in Bank /\ m \in Nat
  BY Geometry DEF Bank
<1> DEFINE at == [i \in 1 .. m |-> a + m - i]
<1>3. s = Step(<<Write(a, "0xFF")>>, then, at)
  BY DEF NumberRead
<1> HIDE DEF a
<1>4. \A i \in 1 .. m : a + m - i \in Nat /\ a + m - i = a + (m - i) /\ m - i \in 0 .. BlockWords - 1
  BY <1>1, <1>2, Geometry
<1> HIDE DEF m
<1>5. BankOf(a) = SerialBank
  <2>1. 0 \in 0 .. BlockWords - 1 /\ a + 0 = a
    BY <1>1, Geometry
  <2> QED
    BY <1>1, <2>1
<1>6. at \in [1 .. m -> Nat] /\ \A i \in 1 .. m : at[i] = a + m - i
  BY <1>4
<1>7. \A i \in 1 .. m : BankOf(at[i]) = SerialBank
  BY <1>1, <1>4, <1>6
<1> HIDE DEF at
<1>8. Reading(s) /\ s.then = then /\ Len(s.at) = m /\ s.at = at
  BY <1>1, <1>2, <1>3, <1>5, <1>6, <1>7, ReadingOf
<1> QED
  BY <1>6, <1>8 DEF a, m

(* The steps from the reading on. *)
LatePlace(f, i, s) ==
  \/ i \in {Numbered(f) + 1, Verified(f) - 2} /\ s = set_config_register(AsyncMode)
  \/ i \in {Numbered(f) + 2, Verified(f) - 1} /\ s = clear_stats_regs
  \/ i = Numbered(f) + 3 /\ s = NumberRead("show")
  \/ \E b \in 1 .. Len(BanksOf(f)) :
       i = Numbered(f) + 3 + b /\ s = read_bank(b - 1, Len(BanksOf(f)[b]))
  \/ i = Verified(f) /\ s = NumberRead("append")
  \/ i = Verified(f) + 1 /\ s = Step(<<>>, "compare", <<>>)
  \/ i = Verified(f) + 2 /\ s = set_config_register(SyncMode)
  \/ i = Verified(f) + 3 /\ s = reconfig

(* Every step behind the numbered ones is one of those listed by place. *)
LEMMA LateStep ==
  ASSUME NEW f \in Files, NEW i \in 1 .. Len(Isp(f)), i > Numbered(f), NEW s, s = Isp(f)[i]
  PROVE  LatePlace(f, i, s)
<1> DEFINE n == Numbered(f)
           c == Len(BanksOf(f))
           v == Verified(f)
           ss == Isp(f)
<1>1. n \in Nat /\ c \in Nat /\ v = n + c + 6 /\ Len(ss) = v + 3
  BY IspPlaces
<1>2. /\ ss[n + 1] = set_config_register(AsyncMode) /\ ss[n + 2] = clear_stats_regs
      /\ ss[n + 3] = NumberRead("show")
      /\ \A b \in 1 .. c : ss[n + 3 + b] = read_bank(b - 1, Len(BanksOf(f)[b]))
      /\ ss[v - 2] = set_config_register(AsyncMode) /\ ss[v - 1] = clear_stats_regs
      /\ ss[v] = NumberRead("append") /\ ss[v + 1] = Step(<<>>, "compare", <<>>)
      /\ ss[v + 2] = set_config_register(SyncMode) /\ ss[v + 3] = reconfig
  BY IspContents DEF IspSteps
<1>3. i \in 1 .. Len(ss) /\ i > n /\ s = ss[i]
  OBVIOUS
<1> HIDE DEF n, c, v, ss
<1>4. /\ v + 3 = n + c + 9 /\ v - 2 = n + c + 4 /\ v - 1 = n + c + 5 /\ v + 1 = n + c + 7
      /\ v + 2 = n + c + 8 /\ i \in n + 1 .. n + c + 9
  BY <1>1, <1>3, SMTT(25)
<1>5. \/ i = n + 1 \/ i = n + 2 \/ i = n + 3
      \/ \E b \in 1 .. c : i = n + 3 + b
      \/ i = v - 2 \/ i = v - 1 \/ i = v \/ i = v + 1 \/ i = v + 2 \/ i = v + 3
  BY <1>1, <1>4, EndPlaces
<1>6. \/ i \in {n + 1, v - 2} /\ s = set_config_register(AsyncMode)
      \/ i \in {n + 2, v - 1} /\ s = clear_stats_regs
      \/ i = n + 3 /\ s = NumberRead("show")
      \/ \E b \in 1 .. c : i = n + 3 + b /\ s = read_bank(b - 1, Len(BanksOf(f)[b]))
      \/ i = v /\ s = NumberRead("append")
      \/ i = v + 1 /\ s = Step(<<>>, "compare", <<>>)
      \/ i = v + 2 /\ s = set_config_register(SyncMode)
      \/ i = v + 3 /\ s = reconfig
  BY <1>2, <1>3, <1>5
<1> QED
  BY <1>6 DEF LatePlace, n, c, v

(* What the steps of that part have to do with their places. *)
LEMMA LateFacts ==
  ASSUME NEW f \in Files, NEW i \in Nat, NEW s, LatePlace(f, i, s)
  PROVE  /\ First(s) = "0x60" =>
              /\ Setting(s)
              /\ AsyncPlace(f, i, 2) => s.writes[2].addr = AsyncMode
              /\ SyncPlace(f, i, 2) => s.writes[2].addr = SyncMode
         /\ First(s) = "0xFF" => Reading(s)
         /\ s.then = "append" => Reading(s)
         /\ s.then = "compare" => i = Verified(f) + 1
         /\ i = Verified(f) + 1 => s.then = "compare"
         /\ s.then \in {"reconfig", "close"} => i = Verified(f) + 3
         /\ i = Numbered(f) + 1 \/ i = Verified(f) + 2 => Len(s.writes) = 2
<1> DEFINE n == Numbered(f)
           c == Len(BanksOf(f))
           v == Verified(f)
           Goal == /\ First(s) = "0x60" =>
                        /\ Setting(s)
                        /\ AsyncPlace(f, i, 2) => s.writes[2].addr = AsyncMode
                        /\ SyncPlace(f, i, 2) => s.writes[2].addr = SyncMode
                   /\ First(s) = "0xFF" => Reading(s)
                   /\ s.then = "append" => Reading(s)
                   /\ s.then = "compare" => i = v + 1
                   /\ i = v + 1 => s.then = "compare"
                   /\ s.then \in {"reconfig", "close"} => i = v + 3
                   /\ i = n + 1 \/ i = v + 2 => Len(s.writes) = 2
<1>1. n \in Nat /\ c \in Nat /\ c > 0 /\ v = n + c + 6
  BY IspPlaces
<1>2. /\ AsyncPlace(f, i, 2) => i # v + 2 /\ i # v + 3
      /\ SyncPlace(f, i, 2) => i = v + 2 \/ i = v + 3
  <2>1. AsyncPlace(f, i, 2) <=> i = n + 1 \/ i \in n + 2 .. v + 1
    BY DEF AsyncPlace
  <2>2. SyncPlace(f, i, 2) <=> i = v + 2 \/ i = v + 3
    BY DEF SyncPlace
  <2> HIDE DEF n, c, v
  <2> QED
    BY <1>1, <2>1, <2>2
<1>3. ASSUME NEW m, s = set_config_register(m)
      PROVE  /\ Setting(s) /\ s.writes[2].addr = m /\ First(s) = "0x60" /\ s.then = "next"
             /\ Len(s.writes) = 2
  <2>1. Setting(s)
    BY <1>3, PlainShapes
  <2>2. s.writes[2].addr = m
    BY <1>3 DEF set_config_register, Step, Write
  <2> QED
    BY <2>1, <2>2 DEF Setting, First
<1>4. First(clear_stats_regs) = "0x50" /\ clear_stats_regs.then = "next"
  BY DEF First, clear_stats_regs, Step, Write, Cmd
<1>5. ASSUME NEW then, s = NumberRead(then) PROVE Reading(s) /\ s.then = then /\ First(s) = "0xFF"
  BY <1>5, NumberReading DEF Reading
<1>6. ASSUME NEW b \in 1 .. c, s = read_bank(b - 1, Len(BanksOf(f)[b]))
      PROVE  Reading(s) /\ s.then = "append" /\ First(s) = "0xFF"
  BY <1>6, BankReading DEF Reading
<1>7. /\ First(Step(<<>>, "compare", <<>>)) = "none" /\ Step(<<>>, "compare", <<>>).then = "compare"
      /\ First(reconfig) = "none" /\ reconfig.then = "reconfig"
  BY DEF First, reconfig, Step
<1>8. \/ i \in {n + 1, v - 2} /\ s = set_config_register(AsyncMode)
      \/ i \in {n + 2, v - 1} /\ s = clear_stats_regs
      \/ i = n + 3 /\ s = NumberRead("show")
      \/ \E b \in 1 .. c : i = n + 3 + b /\ s = read_bank(b - 1, Len(BanksOf(f)[b]))
      \/ i = v /\ s = NumberRead("append")
      \/ i = v + 1 /\ s = Step(<<>>, "compare", <<>>)
      \/ i = v + 2 /\ s = set_config_register(SyncMode)
      \/ i = v + 3 /\ s = reconfig
  BY DEF LatePlace
<1> SUFFICES Goal
  OBVIOUS
<1> HIDE DEF n, c, v
<1>9. CASE i \in {n + 1, v - 2} /\ s = set_config_register(AsyncMode)
  <2>1. i # v + 1 /\ i # v + 2 /\ i # v + 3
    BY <1>1, <1>9
  <2> QED
    BY <1>2, <1>3, <1>9, <2>1
<1>10. CASE i \in {n + 2, v - 1} /\ s = clear_stats_regs
  <2>1. i # v + 1 /\ i # v + 2 /\ i # n + 1
    BY <1>1, <1>10
  <2> QED
    BY <1>4, <1>10, <2>1
<1>11. CASE i = n + 3 /\ s = NumberRead("show")
  <2>1. i # v + 1 /\ i # v + 2 /\ i # n + 1
    BY <1>1, <1>11
  <2>2. Reading(s) /\ s.then = "show" /\ First(s) = "0xFF"
    BY <1>5, <1>11
  <2> QED
    BY <2>1, <2>2
<1>12. CASE \E b \in 1 .. c : i = n + 3 + b /\ s = read_bank(b - 1, Len(BanksOf(f)[b]))
  <2>1. PICK b \in 1 .. c : i = n + 3 + b /\ s = read_bank(b - 1, Len(BanksOf(f)[b]))
    BY <1>12
  <2>2. i # v + 1 /\ i # v + 2 /\ i # n + 1
    BY <1>1, <2>1
  <2>3. Reading(s) /\ s.then = "append" /\ First(s) = "0xFF"
    BY <1>6, <2>1
  <2> QED
    BY <2>2, <2>3
<1>13. CASE i = v /\ s = NumberRead("append")
  <2>1. i # v + 1 /\ i # v + 2 /\ i # n + 1
    BY <1>1, <1>13
  <2>2. Reading(s) /\ s.then = "append" /\ First(s) = "0xFF"
    BY <1>5, <1>13
  <2> QED
    BY <2>1, <2>2
<1>14. CASE i = v + 1 /\ s = Step(<<>>, "compare", <<>>)
  <2>1. i # v + 2 /\ i # n + 1
    BY <1>1, <1>14
  <2> QED
    BY <1>7, <1>14, <2>1
<1>15. CASE i = v + 2 /\ s = set_config_register(SyncMode)
  <2>1. i # v + 1
    BY <1>1, <1>15
  <2> QED
    BY <1>2, <1>3, <1>15, <2>1
<1>16. CASE i = v + 3 /\ s = reconfig
  <2>1. i # v + 1 /\ i # v + 2 /\ i # n + 1
    BY <1>1, <1>16
  <2> QED
    BY <1>7, <1>16, <2>1
<1> QED
  BY <1>8, <1>9, <1>10, <1>11, <1>12, <1>13, <1>14, <1>15, <1>16

(* How much has been read. *)
LEMMA CoveredAt ==
  ASSUME NEW f \in Files, NEW pc \in Nat
  PROVE  /\ Covered(f, pc) \in Nat
         /\ pc <= Numbered(f) + 4 => Covered(f, pc) = 0
         /\ \A b \in 1 .. Len(BanksOf(f)) - 1 :
              pc = Numbered(f) + 4 + b => Covered(f, pc) = b * BankWords
         /\ pc > Numbered(f) + 3 + Len(BanksOf(f)) /\ pc <= Verified(f) =>
              Covered(f, pc) = Len(ImageOf(f))
         /\ pc > Verified(f) => Covered(f, pc) = Len(ImageOf(f)) + SerialWords
<1> DEFINE n == Numbered(f)
           c == Len(BanksOf(f))
           v == Verified(f)
           l == Len(ImageOf(f))
           h == pc - (n + 4)
           k == Covered(f, pc)
<1>1. n \in Nat /\ c \in Nat /\ c > 0 /\ v = n + c + 6
  BY IspPlaces
<1>2. l \in Nat /\ SerialWords \in Nat /\ BankWords \in Nat
  BY FileFacts, Geometry
<1>3. k = IF h <= 0 THEN 0 ELSE IF h < c THEN h * BankWords
          ELSE IF h < c + 3 THEN l ELSE l + SerialWords
  BY DEF Covered
<1>4. h \in Int
  BY <1>1
<1>5. h > 0 => h * BankWords \in Nat
  BY <1>2, <1>4
<1> HIDE DEF k, n, c, v, l
<1>6. /\ pc <= n + 4 => h <= 0
      /\ \A b \in 1 .. c - 1 : pc = n + 4 + b => h = b /\ ~(b <= 0) /\ b < c
      /\ pc > n + 3 + c /\ pc <= v => ~(h <= 0) /\ ~(h < c) /\ h < c + 3
      /\ pc > v => ~(h <= 0) /\ ~(h < c) /\ ~(h < c + 3)
  BY <1>1
<1>7. ~(h <= 0) => h > 0
  BY <1>4
<1> HIDE DEF h
<1>8. k \in Nat
  BY <1>2, <1>3, <1>5, <1>7
<1> QED
  BY <1>3, <1>6, <1>8 DEF k, n, c, v, l

(* A step of the reading reads the words that follow. *)
LEMMA CoveredOn ==
  ASSUME NEW f \in Files, NEW pc \in 1 .. Len(Isp(f)), NEW s, s = Isp(f)[pc]
  PROVE  /\ s.then \notin {"append", "reconfig", "close"} =>
              Covered(f, pc + 1) = Covered(f, pc)
         /\ s.then = "append" =>
              /\ Covered(f, pc + 1) = Covered(f, pc) + Len(s.at)
              /\ \A j \in 1 .. Len(s.at) : CellAt(f, Covered(f, pc) + j) = s.at[j]
<1> DEFINE n == Numbered(f)
           c == Len(BanksOf(f))
           v == Verified(f)
           l == Len(ImageOf(f))
           Cov(p) == Covered(f, p)
           Goal == /\ s.then \notin {"append", "reconfig", "close"} => Cov(pc + 1) = Cov(pc)
                   /\ s.then = "append" =>
                        /\ Cov(pc + 1) = Cov(pc) + Len(s.at)
                        /\ \A j \in 1 .. Len(s.at) : CellAt(f, Cov(pc) + j) = s.at[j]
<1>1. n \in Nat /\ c \in Nat /\ c > 0 /\ v = n + c + 6 /\ pc \in Nat /\ pc > 0
  BY IspPlaces, IspPlace
<1>2. l \in Nat /\ l > 0 /\ SerialWords \in Nat /\ BankWords \in Nat
  BY FileFacts, Geometry
<1>3. ASSUME NEW p \in Nat
      PROVE  /\ Cov(p) \in Nat
             /\ p <= n + 4 => Cov(p) = 0
             /\ \A b \in 1 .. c - 1 : p = n + 4 + b => Cov(p) = b * BankWords
             /\ p > n + 3 + c /\ p <= v => Cov(p) = l
             /\ p > v => Cov(p) = l + SerialWords
  BY CoveredAt
<1>4. pc > n => LatePlace(f, pc, s)
  BY LateStep
<1>5. pc <= n => s.then # "append"
  BY IspPlace
<1>6. \A p \in Nat : LatePlace(f, p, s) /\ s.then \in {"compare", "append"} =>
        (s.then = "append" => Reading(s)) /\ (s.then = "compare" => p = v + 1)
  BY LateFacts
<1>7. LatePlace(f, pc, s) =>
        \/ pc \in {n + 1, v - 2} /\ s = set_config_register(AsyncMode)
        \/ pc \in {n + 2, v - 1} /\ s = clear_stats_regs
        \/ pc = n + 3 /\ s = NumberRead("show")
        \/ \E b \in 1 .. c : pc = n + 3 + b /\ s = read_bank(b - 1, Len(BanksOf(f)[b]))
        \/ pc = v /\ s = NumberRead("append")
        \/ pc = v + 1 /\ s = Step(<<>>, "compare", <<>>)
        \/ pc = v + 2 /\ s = set_config_register(SyncMode)
        \/ pc = v + 3 /\ s = reconfig
  BY DEF LatePlace
<1>8. /\ \A m : set_config_register(m).then = "next"
      /\ clear_stats_regs.then = "next" /\ Step(<<>>, "compare", <<>>).then = "compare"
      /\ NumberRead("show").then = "show" /\ reconfig.then = "reconfig"
  BY DEF set_config_register, clear_stats_regs, NumberRead, reconfig, Step
<1>9. ASSUME NEW b \in 1 .. c, s = read_bank(b - 1, Len(BanksOf(f)[b]))
      PROVE  /\ s.then = "append" /\ Len(s.at) \in Nat /\ (b - 1) * BankWords \in Nat
             /\ Len(s.at) = IF b < c THEN BankWords ELSE l - (b - 1) * BankWords
             /\ (b - 1) * BankWords + Len(s.at) <= l
             /\ \A j \in 1 .. Len(s.at) : s.at[j] = (b - 1) * BankWords + j - 1
  <2>1. /\ s.then = "append" /\ Len(s.at) = Len(BanksOf(f)[b]) /\ Reading(s)
        /\ \A j \in 1 .. Len(s.at) : s.at[j] = (b - 1) * BankWords + j - 1
    BY <1>9, BankReading
  <2>2. /\ (b - 1) * BankWords \in Nat
        /\ Len(BanksOf(f)[b]) = IF b < c THEN BankWords ELSE l - (b - 1) * BankWords
        /\ (b - 1) * BankWords + Len(BanksOf(f)[b]) <= l
    BY BankAt
  <2>3. Len(s.at) \in Nat
    BY <2>1 DEF Reading
  <2> HIDE DEF c, l
  <2> QED
    BY <2>1, <2>2, <2>3
<1>10. ASSUME s = NumberRead("append")
       PROVE  /\ s.then = "append" /\ Len(s.at) = SerialWords
              /\ \A j \in 1 .. SerialWords : s.at[j] = BlockAt(SerialBank, 0) + SerialWords - j
  BY <1>10, NumberReading
<1>11. \A i : CellAt(f, i) =
         IF i <= l THEN i - 1 ELSE BlockAt(SerialBank, 0) + SerialWords - (i - l)
  BY DEF CellAt
<1> SUFFICES Goal
  OBVIOUS
<1> HIDE DEF n, c, v, l, Cov
<1>12. ASSUME s.then # "append", pc + 1 <= n + 4 \/ (pc > n + 3 + c /\ pc + 1 <= v) \/ pc > v
       PROVE  Goal
  <2>1. Cov(pc + 1) = Cov(pc)
    <3>1. pc + 1 \in Nat
      BY <1>1
    <3>2. CASE pc + 1 <= n + 4
      <4>1. pc <= n + 4
        BY <1>1, <3>2
      <4> QED
        BY <1>1, <1>3, <3>1, <3>2, <4>1
    <3>3. CASE pc > n + 3 + c /\ pc + 1 <= v
      <4>1. pc + 1 > n + 3 + c /\ pc <= v
        BY <1>1, <3>3
      <4> QED
        BY <1>1, <1>3, <3>1, <3>3, <4>1
    <3>4. CASE pc > v
      <4>1. pc + 1 > v
        BY <1>1, <3>4
      <4> QED
        BY <1>1, <1>3, <3>1, <3>4, <4>1
    <3> QED
      BY <1>12, <3>2, <3>3, <3>4
  <2> QED
    BY <1>12, <2>1
<1>13. CASE pc <= n
  BY <1>1, <1>5, <1>12, <1>13
<1>14. CASE pc = n + 1 \/ pc = n + 2 \/ pc = n + 3
  <2>1. /\ pc > n /\ pc # v - 2 /\ pc # v - 1 /\ pc # v /\ pc # v + 1 /\ pc # v + 2 /\ pc # v + 3
        /\ \A b \in 1 .. c : pc # n + 3 + b
    BY <1>1, <1>14
  <2>2. s.then # "append"
    BY <1>4, <1>7, <1>8, <2>1
  <2>3. pc + 1 <= n + 4
    BY <1>1, <1>14
  <2> QED
    BY <1>12, <2>2, <2>3
<1>15. CASE \E b \in 1 .. c : pc = n + 3 + b
  <2>1. PICK b \in 1 .. c : pc = n + 3 + b
    BY <1>15
  <2>2. /\ pc > n /\ pc # n + 1 /\ pc # n + 2 /\ pc # n + 3 /\ pc # v - 2 /\ pc # v - 1
        /\ pc # v /\ pc # v + 1 /\ pc # v + 2 /\ pc # v + 3
        /\ \A a \in 1 .. c : pc = n + 3 + a => a = b
    BY <1>1, <2>1
  <2>3. s = read_bank(b - 1, Len(BanksOf(f)[b]))
    BY <1>4, <1>7, <2>2
  <2> DEFINE m == Len(s.at)
             o == (b - 1) * BankWords
  <2>4. /\ s.then = "append" /\ m \in Nat /\ o \in Nat
        /\ m = IF b < c THEN BankWords ELSE l - o
        /\ o + m <= l
        /\ \A j \in 1 .. m : s.at[j] = o + j - 1
    BY <1>9, <2>3
  <2>5. Cov(pc) = o
    <3>1. CASE b = 1
      <4>1. pc <= n + 4 /\ o = 0
        BY <1>1, <1>2, <2>1, <3>1
      <4> HIDE DEF o
      <4> QED
        BY <1>1, <1>3, <4>1
    <3>2. CASE b # 1
      <4>1. b - 1 \in 1 .. c - 1 /\ pc = n + 4 + (b - 1)
        BY <1>1, <2>1, <3>2
      <4> QED
        BY <1>1, <1>3, <4>1
    <3> QED
      BY <3>1, <3>2
  <2>6. b < c => Cov(pc + 1) = o + BankWords
    <3> SUFFICES ASSUME b < c PROVE Cov(pc + 1) = o + BankWords
      OBVIOUS
    <3>1. b \in 1 .. c - 1 /\ pc + 1 = n + 4 + b /\ pc + 1 \in Nat
      BY <1>1, <2>1
    <3>2. Cov(pc + 1) = b * BankWords
      BY <1>3, <3>1
    <3>3. b * BankWords = o + BankWords
      BY <1>2, <3>1
    <3> QED
      BY <3>2, <3>3
  <2>7. ~(b < c) => Cov(pc + 1) = l
    <3> SUFFICES ASSUME ~(b < c) PROVE Cov(pc + 1) = l
      OBVIOUS
    <3>1. pc + 1 > n + 3 + c /\ pc + 1 <= v /\ pc + 1 \in Nat
      BY <1>1, <2>1
    <3> QED
      BY <1>3, <3>1
  <2> HIDE DEF m, o
  <2>8. Cov(pc + 1) = Cov(pc) + m
    BY <1>2, <2>4, <2>5, <2>6, <2>7
  <2>9. ASSUME NEW j \in 1 .. m PROVE CellAt(f, Cov(pc) + j) = s.at[j]
    <3>1. o + j <= l
      BY <1>2, <2>4
    <3> QED
      BY <1>11, <2>4, <2>5, <3>1
  <2> QED
    BY <2>4, <2>8, <2>9 DEF m
<1>16. CASE pc = v - 2 \/ pc = v - 1 \/ pc > v
  <2>1. /\ pc > n /\ pc # v /\ pc # n + 3
        /\ \A b \in 1 .. c : pc # n + 3 + b
    BY <1>1, <1>16
  <2>2. s.then # "append"
    BY <1>4, <1>7, <1>8, <2>1
  <2>3. (pc > n + 3 + c /\ pc + 1 <= v) \/ pc > v
    BY <1>1, <1>16
  <2> QED
    BY <1>12, <2>2, <2>3
<1>17. CASE pc = v
  <2>1. /\ pc > n /\ pc # n + 1 /\ pc # n + 2 /\ pc # n + 3 /\ pc # v - 2 /\ pc # v - 1
        /\ pc # v + 1 /\ pc # v + 2 /\ pc # v + 3
        /\ \A b \in 1 .. c : pc # n + 3 + b
    BY <1>1, <1>17
  <2>2. s = NumberRead("append")
    BY <1>4, <1>7, <2>1
  <2>3. /\ s.then = "append" /\ Len(s.at) = SerialWords
        /\ \A j \in 1 .. SerialWords : s.at[j] = BlockAt(SerialBank, 0) + SerialWords - j
    BY <1>10, <2>2
  <2>4. Cov(pc) = l /\ Cov(pc + 1) = l + SerialWords
    BY <1>1, <1>3, <1>17
  <2>5. ASSUME NEW j \in 1 .. SerialWords PROVE CellAt(f, l + j) = s.at[j]
    <3>1. ~(l + j <= l) /\ (l + j) - l = j
      BY <1>2
    <3> QED
      BY <1>11, <2>3, <3>1
  <2> QED
    BY <2>3, <2>4, <2>5
<1>18. \/ pc <= n \/ pc = n + 1 \/ pc = n + 2 \/ pc = n + 3
       \/ \E b \in 1 .. c : pc = n + 3 + b
       \/ pc = v - 2 \/ pc = v - 1 \/ pc > v \/ pc = v
  <2>1. CASE pc > n + 3 /\ pc <= n + 3 + c
    <3>1. pc - (n + 3) \in 1 .. c /\ pc = n + 3 + (pc - (n + 3))
      BY <1>1, <2>1
    <3> QED
      BY <3>1
  <2>2. CASE ~(pc > n + 3 /\ pc <= n + 3 + c)
    BY <1>1, <2>2
  <2> QED
    BY <2>1, <2>2
<1> QED
  BY <1>13, <1>14, <1>15, <1>16, <1>17, <1>18

(* The words read so far, and those a step adds. *)
CellsRead(ch, s) == [j \in 1 .. Len(s.at) |-> ch.cells[s.at[j]]]
ReadsOf(ch, s, words) ==
  /\ s.then \notin {"reconfig", "close"}
  /\ s.then # "append" => words = <<>>
  /\ s.then = "append" => Len(s.at) \in Nat /\ words = CellsRead(ch, s)
ReadsOn(ch, f, pc, words) == ReadBack(ch, f, pc) \o words = ReadBack(ch, f, pc + 1)

(* A step that reads adds the words of the cells that it reads. *)
LEMMA ReadBackOn ==
  ASSUME NEW f \in Files, NEW pc \in 1 .. Len(Isp(f)), NEW ch, NEW words,
         ReadsOf(ch, Isp(f)[pc], words)
  PROVE  ReadsOn(ch, f, pc, words)
<1> SUFFICES ASSUME NEW s, s = Isp(f)[pc],
                    s.then # "append" => words = <<>>,
                    s.then = "append" => words = CellsRead(ch, s),
                    s.then \notin {"reconfig", "close"},
                    s.then = "append" => Len(s.at) \in Nat
             PROVE  ReadBack(ch, f, pc) \o words = ReadBack(ch, f, pc + 1)
  BY DEF ReadsOf, ReadsOn
<1> DEFINE p == Covered(f, pc)
           q == Covered(f, pc + 1)
           back(i) == ch.cells[CellAt(f, i)]
<1>1. p \in Nat /\ q \in Nat
  BY CoveredAt, IspPlace, SMTT(25)
<1>2. /\ s.then # "append" => q = p
      /\ s.then = "append" =>
           /\ q = p + Len(s.at)
           /\ \A j \in 1 .. Len(s.at) : CellAt(f, p + j) = s.at[j]
  BY CoveredOn
<1>3. ReadBack(ch, f, pc) = [i \in 1 .. p |-> back(i)] /\ ReadBack(ch, f, pc + 1) = [i \in 1 .. q |-> back(i)]
  BY DEF ReadBack
<1> HIDE DEF p, q, back
<1>4. CASE s.then # "append"
  BY <1>1, <1>2, <1>3, <1>4
<1>5. CASE s.then = "append"
  <2> DEFINE m == Len(s.at)
  <2>1. m \in Nat /\ q = p + m
    BY <1>2, <1>5
  <2>2. \A j \in 1 .. m : ch.cells[s.at[j]] = back(p + j)
    BY <1>2, <1>5 DEF back
  <2>3. words = [j \in 1 .. m |-> back(p + j)]
    BY <1>5, <2>2 DEF CellsRead
  <2> HIDE DEF m
  <2>4. [i \in 1 .. p |-> back(i)] \o [j \in 1 .. m |-> back(p + j)] = [i \in 1 .. p + m |-> back(i)]
    BY <1>1, <2>1
  <2> QED
    BY <1>3, <2>1, <2>3, <2>4
<1> QED
  BY <1>4, <1>5

-----------------------------------------------------------------------------
(* Every step of the system keeps an update in order. *)

(* During an update the step at hand is the one of the sequence at the tool's place. *)
LEMMA NowIsp ==
  ASSUME FlashInv, run.tool = "isp"
  PROVE  /\ file \in Files /\ run.pc \in 1 .. Len(Isp(file)) /\ run.k \in Nat
         /\ Now = Isp(file)[run.pc] /\ Shaped(Now)
<1>1. file \in Files /\ Steps = Isp(file)
  BY DEF FlashInv, Steps, IspOf
<1>2. run.pc \in 1 .. Len(Isp(file)) /\ run.k \in Nat /\ Now = Isp(file)[run.pc]
  BY <1>1 DEF FlashInv, RunInv, Now
<1> QED
  BY <1>1, <1>2, IspPlace

(* Whichever tool runs, the step at hand has one of the shapes of a command sequence. *)
LEMMA NowShaped ==
  ASSUME FlashInv, run.tool # "none"
  PROVE  Shaped(Now) /\ run.k \in Nat
<1>1. CASE run.tool = "isp"
  BY <1>1, NowIsp
<1>2. CASE run.tool = "dsn"
  <2>1. Steps = Dsn
    BY <1>2 DEF Steps
  <2>2. run.pc \in 1 .. Len(Dsn) /\ run.k \in Nat /\ Now = Dsn[run.pc]
    BY <1>2, <2>1 DEF FlashInv, RunInv, Now
  <2> QED
    BY <2>2, DsnKinds DEF Shaped
<1> QED
  BY <1>1, <1>2 DEF FlashInv, RunInv

(* From the reading on the chip is ready, or takes a setting. *)
LEMMA LateReady ==
  ASSUME UpdateInv, run.tool = "isp", run.pc > Numbered(file)
  PROVE  /\ LatePlace(file, run.pc, Now) /\ LateInv(chip, file, Now, run.pc, run.k)
         /\ chip.cui.st \in {"ready", "0x60"}
         /\ chip.cui.st = "0x60" => First(Now) = "0x60" /\ run.k = 1
         /\ InStep(chip, Now, run.k)
<1>1. /\ file \in Files /\ run.pc \in 1 .. Len(Isp(file)) /\ run.k \in Nat
      /\ Now = Isp(file)[run.pc] /\ Shaped(Now) /\ BufInv(chip)
      /\ IspInv(chip, file, run)
  BY NowIsp DEF UpdateInv
<1>2. LatePlace(file, run.pc, Now)
  BY <1>1, LateStep
<1>3. LateInv(chip, file, Now, run.pc, run.k)
  BY <1>1 DEF IspInv
<1>4. InStep(chip, Now, run.k) \/ Behind(chip, file, run.pc, run.k)
  BY <1>1 DEF IspInv
<1>5. ~Behind(chip, file, run.pc, run.k)
  <2>1. Erased(file) \in Nat /\ Numbered(file) \in Nat /\ Numbered(file) > Erased(file) + 1
    <3>1. /\ Erased(file) \in Nat /\ Filled(file) \in Nat /\ Filled(file) > Erased(file)
          /\ Numbered(file) = Filled(file) + 4 + SerialWords
      BY <1>1, IspPlaces
    <3> QED
      BY <3>1, Geometry
  <2>2. run.pc \in Nat \ {0}
    BY <1>1, IspPlace
  <2>3. ~(run.pc <= Erased(file)) /\ run.pc # Erased(file) + 1
    BY <2>1, <2>2
  <2> QED
    BY <1>1, <2>2, <2>3, BehindEarly
<1>6. First(Now) \in {"0x60", "0x50", "0xFF", "none"}
  <2>1. Setting(Now) \/ Plain(Now)
    BY <1>1, IspPlace
  <2>2. Setting(Now) => First(Now) = "0x60"
    BY DEF Setting, First
  <2>3. Plain(Now) => First(Now) \in {"0x50", "0xFF", "none"}
    BY DEF Plain, First
  <2> QED
    BY <2>1, <2>2, <2>3
<1>7. chip.cui.st # "ready" => chip.cui.st = "0x60" /\ First(Now) = "0x60" /\ run.k = 1
  BY <1>4, <1>5, <1>6 DEF InStep, Matches, Openings
<1> QED
  BY <1>2, <1>3, <1>4, <1>5, <1>7

(* Only the writes of a setting change what the modes must be. *)
LEMMA PlacesOn ==
  ASSUME NEW f \in Files, NEW i \in Nat, NEW s, LatePlace(f, i, s), NEW k \in Nat, k < Len(s.writes)
  PROVE  /\ AsyncPlace(f, i, k + 1) /\ ~(First(s) = "0x60" /\ k = 1) => AsyncPlace(f, i, k)
         /\ SyncPlace(f, i, k + 1) /\ ~(First(s) = "0x60" /\ k = 1) => SyncPlace(f, i, k)
<1> DEFINE n == Numbered(f)
           c == Len(BanksOf(f))
           v == Verified(f)
<1>1. n \in Nat /\ c \in Nat /\ c > 0 /\ v = n + c + 6
  BY IspPlaces
<1>2. \/ i \in {n + 1, v - 2} /\ s = set_config_register(AsyncMode)
      \/ i \in {n + 2, v - 1} /\ s = clear_stats_regs
      \/ i = n + 3 /\ s = NumberRead("show")
      \/ \E b \in 1 .. c : i = n + 3 + b /\ s = read_bank(b - 1, Len(BanksOf(f)[b]))
      \/ i = v /\ s = NumberRead("append")
      \/ i = v + 1 /\ s = Step(<<>>, "compare", <<>>)
      \/ i = v + 2 /\ s = set_config_register(SyncMode)
      \/ i = v + 3 /\ s = reconfig
  BY DEF LatePlace
<1> HIDE DEF n, c, v
<1>3. i = n + 1 \/ i = v + 2 => First(s) = "0x60"
  <2>1. i = n + 1 \/ i = v + 2 =>
          /\ i # n + 2 /\ i # n + 3 /\ i # v /\ i # v - 1 /\ i # v + 1 /\ i # v + 3
          /\ \A b \in 1 .. c : i # n + 3 + b
    BY <1>1
  <2>2. i = n + 1 \/ i = v + 2 =>
          s = set_config_register(AsyncMode) \/ s = set_config_register(SyncMode)
    BY <1>2, <2>1
  <2>3. \A m : Setting(set_config_register(m))
    BY PlainShapes
  <2> QED
    BY <2>2, <2>3 DEF Setting, First
<1>4. k + 1 = 2 => k = 1
  OBVIOUS
<1>5. AsyncPlace(f, i, k + 1) /\ ~(First(s) = "0x60" /\ k = 1) => AsyncPlace(f, i, k)
  <2>1. AsyncPlace(f, i, k + 1) =>
          (i = n + 1 /\ k + 1 = 2) \/ i \in n + 2 .. v + 1 \/ (i = v + 2 /\ k + 1 # 2)
    BY DEF AsyncPlace, n, v
  <2>2. i \in n + 2 .. v + 1 \/ (i = v + 2 /\ k # 2) => AsyncPlace(f, i, k)
    BY DEF AsyncPlace, n, v
  <2>3. i = v + 2 => k # 2
    <3> SUFFICES ASSUME i = v + 2 PROVE k # 2
      OBVIOUS
    <3>1. Len(s.writes) = 2
      BY LateFacts DEF v
    <3>2. k < 2
      BY <3>1
    <3> QED
      BY <3>2
  <2> QED
    BY <1>3, <1>4, <2>1, <2>2, <2>3
<1>6. SyncPlace(f, i, k + 1) /\ ~(First(s) = "0x60" /\ k = 1) => SyncPlace(f, i, k)
  BY <1>3, <1>4 DEF SyncPlace, v
<1> QED
  BY <1>5, <1>6

(* The modes asked for at the start of a step were asked for at the end of the one before. *)
LEMMA PlacesNext ==
  ASSUME NEW f \in Files, NEW i \in Nat, NEW k,
         i > Numbered(f) => \E s : LatePlace(f, i, s) /\ k = Len(s.writes)
  PROVE  /\ AsyncPlace(f, i + 1, 0) => i > Numbered(f) /\ AsyncPlace(f, i, k)
         /\ SyncPlace(f, i + 1, 0) => i > Numbered(f) /\ SyncPlace(f, i, k)
<1> DEFINE n == Numbered(f)
           v == Verified(f)
<1>1. n \in Nat /\ v \in Nat /\ v > n
  BY IspPlaces, SMTT(25)
<1>2. i = n + 1 \/ i = v + 2 => k = 2
  <2>1. i = n + 1 \/ i = v + 2 => i > n
    BY <1>1
  <2> QED
    BY <2>1, LateFacts
<1>3. /\ AsyncPlace(f, i + 1, 0) => i + 1 \in n + 2 .. v + 1 \/ i + 1 = v + 2
      /\ SyncPlace(f, i + 1, 0) => i + 1 = v + 3
      /\ (i = n + 1 /\ k = 2) \/ i \in n + 2 .. v + 1 => AsyncPlace(f, i, k)
      /\ i = v + 2 /\ k = 2 => SyncPlace(f, i, k)
  BY DEF AsyncPlace, SyncPlace
<1> HIDE DEF n, v
<1>4. /\ i + 1 \in n + 2 .. v + 1 \/ i + 1 = v + 2 => i > n /\ (i = n + 1 \/ i \in n + 2 .. v + 1)
      /\ i + 1 = v + 3 => i > n /\ i = v + 2
  BY <1>1
<1> QED
  BY <1>2, <1>3, <1>4 DEF n

(* A chip that no tool has touched satisfies the invariant. *)
LEMMA UpdateInit == Init => UpdateInv
<1> SUFFICES ASSUME Init PROVE UpdateInv
  OBVIOUS
<1>1. FlashInv
  BY FlashInit
<1>2. chip.cui.st = "ready" /\ run.tool = "none"
  BY DEF Init, Ready, Idle
<1> QED
  BY <1>1, <1>2 DEF UpdateInv, BufInv

(* The tool ends, or none is at work. *)
LEMMA UpdateIdle ==
  ASSUME FlashInv', BufInv(chip'), run'.tool = "none"
  PROVE  UpdateInv'
BY DEF UpdateInv

(* An operation is over, however it went. *)
LEMMA UpdateDone ==
  ASSUME UpdateInv, FlashInv', UNCHANGED <<file, run, result>>,
         chip.cui.st = "busy", chip'.cui.st = "ready"
  PROVE  UpdateInv'
<1>1. BufInv(chip')
  BY DEF BufInv
<1>2. ASSUME run.tool = "isp" PROVE IspInv(chip', file, run)
  <2>1. IspInv(chip, file, run) /\ FlashInv
    BY <1>2 DEF UpdateInv
  <2>2. ~(run.pc > Numbered(file))
    BY <1>2, LateReady
  <2>3. /\ file \in Files /\ Numbered(file) \in Nat /\ Verified(file) \in Nat
        /\ Verified(file) > Numbered(file) /\ run.pc \in Nat
    <3>1. file \in Files /\ run.pc \in Nat
      BY <1>2, <2>1, NowIsp, IspPlace
    <3> QED
      BY <3>1, IspPlaces, SMTT(25)
  <2>4. Covered(file, run.pc) = 0
    BY <2>2, <2>3, CoveredAt, SMTT(25)
  <2>5. ReadBack(chip, file, run.pc) = ReadBack(chip', file, run.pc)
    BY <2>4 DEF ReadBack
  <2>6. ~(run.pc > Verified(file) + 1)
    BY <2>2, <2>3
  <2> QED
    BY <2>1, <2>2, <2>5, <2>6 DEF IspInv, InStep
<1> QED
  BY <1>1, <1>2 DEF UpdateInv

(* A run begins, with the chip as it is. *)
LEMMA UpdateStart ==
  ASSUME UpdateInv, FlashInv', NEW tool \in {"isp", "dsn"}, Start(tool)
  PROVE  UpdateInv'
<1>1. /\ run' = [tool |-> tool, pc |-> 1, k |-> 0, out |-> <<>>] /\ result' = "running"
      /\ chip' = chip /\ file' = file /\ BufInv(chip)
  BY DEF Start, UpdateInv
<1>2. ASSUME tool = "isp" PROVE IspInv(chip, file, run')
  <2>1. file \in Files /\ chip.cui.st \in States
    BY DEF UpdateInv, FlashInv, ChipInv, Chips
  <2> DEFINE e == Erased(file)
             n == Numbered(file)
             v == Verified(file)
             u == Unlocked(file)
             g == Filled(file)
             c == Len(BanksOf(file))
  <2>2. e \in Nat /\ e >= 1 /\ n \in Nat /\ n > 1 /\ v \in Nat /\ v > 1
    <3>1. /\ u \in Nat /\ u >= 2 + Blocks /\ e \in Nat /\ e >= u + Blocks
          /\ g \in Nat /\ g > e /\ n \in Nat /\ n = g + 4 + SerialWords
          /\ v \in Nat /\ v = n + c + 6 /\ c \in Nat
      BY <2>1, IspPlaces
    <3>2. Blocks \in Nat /\ Blocks > 1 /\ SerialWords \in Nat
      BY Geometry
    <3> HIDE DEF e, n, v, u, g, c
    <3> QED
      BY <3>1, <3>2
  <2>3. Covered(file, 1) = 0
    BY <2>1, <2>2, CoveredAt
  <2>4. ReadBack(chip, file, 1) = <<>>
    BY <2>3 DEF ReadBack
  <2>5. \A s : InStep(chip, s, 0) \/ Behind(chip, file, 1, 0)
    <3>1. Before(1, 0) = 0
      BY DEF Before
    <3>2. CASE chip.cui.st \in {"load", "confirm"}
      <4>1. chip.cui.left + 0 <= BufferWords
        BY <1>1, <3>2, Geometry DEF BufInv
      <4> QED
        BY <3>1, <3>2, <4>1 DEF Behind
    <3>3. CASE chip.cui.st = "busy"
      BY <2>2, <3>3 DEF Behind
    <3>4. CASE chip.cui.st \in Openings
      BY <3>4 DEF Behind
    <3>5. CASE chip.cui.st = "ready"
      BY <3>5 DEF InStep
    <3> QED
      BY <2>1, <3>2, <3>3, <3>4, <3>5 DEF States, Openings
  <2>6. ~(1 > n) /\ ~(1 > v + 1)
    BY <2>2
  <2>7. run'.pc = 1 /\ run'.k = 0 /\ run'.out = <<>>
    BY <1>1
  <2> QED
    BY <2>4, <2>5, <2>6, <2>7 DEF IspInv
<1>3. run'.tool = tool
  BY <1>1
<1> QED
  BY <1>1, <1>2, <1>3 DEF UpdateInv

(* The writes of the last part. *)
LEMMA LateWrite ==
  ASSUME UpdateInv, run.tool = "isp", run.pc > Numbered(file), FlashWrite
  PROVE  run'.k = run.k + 1 /\ LateInv(chip', file, Now, run.pc, run.k + 1)
<1> DEFINE s == Now
           i == run.pc
           k == run.k
           w == s.writes[k + 1]
           c == chip'
<1>1. /\ LatePlace(file, i, s) /\ LateInv(chip, file, s, i, k)
      /\ chip.cui.st \in {"ready", "0x60"}
      /\ chip.cui.st = "0x60" => First(s) = "0x60" /\ k = 1
  BY LateReady
<1>2. /\ file \in Files /\ i \in Nat /\ k \in Nat /\ k < Len(s.writes) /\ c = AfterWrite(w)
      /\ ChipInv
  BY NowIsp, IspPlace DEF UpdateInv, FlashInv, FlashWrite
<1>3. run' = [run EXCEPT !.k = k + 1]
  BY <1>1 DEF FlashWrite, Busy
<1>4. run'.k = k + 1
  BY <1>3 DEF UpdateInv, FlashInv, RunInv
<1>5. /\ First(s) = "0x60" =>
           /\ Setting(s)
           /\ AsyncPlace(file, i, 2) => s.writes[2].addr = AsyncMode
           /\ SyncPlace(file, i, 2) => s.writes[2].addr = SyncMode
      /\ First(s) = "0xFF" => Reading(s)
  BY <1>1, <1>2, LateFacts
<1>6. /\ AsyncPlace(file, i, k + 1) /\ ~(First(s) = "0x60" /\ k = 1) => AsyncPlace(file, i, k)
      /\ SyncPlace(file, i, k + 1) /\ ~(First(s) = "0x60" /\ k = 1) => SyncPlace(file, i, k)
  BY <1>1, <1>2, PlacesOn
<1>7. k = 0 => First(s) = w.cmd /\ w = s.writes[1]
  BY <1>2 DEF First, Cmd
<1>8. First(s) = "0x60" => k = 0 \/ k = 1
  BY <1>2, <1>5 DEF Setting
<1>9. First(s) = "0xFF" => k = 0 /\ BankOf(s.writes[1].addr) \in Bank
  BY <1>2, <1>5 DEF Reading
<1> SUFFICES LateInv(c, file, s, i, k + 1)
  BY <1>4
<1> HIDE DEF s, i, k, w, c
<1>10. CASE chip.cui.st = "ready"
  <2>1. /\ w.cmd \in Openings => c.cui.st = w.cmd
        /\ w.cmd = "0xFF" /\ BankOf(w.addr) \in Bank => c.read[BankOf(w.addr)] = "array"
        /\ c.config = chip.config
    BY <1>2, <1>10, AfterFirst
  <2>2. ~(First(s) = "0x60" /\ k = 1)
    BY <1>1, <1>10 DEF LateInv
  <2>3. /\ AsyncPlace(file, i, k + 1) => c.config = AsyncMode
        /\ SyncPlace(file, i, k + 1) => c.config = SyncMode
    BY <1>1, <1>6, <2>1, <2>2 DEF LateInv
  <2>4. First(s) = "0x60" => c.cui.st = "0x60"
    BY <1>7, <1>8, <2>1, <2>2 DEF Openings
  <2>5. First(s) = "0xFF" => c.read[BankOf(s.writes[1].addr)] = "array"
    BY <1>7, <1>9, <2>1
  <2> QED
    BY <2>3, <2>4, <2>5 DEF LateInv
<1>11. CASE chip.cui.st = "0x60"
  <2>1. First(s) = "0x60" /\ k = 1 /\ k + 1 = 2 /\ Setting(s)
    BY <1>1, <1>5, <1>11
  <2>2. w = s.writes[2] /\ w.cmd = "0x03"
    BY <2>1 DEF Setting, Cmd, w
  <2>3. c.config = w.addr
    BY <1>2, <1>11, <2>2, AfterLater
  <2>4. AsyncPlace(file, i, 2) => c.config = AsyncMode
    BY <1>5, <2>1, <2>2, <2>3
  <2>5. SyncPlace(file, i, 2) => c.config = SyncMode
    BY <1>5, <2>1, <2>2, <2>3
  <2> QED
    BY <2>1, <2>4, <2>5 DEF LateInv
<1> QED
  BY <1>1, <1>10, <1>11

(* One write of a command sequence keeps an update in order. *)
LEMMA UpdateWrite ==
  ASSUME UpdateInv, FlashInv', FlashWrite
  PROVE  UpdateInv'
<1> DEFINE w == Now.writes[run.k + 1]
<1>1. /\ ChipInv /\ BufInv(chip) /\ result = "running" /\ run.tool # "none"
      /\ chip' = AfterWrite(w) /\ run.k < Len(Now.writes)
      /\ run' = [run EXCEPT !.k = IF w.cmd = "0xE8" /\ Busy THEN 0 ELSE @ + 1]
      /\ file' = file /\ result' = result
  BY DEF UpdateInv, FlashInv, FlashWrite
<1>2. Shaped(Now) /\ run.k \in Nat
  BY <1>1, NowShaped DEF UpdateInv
<1>3. w.cmd = "count" => w.n + 1 \in 1 .. BufferWords
  BY <1>1, <1>2, ShapeWrites DEF Cmd
<1> HIDE DEF w
<1>4. BufInv(chip')
  BY <1>1, <1>3, BufKept
<1>5. /\ run'.tool = run.tool /\ run'.pc = run.pc /\ run'.out = run.out
      /\ run'.k = IF w.cmd = "0xE8" /\ Busy THEN 0 ELSE run.k + 1
  BY <1>1 DEF UpdateInv, FlashInv, RunInv
<1>6. ASSUME run.tool = "isp" PROVE IspInv(chip', file, run')
  <2>1. /\ file \in Files /\ run.pc \in 1 .. Len(Isp(file)) /\ run.k \in Nat
        /\ Now = Isp(file)[run.pc] /\ IspInv(chip, file, run)
    BY <1>6, NowIsp DEF UpdateInv
  <2>2. InStep(chip', Now, run'.k) \/ Behind(chip', file, run.pc, run'.k)
    <3>1. CASE InStep(chip, Now, run.k)
      <4>1. InStep(chip', Now, run.k + 1) /\ (run.k = 0 => chip.cui.st = "ready")
        BY <1>1, <1>2, <3>1, WriteInStep DEF w
      <4>2. ~(w.cmd = "0xE8" /\ Busy)
        <5>1. w.cmd = "0xE8" => run.k = 0
          BY <1>1, <1>2, ShapeWrites DEF w, Cmd, Openings
        <5> QED
          BY <4>1, <5>1 DEF Busy
      <4> QED
        BY <1>5, <4>1, <4>2
    <3>2. CASE Behind(chip, file, run.pc, run.k)
      <4>1. run'.k = IF Cmd(Now, run.k + 1) = "0xE8" /\ chip.cui.st = "busy" THEN 0 ELSE run.k + 1
        BY <1>5 DEF w, Cmd, Busy
      <4> QED
        BY <1>1, <2>1, <3>2, <4>1, WriteBehind DEF w
    <3> QED
      BY <2>1, <3>1, <3>2 DEF IspInv
  <2>3. chip'.cells = chip.cells
    <3>1. w \in WritesTo(file)
      <4>1. Now \in StepsTo(file)
        BY <1>6, StepNow DEF UpdateInv, FlashInv
      <4>2. Now.writes \in Seq(WritesTo(file))
        BY <4>1 DEF StepsTo
      <4>3. run.k + 1 \in 1 .. Len(Now.writes)
        BY <1>1, <1>2, <4>2
      <4> QED
        BY <4>2, <4>3 DEF w
    <3> QED
      BY <1>1, <3>1, FirstKept, LaterKept DEF AfterWrite
  <2>4. run'.out = ReadBack(chip', file, run.pc)
    BY <1>5, <2>1, <2>3 DEF IspInv, ReadBack
  <2>5. run.pc > Numbered(file) => LateInv(chip', file, Now, run.pc, run'.k)
    BY <1>6, LateWrite
  <2>6. run.pc > Verified(file) + 1 => Written(chip', file)
    BY <2>1, <2>3 DEF IspInv, Written
  <2> QED
    BY <1>5, <2>1, <2>2, <2>4, <2>5, <2>6 DEF IspInv
<1> QED
  BY <1>1, <1>4, <1>5, <1>6 DEF UpdateInv

(* The steps that read into the buffer find the chip in asynchronous mode. *)
LEMMA LateAppend ==
  ASSUME NEW f \in Files, NEW i \in Nat, NEW s, LatePlace(f, i, s), s.then = "append", NEW k
  PROVE  AsyncPlace(f, i, k)
<1> DEFINE n == Numbered(f)
           c == Len(BanksOf(f))
           v == Verified(f)
<1>1. n \in Nat /\ c \in Nat /\ v = n + c + 6
  BY IspPlaces
<1>2. /\ \A m : set_config_register(m).then = "next"
      /\ clear_stats_regs.then = "next" /\ Step(<<>>, "compare", <<>>).then = "compare"
      /\ NumberRead("show").then = "show" /\ reconfig.then = "reconfig"
  BY DEF set_config_register, clear_stats_regs, NumberRead, reconfig, Step
<1>3. (\E b \in 1 .. c : i = n + 3 + b) \/ i = v
  BY <1>2 DEF LatePlace
<1> HIDE DEF n, c, v
<1>4. i \in n + 2 .. v + 1
  BY <1>1, <1>3
<1> QED
  BY <1>4 DEF AsyncPlace, n, v

(* A step is over and the next one begins. *)
LEMMA UpdateNext ==
  ASSUME UpdateInv, FlashInv', run.tool # "none", NEW words, NextStep(words),
         UNCHANGED <<chip, file>>, run.k = Len(Now.writes),
         Now.then \in {"programmed", "erased"} /\ StatusOf(chip, Now) => ~Busy,
         Now.then \notin {"reconfig", "close"},
         Now.then # "append" => words = <<>>,
         Now.then = "append" => words = [j \in DOMAIN Now.at |-> Cell(Now.at[j])],
         run.tool = "isp" /\ Now.then = "compare" => Written(chip, file)
  PROVE  UpdateInv'
<1>1. /\ run' = [run EXCEPT !.pc = @ + 1, !.k = 0, !.out = @ \o words] /\ result' = result
      /\ chip' = chip /\ file' = file /\ BufInv(chip) /\ result = "running"
  BY DEF NextStep, UpdateInv
<1>2. /\ run'.tool = run.tool /\ run'.pc = run.pc + 1 /\ run'.k = 0
      /\ run'.out = run.out \o words
  BY <1>1 DEF UpdateInv, FlashInv, RunInv
<1>3. ASSUME run.tool = "isp" PROVE IspInv(chip, file, run')
  <2> DEFINE s == Now
             i == run.pc
  <2>1. /\ file \in Files /\ i \in 1 .. Len(Isp(file)) /\ s = Isp(file)[i]
        /\ Shaped(s) /\ IspInv(chip, file, run) /\ ChipInv
    BY <1>3, NowIsp DEF UpdateInv, FlashInv
  <2>2. i \in Nat /\ i > 0
    BY <2>1, IspPlace
  <2>3. chip.cui.st = "ready" \/ Behind(chip, file, i + 1, 0)
    <3>1. CASE InStep(chip, s, run.k)
      BY <1>1, <2>1, <3>1, NextInStep DEF Busy
    <3>2. CASE Behind(chip, file, i, run.k)
      BY <1>1, <2>1, <3>2, NextBehind
    <3> QED
      BY <2>1, <3>1, <3>2 DEF IspInv
  <2>4. \A t : InStep(chip, t, 0) \/ Behind(chip, file, i + 1, 0)
    BY <2>3 DEF InStep
  <2>5. s.then \in {"append", "compare"} => i > Numbered(file)
    <3>1. i <= Numbered(file) => s.then \in {"next", "unlocked", "erased", "programmed"}
      BY <2>1, IspPlace
    <3>2. Numbered(file) \in Nat
      BY <2>1, IspPlaces
    <3> QED
      BY <2>2, <3>1, <3>2
  <2>6. i > Numbered(file) =>
          /\ LatePlace(file, i, s) /\ LateInv(chip, file, s, i, run.k)
          /\ chip.cui.st \in {"ready", "0x60"}
    BY <1>3, LateReady
  <2>7. s.then = "append" =>
          /\ Len(s.at) \in Nat
          /\ words = CellsRead(chip, s)
    <3> SUFFICES ASSUME s.then = "append"
                 PROVE  /\ Len(s.at) \in Nat
                        /\ words = CellsRead(chip, s)
      OBVIOUS
    <3>1. Reading(s) /\ AsyncPlace(file, i, run.k) /\ LateInv(chip, file, s, i, run.k)
      BY <2>1, <2>2, <2>5, <2>6, LateFacts, LateAppend
    <3>2. /\ run.k = 1 /\ First(s) = "0xFF" /\ s.at \in Seq(Nat) /\ Len(s.at) \in Nat
          /\ \A j \in 1 .. Len(s.at) : BankOf(s.at[j]) = BankOf(s.writes[1].addr)
      BY <3>1 DEF Reading
    <3>3. chip.read[BankOf(s.writes[1].addr)] = "array" /\ chip.config = AsyncMode
      BY <3>1, <3>2 DEF LateInv
    <3>4. ~Busy
      BY <2>5, <2>6 DEF Busy
    <3>5. \A j \in 1 .. Len(s.at) : Cell(s.at[j]) = chip.cells[s.at[j]]
      BY <3>2, <3>3, <3>4 DEF Cell
    <3>6. DOMAIN s.at = 1 .. Len(s.at)
      BY <3>2
    <3> QED
      BY <3>2, <3>5, <3>6 DEF CellsRead
  <2>8. run.out \o words = ReadBack(chip, file, i + 1)
    <3>1. run.out = ReadBack(chip, file, i)
      BY <2>1 DEF IspInv
    <3>2. ReadsOf(chip, s, words)
      <4>1. s.then \notin {"reconfig", "close"} /\ (s.then # "append" => words = <<>>)
        OBVIOUS
      <4> HIDE DEF s
      <4> QED
        BY <2>7, <4>1 DEF ReadsOf
    <3> HIDE DEF s, i
    <3>3. file \in Files /\ i \in 1 .. Len(Isp(file)) /\ ReadsOf(chip, Isp(file)[i], words)
      BY <2>1, <3>2
    <3>4. ReadsOn(chip, file, i, words)
      BY <3>3, ReadBackOn
    <3> QED
      BY <3>1, <3>4 DEF ReadsOn
  <2>9. /\ AsyncPlace(file, i + 1, 0) => chip.config = AsyncMode
        /\ SyncPlace(file, i + 1, 0) => chip.config = SyncMode
    <3>1. i > Numbered(file) => \E t : LatePlace(file, i, t) /\ run.k = Len(t.writes)
      BY <2>6
    <3>2. /\ AsyncPlace(file, i + 1, 0) => i > Numbered(file) /\ AsyncPlace(file, i, run.k)
          /\ SyncPlace(file, i + 1, 0) => i > Numbered(file) /\ SyncPlace(file, i, run.k)
      BY <2>1, <2>2, <3>1, PlacesNext
    <3> QED
      BY <2>6, <3>2 DEF LateInv
  <2>10. \A t : LateInv(chip, file, t, i + 1, 0)
    BY <2>9 DEF LateInv
  <2>11. i + 1 > Verified(file) + 1 => Written(chip, file)
    <3> SUFFICES ASSUME i + 1 > Verified(file) + 1 PROVE Written(chip, file)
      OBVIOUS
    <3>1. /\ Verified(file) \in Nat /\ Numbered(file) \in Nat
          /\ Verified(file) > Numbered(file)
      BY <2>1, IspPlaces, SMTT(25)
    <3>2. i = Verified(file) + 1 \/ i > Verified(file) + 1
      BY <2>2, <3>1
    <3>3. CASE i = Verified(file) + 1
      <4>1. i > Numbered(file)
        BY <3>1, <3>3
      <4>2. s.then = "compare"
        BY <2>1, <2>2, <2>6, <3>3, <4>1, LateFacts
      <4> QED
        BY <1>3, <4>2
    <3>4. CASE i > Verified(file) + 1
      BY <2>1, <3>4 DEF IspInv
    <3> QED
      BY <3>2, <3>3, <3>4
  <2> HIDE DEF s, i
  <2>12. run'.pc = i + 1 /\ run'.k = 0 /\ run'.out = ReadBack(chip, file, i + 1)
    BY <1>2, <2>8 DEF i
  <2> QED
    BY <2>4, <2>10, <2>11, <2>12 DEF IspInv
<1> QED
  BY <1>1, <1>2, <1>3 DEF UpdateInv

(* The comparison finds every word of the file in its cell. *)
LEMMA ComparedWritten ==
  ASSUME UpdateInv, run.tool = "isp", Now.then = "compare", SameAsFile(run.out)
  PROVE  Written(chip, file)
<1> DEFINE l == Len(ImageOf(file))
           m == SerialWords
           back(i) == chip.cells[CellAt(file, i)]
           same(i) == IF i <= Len(file) - m THEN bit_swap(file[i]) ELSE file[i]
<1>1. /\ file \in Files /\ run.pc \in 1 .. Len(Isp(file)) /\ Now = Isp(file)[run.pc]
      /\ IspInv(chip, file, run)
  BY NowIsp DEF UpdateInv
<1>2. run.pc \in Nat /\ run.pc = Verified(file) + 1
  <2>1. run.pc \in Nat /\ Numbered(file) \in Nat
    BY <1>1, IspPlace, IspPlaces
  <2>2. run.pc > Numbered(file)
    <3>1. run.pc <= Numbered(file) => Now.then # "compare"
      BY <1>1, IspPlace
    <3> QED
      BY <2>1, <3>1
  <2>3. LatePlace(file, run.pc, Now)
    BY <2>2, LateReady
  <2> QED
    BY <1>1, <2>1, <2>3, LateFacts
<1>3. Covered(file, run.pc) = l + m
  <2>1. Verified(file) \in Nat
    BY <1>1, IspPlaces
  <2> QED
    BY <1>1, <1>2, <2>1, CoveredAt
<1>4. l \in Nat /\ m \in Nat /\ Len(file) = l + m /\ file \in Seq(Word)
  BY <1>1, FileFacts, ImageAt, Geometry
<1>5. [i \in 1 .. l + m |-> back(i)] = [i \in DOMAIN file |-> same(i)]
  <2>1. run.out = [i \in 1 .. l + m |-> back(i)]
    BY <1>1, <1>3 DEF IspInv, ReadBack
  <2>2. run.out = [i \in DOMAIN file |-> same(i)]
    BY DEF SameAsFile
  <2> QED
    BY <2>1, <2>2
<1>6. DOMAIN file = 1 .. l + m
  BY <1>4
<1> HIDE DEF back, same, l, m
<1>7. \A i \in 1 .. l + m : back(i) = same(i)
  BY <1>5, <1>6
<1>8. ASSUME NEW i \in 1 .. l PROVE chip.cells[i - 1] = bit_swap(file[i])
  <2>1. i \in 1 .. l + m /\ i <= l /\ Len(file) - m = l
    BY <1>4
  <2>2. back(i) = chip.cells[i - 1]
    BY <2>1 DEF back, CellAt, l
  <2>3. same(i) = bit_swap(file[i])
    BY <2>1 DEF same
  <2> QED
    BY <1>7, <2>1, <2>2, <2>3
<1>9. ASSUME NEW i \in 1 .. m
      PROVE  chip.cells[BlockAt(SerialBank, 0) + m - i] = SerialOf(file)[i]
  <2>1. l + i \in 1 .. l + m /\ ~(l + i <= l) /\ (l + i) - l = i /\ Len(file) - m = l
    BY <1>4
  <2>2. back(l + i) = chip.cells[BlockAt(SerialBank, 0) + m - i]
    BY <2>1 DEF back, CellAt, l, m
  <2>3. same(l + i) = file[l + i]
    BY <2>1 DEF same
  <2>4. SerialOf(file)[i] = file[l + i]
    BY <1>1, ImageAt DEF l, m
  <2> QED
    BY <1>7, <2>1, <2>2, <2>3, <2>4
<1>10. DOMAIN ImageOf(file) = 1 .. l
  BY <1>1, FileFacts DEF l
<1> QED
  BY <1>8, <1>9, <1>10 DEF Written, m

(* Whatever the tool does next, the update stays in order. *)
LEMMA UpdateTool ==
  ASSUME UpdateInv, FlashInv', ToolStep
  PROVE  UpdateInv'
<1>1. BufInv(chip) /\ FlashInv
  BY DEF UpdateInv
<1>2. ASSUME NEW how, EndRun(how), chip' = chip PROVE UpdateInv'
  BY <1>1, <1>2, UpdateIdle DEF EndRun, Idle
<1>3. CASE FlashWrite
  BY <1>3, UpdateWrite
<1>4. CASE PollStatus
  <2>1. /\ run.tool # "none" /\ run.k = Len(Now.writes) /\ Now.then \in {"programmed", "erased"}
        /\ UNCHANGED <<chip, file>> /\ (StatusOf(chip, Now) => ~Busy)
    BY <1>4 DEF PollStatus, WritesDone, ReadsStatus, StatusOf
  <2>2. NextStep(<<>>) \/ EndRun("exit")
    BY <1>4 DEF PollStatus
  <2>3. CASE NextStep(<<>>)
    BY <2>1, <2>3, UpdateNext
  <2> QED
    BY <1>2, <2>1, <2>2, <2>3
<1>5. CASE CheckUnlocked
  <2>1. /\ run.tool # "none" /\ run.k = Len(Now.writes) /\ Now.then = "unlocked"
        /\ UNCHANGED <<chip, file>>
    BY <1>5 DEF CheckUnlocked, WritesDone
  <2>2. NextStep(<<>>) \/ EndRun("exit")
    BY <1>5 DEF CheckUnlocked
  <2>3. CASE NextStep(<<>>)
    BY <2>1, <2>3, UpdateNext
  <2> QED
    BY <1>2, <2>1, <2>2, <2>3
<1>6. CASE ReadOn
  <2> DEFINE words == IF Now.then = "append" THEN [i \in DOMAIN Now.at |-> Cell(Now.at[i])] ELSE <<>>
  <2>1. /\ run.tool # "none" /\ run.k = Len(Now.writes) /\ Now.then \in {"next", "show", "append"}
        /\ UNCHANGED <<chip, file>> /\ NextStep(words)
    BY <1>6 DEF ReadOn, WritesDone
  <2>2. /\ Now.then # "append" => words = <<>>
        /\ Now.then = "append" => words = [i \in DOMAIN Now.at |-> Cell(Now.at[i])]
    OBVIOUS
  <2> HIDE DEF words
  <2> QED
    BY <2>1, <2>2, UpdateNext
<1>7. CASE Compare
  <2>1. /\ run.tool # "none" /\ run.k = Len(Now.writes) /\ Now.then = "compare"
        /\ UNCHANGED <<chip, file>>
    BY <1>7 DEF Compare, WritesDone
  <2>2. (SameAsFile(run.out) /\ NextStep(<<>>)) \/ EndRun("differs")
    BY <1>7 DEF Compare
  <2>3. CASE SameAsFile(run.out) /\ NextStep(<<>>)
    <3>1. run.tool = "isp" => Written(chip, file)
      BY <2>1, <2>3, ComparedWritten
    <3> QED
      BY <2>1, <2>3, <3>1, UpdateNext
  <2> QED
    BY <1>2, <2>1, <2>2, <2>3
<1>8. CASE Finish
  <2>1. \E how : EndRun(how) /\ chip' = chip
    BY <1>8 DEF Finish
  <2> QED
    BY <1>2, <2>1
<1> QED
  BY <1>3, <1>4, <1>5, <1>6, <1>7, <1>8 DEF ToolStep

(* The invariant is inductive: tool, chip, faults and kills all keep it. *)
LEMMA UpdateStep == UpdateInv /\ [Next]_vars => UpdateInv'
<1> SUFFICES ASSUME UpdateInv, [Next]_vars PROVE UpdateInv'
  OBVIOUS
<1>1. FlashInv /\ BufInv(chip) /\ FlashInv'
  BY FlashNext DEF UpdateInv
<1>2. CASE ToolStep
  BY <1>1, <1>2, UpdateTool
<1>3. CASE Kill
  BY <1>1, <1>3, UpdateIdle DEF Kill, EndRun, Idle
<1>4. CASE Gsn
  BY <1>1, <1>4, UpdateIdle DEF Gsn
<1>5. CASE PowerCycle
  <2>1. chip'.cui = Ready /\ run'.tool = "none"
    BY <1>1, <1>5 DEF PowerCycle, FlashInv, ChipInv, Chips
  <2>2. BufInv(chip')
    BY <2>1 DEF BufInv, Ready
  <2> QED
    BY <1>1, <2>1, <2>2, UpdateIdle
<1>6. ASSUME NEW tool \in {"isp", "dsn"}, Start(tool) PROVE UpdateInv'
  BY <1>1, <1>6, UpdateStart
<1>7. CASE ChipDone
  <2>1. chip'.cui = Ready /\ chip.cui.st = "busy" /\ UNCHANGED <<file, run, result>>
    BY <1>1, <1>7 DEF ChipDone, Busy, FlashInv, ChipInv, Chips
  <2> QED
    BY <1>1, <2>1, UpdateDone DEF Ready
<1>8. ASSUME NEW reported, ChipFault(reported) PROVE UpdateInv'
  <2>1. chip'.cui = Ready /\ chip.cui.st = "busy" /\ UNCHANGED <<file, run, result>>
    BY <1>1, <1>8 DEF ChipFault, Busy, FlashInv, ChipInv, Chips
  <2> QED
    BY <1>1, <2>1, UpdateDone DEF Ready
<1>9. CASE UNCHANGED vars
  <2>1. chip' = chip /\ file' = file /\ run' = run /\ result' = result
    BY <1>9 DEF vars
  <2> QED
    BY <1>1, <2>1 DEF UpdateInv
<1> QED
  BY <1>2, <1>3, <1>4, <1>5, <1>6, <1>7, <1>8, <1>9 DEF Next

(* An update of the card is in step with the chip again before it erases,     *)
(* wherever the last run was killed, and what it reads back is what the cells *)
(* hold: for every geometry, image and number of runs and failures.           *)
THEOREM UpdateInductive == Spec => []UpdateInv
<1>1. Init => UpdateInv
  BY UpdateInit
<1>2. UpdateInv /\ [Next]_vars => UpdateInv'
  BY UpdateStep
<1> QED
  BY <1>1, <1>2, PTL DEF Spec

(* The card is reconfigured only with the image and the number of the file in *)
(* the flash, and with the chip in synchronous mode (ReconfiguredIsImage).    *)
THEOREM UpdateVerified == Spec => ReconfiguredIsImage
<1>1. UpdateInv /\ [Next]_vars =>
        [run.tool = "isp" /\ result' = "reconfigured" => Holds(file) /\ chip.config = SyncMode]_vars
  <2> SUFFICES ASSUME UpdateInv, [Next]_vars, run.tool = "isp", result' = "reconfigured"
               PROVE  Holds(file) /\ chip.config = SyncMode
    OBVIOUS
  <2>1. result = "running" /\ FlashInv
    BY DEF UpdateInv
  <2>2. Finish /\ Now.then = "reconfig"
    <3>1. ~ (UNCHANGED result)
      BY <2>1
    <3>2. CASE ToolStep
      <4>1. ~FlashWrite
        BY <3>1 DEF FlashWrite
      <4>2. ~PollStatus /\ ~CheckUnlocked /\ ~ReadOn /\ ~Compare
        BY <3>1 DEF PollStatus, CheckUnlocked, ReadOn, Compare, EndRun, NextStep
      <4>3. Finish
        BY <3>2, <4>1, <4>2 DEF ToolStep
      <4> QED
        BY <4>3 DEF Finish, EndRun, WritesDone
    <3>3. ~Kill
      BY DEF Kill, EndRun
    <3>4. ~Gsn /\ ~PowerCycle /\ (\A tool : ~Start(tool))
      BY DEF Gsn, PowerCycle, Start
    <3>5. ~ChipDone /\ (\A reported : ~ChipFault(reported)) /\ ~UNCHANGED vars
      BY <3>1 DEF ChipDone, ChipFault, vars
    <3> QED
      BY <3>2, <3>3, <3>4, <3>5 DEF Next
  <2>3. /\ file \in Files /\ run.pc \in 1 .. Len(Isp(file)) /\ Now = Isp(file)[run.pc]
        /\ IspInv(chip, file, run)
    BY <2>1, NowIsp DEF UpdateInv
  <2>4. /\ run.pc \in Nat /\ Numbered(file) \in Nat /\ Verified(file) \in Nat
    BY <2>3, IspPlace, IspPlaces
  <2>5. run.pc > Numbered(file)
    <3>1. run.pc <= Numbered(file) => Now.then # "reconfig"
      BY <2>3, IspPlace
    <3> QED
      BY <2>2, <2>4, <3>1
  <2>6. LatePlace(file, run.pc, Now) /\ LateInv(chip, file, Now, run.pc, run.k)
    BY <2>5, LateReady
  <2>7. run.pc = Verified(file) + 3
    BY <2>2, <2>3, <2>4, <2>6, LateFacts
  <2>8. chip.config = SyncMode
    BY <2>6, <2>7 DEF LateInv, SyncPlace
  <2>9. Written(chip, file)
    <3>1. run.pc > Verified(file) + 1
      BY <2>4, <2>7
    <3> QED
      BY <2>3, <3>1 DEF IspInv
  <2> QED
    BY <2>8, <2>9 DEF Written, Holds
<1> QED
  BY <1>1, UpdateInductive, PTL DEF Spec, ReconfiguredIsImage

-----------------------------------------------------------------------------
(* Why an update that meets no failure succeeds. *)

(* The image leaves the bank of the serial numbers alone. *)
Small(f) == Len(ImageOf(f)) <= SerialBank * BankWords

(* What the file wants an address to hold. *)
NumberBase == BlockAt(SerialBank, 0)
Aim(f, a) ==
  IF a < Len(ImageOf(f)) THEN bit_swap(f[a + 1])
  ELSE IF a \in NumberBase .. NumberBase + SerialWords - 1
       THEN SerialOf(f)[NumberBase + SerialWords - a] ELSE {}

(* A step unlocks, or erases, block b; the writes of a step that give words. *)
Opens(s, b) == First(s) = "0x60" /\ Cmd(s, 2) = "0xD0" /\ BlockOf(s.writes[2].addr) = b
Wipes(s, b) == First(s) = "0x20" /\ BlockOf(s.writes[2].addr) = b
DataOf(s) == {i \in 1 .. Len(s.writes) : Cmd(s, i) = "data"}

(* What a step that is over has achieved: a block it unlocked is unlocked, one *)
(* it erased has every bit that the file wants, a word it gave is in its cell. *)
Made(ch, f, s) ==
  /\ \A b \in ch.locked : ~Opens(s, b)
  /\ \A a \in Addr : Wipes(s, BlockOf(a)) => Aim(f, a) \subseteq ch.cells[a]
  /\ \A i \in DataOf(s) : ch.cells[s.writes[i].addr] = Aim(f, s.writes[i].addr)

(* The operation a step starts, and the words given by the first k of its writes. *)
Change(ch, f, s) ==
  IF First(s) = "0x20" THEN {<<a, Ones>> : a \in CellsOf(BlockOf(s.writes[2].addr))}
  ELSE {<<s.writes[i].addr, ch.cells[s.writes[i].addr] \cap Aim(f, s.writes[i].addr)>> :
          i \in DataOf(s)}
FirstWords(s, k) == {<<s.writes[i].addr, s.writes[i].word>> : i \in 3 .. k}

(* The chip is where k writes of step s bring it, if it was ready before. *)
On(ch, f, s, k) ==
  /\ k \in 0 .. Len(s.writes)
  /\ First(s) \notin Openings \/ k = 0 => ch.cui.st = "ready"
  /\ First(s) \in Openings /\ k = 1 => ch.cui.st = First(s)
  /\ First(s) = "0x60" /\ k > 1 => ch.cui.st = "ready" /\ Made(ch, f, s)
  /\ First(s) = "0xE8" /\ k \in 2 .. Len(s.writes) - 1 =>
       /\ ch.cui.st = IF k = Len(s.writes) - 1 THEN "confirm" ELSE "load"
       /\ ch.cui.left = Len(s.writes) - 1 - k /\ ch.cui.buf = FirstWords(s, k)
  /\ First(s) \in Openings \ {"0x60"} /\ k > 1 /\ k = Len(s.writes) =>
       \/ ch.cui.st = "busy" /\ ch.cui.buf = Change(ch, f, s)
       \/ ch.cui.st = "ready" /\ Made(ch, f, s)
  /\ First(s) \in Openings \ {"0x60"} /\ k > 0 => StatusOf(ch, s)
  /\ s.then = "unlocked" /\ k = 3 => ch.read[BankOf(s.at[1])] = "id"

(* The writes of a step fit each other and the file. *)
Sound(f, s) ==
  /\ Shaped(s)
  /\ \A i \in DataOf(s) : /\ s.writes[i].addr \in Addr
                          /\ s.writes[i].word = Aim(f, s.writes[i].addr)
                          /\ BlockOf(s.writes[i].addr) = BlockOf(s.writes[1].addr)
  /\ First(s) = "0x20" => s.writes[2].addr \in Nat
  /\ First(s) = "0xE8" => s.writes[Len(s.writes)].addr = s.writes[1].addr
  /\ s.then = "unlocked" => /\ BankOf(s.at[1]) = BankOf(s.writes[3].addr)
                            /\ BankOf(s.at[1]) \in Bank
                            /\ BlockOf(s.at[1]) = BlockOf(s.writes[2].addr)

(* The block that a step erases or programs, unlocked. *)
Accessible(ch, s) ==
  /\ First(s) = "0x20" => BlockOf(s.writes[2].addr) \notin ch.locked
  /\ First(s) \in {"0x40", "0xE8"} => BlockOf(s.writes[1].addr) \notin ch.locked

(* What was achieved lasts while no cell changes and no block is locked. *)
LEMMA MadeKept ==
  ASSUME NEW c, NEW d, d.cells = c.cells, d.locked \subseteq c.locked, NEW f, NEW s, Made(c, f, s)
  PROVE  Made(d, f, s)
BY DEF Made

(* A write changes no cell, locks no block, and may clear errors. *)
LEMMA WriteLocks ==
  ASSUME ChipInv, NEW w, NEW c, c = AfterWrite(w)
  PROVE  c.cells = chip.cells /\ c.locked \subseteq chip.locked
<1>1. CASE chip.cui.st = "ready"
  <2>1. c = FirstWrite(w)
    BY <1>1 DEF AfterWrite
  <2> QED
    BY <2>1 DEF FirstWrite, ChipInv, Chips
<1>2. CASE chip.cui.st # "ready"
  <2>1. c = LaterWrite(w)
    BY <1>2 DEF AfterWrite
  <2>2. ASSUME NEW op, NEW buf, c = StartOperation(w.addr, op, buf)
        PROVE  c.cells = chip.cells /\ c.locked = chip.locked
    BY <2>2 DEF StartOperation, ChipInv, Chips
  <2>3. ASSUME c = SequenceError PROVE c.cells = chip.cells /\ c.locked = chip.locked
    BY <2>3 DEF SequenceError, ChipInv, Chips
  <2>4. CASE chip.cui.st = "0x60"
    <3>1. \/ c = [chip EXCEPT !.cui = Ready, !.locked = @ \ {BlockOf(w.addr)}]
          \/ c = [chip EXCEPT !.cui = Ready, !.config = w.addr]
          \/ c = SequenceError
      BY <2>1, <2>4 DEF LaterWrite
    <3> QED
      BY <2>3, <3>1 DEF ChipInv, Chips
  <2>5. CASE chip.cui.st = "0x20"
    <3>1. c = SequenceError \/ \E op, buf : c = StartOperation(w.addr, op, buf)
      BY <2>1, <2>5 DEF LaterWrite
    <3> QED
      BY <2>2, <2>3, <3>1
  <2>6. CASE chip.cui.st = "0x40"
    <3>1. \E op, buf : c = StartOperation(w.addr, op, buf)
      BY <2>1, <2>6 DEF LaterWrite
    <3> QED
      BY <2>2, <3>1
  <2>7. CASE chip.cui.st = "0xE8"
    <3>1. c = SequenceError \/ \E cui : c = [chip EXCEPT !.cui = cui]
      BY <2>1, <2>7 DEF LaterWrite
    <3> QED
      BY <2>3, <3>1 DEF ChipInv, Chips
  <2>8. CASE chip.cui.st = "load"
    <3>1. \E cui : c = [chip EXCEPT !.cui = cui]
      BY <2>1, <2>8 DEF LaterWrite
    <3> QED
      BY <3>1 DEF ChipInv, Chips
  <2>9. CASE chip.cui.st = "confirm"
    <3>1. c = SequenceError \/ \E op, buf : c = StartOperation(w.addr, op, buf)
      BY <2>1, <2>9 DEF LaterWrite
    <3> QED
      BY <2>2, <2>3, <3>1
  <2>10. CASE chip.cui.st = "busy"
    BY <2>1, <2>10 DEF LaterWrite
  <2> QED
    BY <1>2, <2>4, <2>5, <2>6, <2>7, <2>8, <2>9, <2>10 DEF ChipInv, Chips, States
<1> QED
  BY <1>1, <1>2

(* The first command of a step tells its shape. *)
LEMMA ShapeOf ==
  ASSUME NEW s, Shaped(s)
  PROVE  /\ First(s) \notin Openings => Plain(s)
         /\ First(s) = "0x60" => Setting(s) \/ Unlocking(s)
         /\ First(s) = "0x20" => Erasing(s)
         /\ First(s) = "0x40" => Wording(s)
         /\ First(s) = "0xE8" => Filling(s)
         /\ Plain(s) => First(s) \notin Openings
         /\ s.then = "unlocked" => Unlocking(s)
         /\ s.then \in {"programmed", "erased"} => Erasing(s) \/ Wording(s) \/ Filling(s)
         /\ First(s) = "0x60" /\ Cmd(s, 2) = "0xD0" => Unlocking(s)
<1>1. /\ Setting(s) => First(s) = "0x60" /\ s.then = "next" /\ Cmd(s, 2) = "0x03"
      /\ Unlocking(s) => First(s) = "0x60" /\ s.then = "unlocked" /\ Cmd(s, 2) = "0xD0"
  BY DEF Setting, Unlocking, First
<1>2. /\ Plain(s) => First(s) \in {"0x50", "0xFF", "none"}
      /\ Plain(s) => s.then \in {"compare", "reconfig", "close", "next", "show", "append"}
  BY DEF Plain, First
<1>3. Erasing(s) => First(s) = "0x20" /\ s.then = "erased"
  BY DEF Erasing, First
<1>4. Wording(s) => First(s) = "0x40" /\ s.then = "programmed"
  BY DEF Wording, First
<1>5. Filling(s) => First(s) = "0xE8" /\ s.then = "programmed"
  BY DEF Filling, First
<1> QED
  BY <1>1, <1>2, <1>3, <1>4, <1>5 DEF Shaped, Openings

(* A step that starts an operation takes several writes, and waits. *)
LEMMA LongSteps ==
  ASSUME NEW s, Shaped(s), First(s) \in Openings \ {"0x60"}
  PROVE  /\ Len(s.writes) \in Nat /\ Len(s.writes) > 1
         /\ Len(s.writes) # 0 /\ Len(s.writes) # 1
         /\ s.then \in {"programmed", "erased"} /\ InOneBank(s)
<1>1. Erasing(s) \/ Wording(s) \/ Filling(s)
  BY ShapeOf DEF Openings
<1>2. CASE Erasing(s) \/ Wording(s)
  BY <1>2 DEF Erasing, Wording
<1>3. CASE Filling(s)
  BY <1>3, Geometry DEF Filling
<1> QED
  BY <1>1, <1>2, <1>3

(* The writes that give words. *)
LEMMA DataPlaces ==
  ASSUME NEW s, Shaped(s)
  PROVE  /\ First(s) \notin {"0x40", "0xE8"} => DataOf(s) = {}
         /\ Wording(s) => DataOf(s) = {2}
         /\ Filling(s) => DataOf(s) = 3 .. Len(s.writes) - 1
<1>1. Setting(s) \/ Plain(s) \/ Unlocking(s) \/ Erasing(s) => DataOf(s) = {}
  <2>1. Setting(s) \/ Erasing(s) => DataOf(s) = {}
    <3>1. 1 .. 2 = {1, 2}
      OBVIOUS
    <3>2. Setting(s) \/ Erasing(s) => Len(s.writes) = 2 /\ Cmd(s, 1) # "data" /\ Cmd(s, 2) # "data"
      BY DEF Setting, Erasing
    <3> QED
      BY <3>1, <3>2 DEF DataOf
  <2>2. Plain(s) => DataOf(s) = {}
    <3>1. 1 .. 1 = {1} /\ 1 .. 0 = {} /\ Len(<< >>) = 0
      OBVIOUS
    <3>2. Plain(s) => Len(s.writes) = 0 \/ (Len(s.writes) = 1 /\ Cmd(s, 1) # "data")
      BY <3>1 DEF Plain
    <3> QED
      BY <3>1, <3>2 DEF DataOf
  <2>3. Unlocking(s) => DataOf(s) = {}
    BY DEF Unlocking, DataOf
  <2> QED
    BY <2>1, <2>2, <2>3
<1>2. Wording(s) => DataOf(s) = {2}
  BY DEF Wording, DataOf
<1>3. Filling(s) => DataOf(s) = 3 .. Len(s.writes) - 1
  <2> SUFFICES ASSUME Filling(s) PROVE DataOf(s) = 3 .. Len(s.writes) - 1
    OBVIOUS
  <2> DEFINE n == Len(s.writes)
  <2>1. n \in Nat /\ n >= 4
    BY Geometry DEF Filling
  <2>2. Cmd(s, 1) # "data" /\ Cmd(s, 2) # "data" /\ Cmd(s, n) # "data"
        /\ \A i \in 3 .. n - 1 : Cmd(s, i) = "data"
    BY DEF Filling
  <2> HIDE DEF n
  <2>3. \A i \in 1 .. n : i \in 3 .. n - 1 \/ i = 1 \/ i = 2 \/ i = n
    BY <2>1
  <2>4. 3 .. n - 1 \subseteq 1 .. n
    BY <2>1
  <2> QED
    BY <2>2, <2>3, <2>4 DEF DataOf, n
<1> QED
  BY <1>1, <1>2, <1>3, ShapeOf DEF Openings

(* A step that gives no words, and erases and unlocks nothing, has achieved it. *)
LEMMA MadeNothing ==
  ASSUME NEW ch, NEW f, NEW s, Setting(s) \/ Plain(s)
  PROVE  Made(ch, f, s)
<1>1. Shaped(s)
  BY DEF Shaped
<1>2. First(s) \notin {"0x20", "0x40", "0xE8"} /\ ~(First(s) = "0x60" /\ Cmd(s, 2) = "0xD0")
  BY DEF Setting, Plain, First
<1>3. DataOf(s) = {}
  BY <1>1, <1>2, DataPlaces
<1> QED
  BY <1>2, <1>3 DEF Made, Opens, Wipes

(* A step is begun while the chip is ready. *)
LEMMA BeginOn ==
  ASSUME NEW ch, ch.cui.st = "ready", NEW f, NEW s, Len(s.writes) \in Nat
  PROVE  On(ch, f, s, 0)
<1>1. 0 \in 0 .. Len(s.writes)
  OBVIOUS
<1> QED
  BY <1>1 DEF On

(* A step is over. *)
LEMMA EndOn ==
  ASSUME NEW ch, NEW f, NEW s, Shaped(s), On(ch, f, s, Len(s.writes)),
         s.then \in {"programmed", "erased"} /\ StatusOf(ch, s) => ch.cui.st # "busy"
  PROVE  ch.cui.st = "ready" /\ Made(ch, f, s)
<1>1. CASE First(s) \notin Openings
  BY <1>1, ShapeOf, MadeNothing DEF On
<1>2. CASE First(s) = "0x60"
  <2>1. Len(s.writes) > 1
    BY <1>2, ShapeOf DEF Setting, Unlocking
  <2> QED
    BY <1>2, <2>1 DEF On
<1>3. CASE First(s) \in Openings \ {"0x60"}
  <2>1. Len(s.writes) > 1 /\ s.then \in {"programmed", "erased"} /\ Len(s.writes) \in Nat
    BY <1>3, LongSteps
  <2> QED
    BY <1>3, <2>1 DEF On
<1> QED
  BY <1>1, <1>2, <1>3

(* The first write of a step. *)
LEMMA FirstOn ==
  ASSUME ChipInv, chip.cui.st = "ready", NEW f, NEW s, Shaped(s), Len(s.writes) > 0,
         NEW c, c = AfterWrite(s.writes[1])
  PROVE  On(c, f, s, 1) /\ c.sr \subseteq chip.sr /\ (Cmd(s, 1) = "0x50" => c.sr = {})
<1> DEFINE w == s.writes[1]
<1>1. c = FirstWrite(w)
  BY DEF AfterWrite
<1>2. c.sr \subseteq chip.sr /\ (w.cmd = "0x50" => c.sr = {})
  BY <1>1 DEF FirstWrite, ChipInv, Chips
<1>3. /\ w.cmd \in Openings =>
           c.cui.st = w.cmd /\ (BankOf(w.addr) \in Bank => c.read[BankOf(w.addr)] = "status")
      /\ w.cmd \notin Openings => c.cui.st = "ready"
  BY AfterFirst
<1>4. First(s) = w.cmd /\ Len(s.writes) \in Nat /\ 1 \in 0 .. Len(s.writes)
  BY ShapeLength DEF First, Cmd
<1>5. First(s) \in Openings \ {"0x60"} => StatusOf(c, s) /\ Len(s.writes) # 1
  <2> SUFFICES ASSUME First(s) \in Openings \ {"0x60"} PROVE StatusOf(c, s) /\ Len(s.writes) # 1
    OBVIOUS
  <2>1. InOneBank(s) /\ Len(s.writes) # 1
    BY LongSteps
  <2>2. StatusOf(c, s)
    BY <1>3, <1>4, <2>1 DEF InOneBank, StatusOf
  <2> QED
    BY <2>1, <2>2
<1> QED
  BY <1>2, <1>3, <1>4, <1>5 DEF On, Cmd, Openings

(* The later writes of a setting. *)
LEMMA SettingOn ==
  ASSUME ChipInv, NEW f, NEW s, Setting(s), On(chip, f, s, 1), NEW c, c = AfterWrite(s.writes[2])
  PROVE  On(c, f, s, 2) /\ c.sr \subseteq chip.sr
<1> DEFINE w == s.writes[2]
<1>1. First(s) = "0x60" /\ w.cmd = "0x03" /\ Len(s.writes) = 2 /\ s.then = "next"
  BY DEF Setting, First, Cmd
<1>2. chip.cui.st = "0x60"
  BY <1>1 DEF On, Openings
<1>3. c = [chip EXCEPT !.cui = Ready, !.config = w.addr]
  BY <1>1, <1>2 DEF AfterWrite, LaterWrite
<1>4. c.cui.st = "ready" /\ c.sr = chip.sr
  BY <1>3 DEF ChipInv, Chips, Ready
<1>5. Made(c, f, s)
  BY MadeNothing
<1> QED
  BY <1>1, <1>4, <1>5 DEF On, Openings

(* The later writes that unlock a block. *)
LEMMA UnlockingOn ==
  ASSUME ChipInv, NEW f, NEW s, Unlocking(s), Sound(f, s), NEW k \in 1 .. 2, On(chip, f, s, k),
         NEW c, c = AfterWrite(s.writes[k + 1])
  PROVE  On(c, f, s, k + 1) /\ c.sr \subseteq chip.sr
<1>1. /\ First(s) = "0x60" /\ Cmd(s, 2) = "0xD0" /\ Cmd(s, 3) = "0x90"
      /\ Len(s.writes) = 3 /\ s.then = "unlocked" /\ DataOf(s) = {}
  BY DataPlaces DEF Unlocking, First, Shaped
<1>2. CASE k = 1
  <2> DEFINE w == s.writes[2]
  <2>1. chip.cui.st = "0x60" /\ w.cmd = "0xD0" /\ c = AfterWrite(w)
    BY <1>1, <1>2 DEF On, Openings, Cmd
  <2>2. c = [chip EXCEPT !.cui = Ready, !.locked = @ \ {BlockOf(w.addr)}]
    BY <2>1 DEF AfterWrite, LaterWrite
  <2>3. c.cui.st = "ready" /\ c.sr = chip.sr /\ BlockOf(w.addr) \notin c.locked
    BY <2>2 DEF ChipInv, Chips, Ready
  <2>4. Made(c, f, s)
    BY <1>1, <2>3 DEF Made, Opens, Wipes
  <2> QED
    BY <1>1, <1>2, <2>3, <2>4 DEF On, Openings
<1>3. CASE k = 2
  <2> DEFINE w == s.writes[3]
  <2>1. chip.cui.st = "ready" /\ Made(chip, f, s) /\ w.cmd = "0x90" /\ c = AfterWrite(w)
    BY <1>1, <1>3 DEF On, Openings, Cmd
  <2>2. c = [chip EXCEPT !.read[BankOf(w.addr)] = "id"]
    BY <2>1 DEF AfterWrite, FirstWrite
  <2>3. BankOf(w.addr) \in Bank /\ BankOf(w.addr) = BankOf(s.at[1])
    BY <1>1 DEF Sound
  <2>4. c.cui = chip.cui /\ c.sr = chip.sr /\ c.read[BankOf(s.at[1])] = "id"
    BY <2>2, <2>3 DEF ChipInv, Chips
  <2>5. Made(c, f, s)
    BY <2>1, WriteLocks, MadeKept
  <2> QED
    BY <1>1, <1>3, <2>1, <2>4, <2>5 DEF On, Openings
<1> QED
  BY <1>2, <1>3

(* An operation starts on an unlocked block. *)
LEMMA StartedOn ==
  ASSUME ChipInv, NEW a, BlockOf(a) \notin chip.locked, NEW op, NEW buf,
         NEW f, NEW s, Shaped(s), First(s) \in Openings \ {"0x60"}, StatusOf(chip, s),
         NEW c, c = StartOperation(a, op, buf), buf = Change(chip, f, s)
  PROVE  On(c, f, s, Len(s.writes)) /\ c.sr \subseteq chip.sr
<1>1. c = [chip EXCEPT !.cui = [st |-> "busy", left |-> 0, buf |-> buf]]
  BY DEF StartOperation, Locked
<1>2. /\ c.cui.st = "busy" /\ c.cui.buf = buf /\ c.sr = chip.sr /\ c.cells = chip.cells
      /\ StatusOf(c, s)
  BY <1>1 DEF ChipInv, Chips, StatusOf
<1>3. Change(c, f, s) = Change(chip, f, s)
  BY <1>2 DEF Change
<1>4. On(c, f, s, Len(s.writes))
  <2> DEFINE n == Len(s.writes)
  <2>1. n \in Nat /\ n > 1 /\ s.then # "unlocked"
    BY LongSteps
  <2>2. c.cui.st = "busy" /\ c.cui.buf = Change(c, f, s) /\ StatusOf(c, s)
    BY <1>2, <1>3
  <2>3. First(s) \in Openings /\ First(s) # "0x60"
    OBVIOUS
  <2> HIDE DEF n
  <2>4. n \in 0 .. n /\ n \notin 2 .. n - 1 /\ n # 0 /\ n # 1
    BY <2>1
  <2> QED
    BY <2>1, <2>2, <2>3, <2>4 DEF On, n
<1> QED
  BY <1>2, <1>4

(* The write that starts an erase. *)
LEMMA ErasingOn ==
  ASSUME ChipInv, NEW f, NEW s, Erasing(s), Accessible(chip, s), On(chip, f, s, 1),
         NEW c, c = AfterWrite(s.writes[2])
  PROVE  On(c, f, s, 2) /\ c.sr \subseteq chip.sr
<1> DEFINE w == s.writes[2]
           buf == {<<a, Ones>> : a \in CellsOf(BlockOf(w.addr))}
<1>1. First(s) = "0x20" /\ w.cmd = "0xD0" /\ Len(s.writes) = 2
  BY DEF Erasing, First, Cmd
<1>2. chip.cui.st = "0x20" /\ StatusOf(chip, s)
  BY <1>1 DEF On, Openings
<1>3. c = StartOperation(w.addr, "erase", buf)
  BY <1>1, <1>2 DEF AfterWrite, LaterWrite
<1>4. BlockOf(w.addr) \notin chip.locked /\ buf = Change(chip, f, s)
  BY <1>1 DEF Accessible, Change
<1> HIDE DEF w, buf
<1>5. Shaped(s) /\ First(s) \in Openings \ {"0x60"}
  BY <1>1 DEF Shaped, Openings
<1>6. On(c, f, s, Len(s.writes)) /\ c.sr \subseteq chip.sr
  BY <1>2, <1>3, <1>4, <1>5, StartedOn, Zenon
<1> QED
  BY <1>1, <1>6

(* What is programmed is the change that the words of a step mean. *)
LEMMA ProgrammedChange ==
  ASSUME NEW f, NEW s, Sound(f, s), First(s) # "0x20"
  PROVE  Programmed({<<s.writes[i].addr, s.writes[i].word>> : i \in DataOf(s)}) = Change(chip, f, s)
<1> DEFINE cell(a) == chip.cells[a]
           addr(i) == s.writes[i].addr
           word(i) == s.writes[i].word
           buf == {<<addr(i), word(i)>> : i \in DataOf(s)}
<1>1. \A i \in DataOf(s) : word(i) = Aim(f, addr(i))
  BY DEF Sound
<1>2. Change(chip, f, s) = {<<addr(i), cell(addr(i)) \cap Aim(f, addr(i))>> : i \in DataOf(s)}
  BY DEF Change
<1>3. Programmed(buf) = {<<p[1], cell(p[1]) \cap p[2]>> : p \in buf}
  BY DEF Programmed
<1> HIDE DEF cell, addr, word
<1>4. {<<p[1], cell(p[1]) \cap p[2]>> : p \in buf}
       = {<<addr(i), cell(addr(i)) \cap word(i)>> : i \in DataOf(s)}
  <2>1. \A i \in DataOf(s) : <<addr(i), word(i)>>[1] = addr(i) /\ <<addr(i), word(i)>>[2] = word(i)
    OBVIOUS
  <2> QED
    BY <2>1
<1>5. {<<addr(i), cell(addr(i)) \cap word(i)>> : i \in DataOf(s)}
       = {<<addr(i), cell(addr(i)) \cap Aim(f, addr(i))>> : i \in DataOf(s)}
  BY <1>1
<1> QED
  BY <1>2, <1>3, <1>4, <1>5 DEF addr, word

(* The write that gives a word. *)
LEMMA WordingOn ==
  ASSUME ChipInv, NEW f, NEW s, Wording(s), Sound(f, s), Accessible(chip, s), On(chip, f, s, 1),
         NEW c, c = AfterWrite(s.writes[2])
  PROVE  On(c, f, s, 2) /\ c.sr \subseteq chip.sr
<1> DEFINE w == s.writes[2]
           buf == Programmed({<<w.addr, w.word>>})
<1>1. First(s) = "0x40" /\ w.cmd = "data" /\ Len(s.writes) = 2
  BY DEF Wording, First, Cmd
<1>2. chip.cui.st = "0x40" /\ StatusOf(chip, s)
  BY <1>1 DEF On, Openings
<1>3. c = StartOperation(w.addr, "program", buf)
  BY <1>1, <1>2 DEF AfterWrite, LaterWrite
<1>4. DataOf(s) = {2}
  BY DataPlaces DEF Sound
<1>5. BlockOf(w.addr) \notin chip.locked
  BY <1>1, <1>4 DEF Accessible, Sound
<1>6. {<<w.addr, w.word>>} = {<<s.writes[i].addr, s.writes[i].word>> : i \in DataOf(s)}
  BY <1>4
<1>7. buf = Change(chip, f, s)
  BY <1>1, <1>6, ProgrammedChange
<1> HIDE DEF w, buf
<1>8. Shaped(s) /\ First(s) \in Openings \ {"0x60"}
  BY <1>1 DEF Shaped, Openings
<1>9. On(c, f, s, Len(s.writes)) /\ c.sr \subseteq chip.sr
  BY <1>2, <1>3, <1>5, <1>7, <1>8, StartedOn, Zenon
<1> QED
  BY <1>1, <1>9

(* The count, and the words of a buffer. *)
LEMMA LoadingOn ==
  ASSUME ChipInv, NEW f, NEW s, Filling(s), NEW k \in Nat, k > 0, k < Len(s.writes) - 1,
         On(chip, f, s, k), NEW c, c = AfterWrite(s.writes[k + 1])
  PROVE  On(c, f, s, k + 1) /\ c.sr \subseteq chip.sr
<1> DEFINE w == s.writes[k + 1]
           n == Len(s.writes)
           put(i) == <<s.writes[i].addr, s.writes[i].word>>
<1>1. /\ First(s) = "0xE8" /\ n \in Nat /\ n >= 4 /\ s.writes[2].cmd = "count"
      /\ s.writes[2].n = n - 4 /\ s.then # "unlocked"
  BY Geometry, SMTT(30) DEF Filling, First, Cmd
<1>7. k < n - 1
  OBVIOUS
<1> HIDE DEF n
<1>2. /\ StatusOf(chip, s) /\ chip.cui.left \in Int
      /\ k = 1 => chip.cui.st = "0xE8"
      /\ k > 1 => /\ chip.cui.st = "load" /\ chip.cui.left = n - 1 - k
                  /\ chip.cui.buf = FirstWords(s, k)
  <2>1. chip.cui.left \in Int
    BY DEF ChipInv, Chips
  <2>2. k > 1 => k \in 2 .. n - 1 /\ k # n - 1
    BY <1>1, <1>7
  <2>3. k # n - 1 /\ k # 0
    BY <1>1, <1>7
  <2> QED
    BY <1>1, <2>1, <2>2, <2>3 DEF On, Openings, n
<1>3. FirstWords(s, 2) = {} /\ (k > 1 => FirstWords(s, k + 1) = FirstWords(s, k) \cup {put(k + 1)})
  <2>1. FirstWords(s, 2) = {put(i) : i \in 3 .. 2} /\ FirstWords(s, k) = {put(i) : i \in 3 .. k}
        /\ FirstWords(s, k + 1) = {put(i) : i \in 3 .. k + 1}
    BY DEF FirstWords
  <2> HIDE DEF put
  <2>2. 3 .. 2 = {} /\ (k > 1 => 3 .. k + 1 = (3 .. k) \cup {k + 1})
    OBVIOUS
  <2> QED
    BY <2>1, <2>2
<1>4. /\ c.cui.st = IF k + 1 = n - 1 THEN "confirm" ELSE "load"
      /\ c.cui.left = n - 1 - (k + 1) /\ c.cui.buf = FirstWords(s, k + 1)
      /\ c.sr = chip.sr /\ c.read = chip.read
  <2>1. CASE k = 1
    <3>1. c = [chip EXCEPT !.cui = [st |-> "load", left |-> w.n + 1, buf |-> {}]]
      BY <1>1, <1>2, <2>1 DEF AfterWrite, LaterWrite
    <3>2. c.cui = [st |-> "load", left |-> n - 3, buf |-> {}] /\ c.sr = chip.sr /\ c.read = chip.read
      <4>1. w.n + 1 = n - 3
        BY <1>1, <2>1
      <4> QED
        BY <3>1, <4>1 DEF ChipInv, Chips
    <3>3. n - 3 = n - 1 - (k + 1) /\ k + 1 # n - 1 /\ k + 1 = 2
      BY <1>1, <2>1
    <3> QED
      BY <1>3, <3>2, <3>3
  <2>2. CASE k > 1
    <3>1. c = [chip EXCEPT !.cui = [st |-> IF chip.cui.left = 1 THEN "confirm" ELSE "load",
                               left |-> chip.cui.left - 1,
                               buf |-> chip.cui.buf \cup {<<w.addr, w.word>>}]]
      BY <1>2, <2>2 DEF AfterWrite, LaterWrite
    <3>2. /\ c.cui.st = IF chip.cui.left = 1 THEN "confirm" ELSE "load"
          /\ c.cui.left = chip.cui.left - 1 /\ c.cui.buf = chip.cui.buf \cup {put(k + 1)}
          /\ c.sr = chip.sr /\ c.read = chip.read
      BY <3>1 DEF ChipInv, Chips
    <3>3. (chip.cui.left = 1 <=> k + 1 = n - 1) /\ chip.cui.left - 1 = n - 1 - (k + 1)
      BY <1>1, <1>2, <2>2
    <3> QED
      BY <1>2, <1>3, <2>2, <3>2, <3>3
  <2> QED
    BY <2>1, <2>2
<1> HIDE DEF w, put
<1>5. k + 1 \in 0 .. n /\ k + 1 # 0 /\ k + 1 # 1 /\ k + 1 # n
  BY <1>1, <1>7
<1>6. StatusOf(c, s)
  BY <1>2, <1>4 DEF StatusOf
<1> QED
  BY <1>1, <1>4, <1>5, <1>6 DEF On, Openings, n

(* The write that starts to program a buffer. *)
LEMMA ConfirmOn ==
  ASSUME ChipInv, NEW f, NEW s, Filling(s), Sound(f, s), Accessible(chip, s),
         On(chip, f, s, Len(s.writes) - 1), NEW c, c = AfterWrite(s.writes[Len(s.writes)])
  PROVE  On(c, f, s, Len(s.writes)) /\ c.sr \subseteq chip.sr
<1> DEFINE n == Len(s.writes)
           w == s.writes[n]
           given == {<<s.writes[i].addr, s.writes[i].word>> : i \in DataOf(s)}
<1>1. First(s) = "0xE8" /\ n \in Nat /\ n >= 4 /\ w.cmd = "0xD0"
  BY Geometry, SMTT(30) DEF Filling, First, Cmd
<1>2. DataOf(s) = 3 .. n - 1
  BY DataPlaces DEF Sound
<1>3. chip.cui.st = "confirm" /\ chip.cui.buf = given /\ StatusOf(chip, s)
  <2>1. n - 1 \in 2 .. n - 1 /\ n - 1 > 0
    BY <1>1
  <2>2. chip.cui.buf = FirstWords(s, n - 1)
    BY <1>1, <2>1 DEF On
  <2> QED
    BY <1>1, <1>2, <2>1, <2>2 DEF On, FirstWords, Openings
<1>4. w.addr = s.writes[1].addr
  BY <1>1 DEF Sound
<1>5. BlockOf(w.addr) \notin chip.locked
  BY <1>1, <1>4 DEF Accessible
<1>6. \A p \in given : BlockOf(p[1]) = BlockOf(w.addr)
  <2>1. \A i \in DataOf(s) : BlockOf(s.writes[i].addr) = BlockOf(w.addr)
    BY <1>4 DEF Sound
  <2> QED
    BY <2>1
<1>7. c = StartOperation(w.addr, "program", Programmed(given))
  BY <1>1, <1>3, <1>6 DEF AfterWrite, LaterWrite
<1>8. Programmed(given) = Change(chip, f, s)
  BY <1>1, ProgrammedChange
<1> HIDE DEF n, w, given
<1>9. Shaped(s) /\ First(s) \in Openings \ {"0x60"}
  BY <1>1 DEF Shaped, Openings
<1> QED
  BY <1>3, <1>5, <1>7, <1>8, <1>9, StartedOn

(* Each write of a step brings the chip on. *)
LEMMA WriteOn ==
  ASSUME ChipInv, NEW f, NEW s, Sound(f, s), Accessible(chip, s), NEW k \in Nat, k < Len(s.writes),
         On(chip, f, s, k), NEW c, c = AfterWrite(s.writes[k + 1])
  PROVE  On(c, f, s, k + 1) /\ c.sr \subseteq chip.sr /\ (k = 0 /\ First(s) = "0x50" => c.sr = {})
<1> DEFINE n == Len(s.writes)
<1>1. Shaped(s) /\ n \in Nat /\ k < n
  BY ShapeLength DEF Sound
<1> HIDE DEF n
<1>2. CASE k = 0
  <2>1. chip.cui.st = "ready" /\ n > 0 /\ c = AfterWrite(s.writes[1])
    BY <1>1, <1>2 DEF On
  <2>2. First(s) = "0x50" => Cmd(s, 1) = "0x50"
    BY DEF First
  <2>3. On(c, f, s, 1) /\ c.sr \subseteq chip.sr /\ (Cmd(s, 1) = "0x50" => c.sr = {})
    BY <1>1, <2>1, FirstOn DEF n
  <2>4. k + 1 = 1
    BY <1>2
  <2> QED
    BY <2>2, <2>3, <2>4
<1>3. CASE k > 0
  <2>1. CASE Setting(s)
    <3>1. n = 2 /\ k = 1 /\ k + 1 = 2
      <4>1. n = 2
        BY <2>1 DEF Setting, n
      <4> QED
        BY <1>1, <1>3, <4>1
    <3> QED
      BY <1>3, <2>1, <3>1, SettingOn
  <2>2. CASE Unlocking(s)
    <3>1. k \in 1 .. 2
      <4>1. n = 3
        BY <2>2 DEF Unlocking, n
      <4> QED
        BY <1>1, <1>3, <4>1
    <3> QED
      BY <1>3, <2>2, <3>1, UnlockingOn
  <2>3. CASE Erasing(s) \/ Wording(s)
    <3>1. n = 2 /\ k = 1 /\ k + 1 = 2
      <4>1. n = 2
        BY <2>3 DEF Erasing, Wording, n
      <4> QED
        BY <1>1, <1>3, <4>1
    <3> QED
      BY <1>3, <2>3, <3>1, ErasingOn, WordingOn
  <2>4. CASE Filling(s)
    <3>1. k < n - 1 \/ (k = n - 1 /\ k + 1 = n)
      BY <1>1
    <3>2. CASE k < n - 1
      <4>1. On(c, f, s, k + 1) /\ c.sr \subseteq chip.sr
        BY <1>3, <2>4, <3>2, LoadingOn DEF n
      <4>2. k # 0
        BY <1>3
      <4> QED
        BY <4>1, <4>2, Zenon
    <3>3. CASE k = n - 1 /\ k + 1 = n
      <4>1. On(chip, f, s, n - 1) /\ c = AfterWrite(s.writes[n])
        BY <3>3
      <4>2. On(c, f, s, n) /\ c.sr \subseteq chip.sr
        BY <2>4, <4>1, ConfirmOn DEF n
      <4>3. k + 1 = n /\ k # 0
        BY <1>3, <3>3
      <4> QED
        BY <4>2, <4>3, Zenon
    <3> QED
      BY <3>1, <3>2, <3>3
  <2>5. CASE Plain(s)
    <3>1. n = 0 \/ n = 1
      BY <2>5 DEF Plain, n
    <3> QED
      BY <1>1, <1>3, <3>1
  <2> QED
    BY <1>1, <2>1, <2>2, <2>3, <2>4, <2>5 DEF Shaped
<1> QED
  BY <1>2, <1>3

(* The chip is busy only after the last write of a step. *)
LEMMA BusyOn ==
  ASSUME NEW ch, NEW f, NEW s, Shaped(s), NEW k, On(ch, f, s, k), ch.cui.st = "busy"
  PROVE  /\ k = Len(s.writes) /\ First(s) \in Openings \ {"0x60"}
         /\ ch.cui.buf = Change(ch, f, s)
<1> DEFINE n == Len(s.writes)
<1>1. n \in Nat /\ k \in 0 .. n
  BY ShapeLength DEF On
<1>2. First(s) \in Openings /\ k # 0
  BY DEF On
<1>3. k # 1
  BY <1>2 DEF On, Openings
<1> HIDE DEF n
<1>4. k > 1 /\ (k \in 2 .. n - 1 \/ k = n)
  BY <1>1, <1>2, <1>3
<1>5. First(s) # "0x60"
  BY <1>4 DEF On
<1>6. k = n
  <2>1. CASE First(s) = "0xE8"
    BY <1>4, <2>1 DEF On, n
  <2>2. CASE First(s) # "0xE8"
    <3>1. Erasing(s) \/ Wording(s)
      BY <1>2, <1>5, <2>2, ShapeOf DEF Openings
    <3>2. n = 2
      BY <3>1 DEF Erasing, Wording, n
    <3> QED
      BY <1>1, <1>4, <3>2
  <2> QED
    BY <2>1, <2>2
<1>7. ch.cui.buf = Change(ch, f, s)
  BY <1>2, <1>4, <1>5, <1>6 DEF On, n
<1> QED
  BY <1>2, <1>5, <1>6, <1>7 DEF n

(* What an address holds after the operation of a step. *)
LEMMA ChangedTo ==
  ASSUME NEW f, NEW s, Shaped(s), First(s) \in Openings \ {"0x60"}, NEW a \in Addr,
         NEW v, v = Changed(Change(chip, f, s))[a]
  PROVE  /\ First(s) = "0x20" /\ a \in CellsOf(BlockOf(s.writes[2].addr)) => v = Ones
         /\ First(s) = "0x20" /\ a \notin CellsOf(BlockOf(s.writes[2].addr)) => v = chip.cells[a]
         /\ First(s) # "0x20" /\ (\E i \in DataOf(s) : s.writes[i].addr = a) =>
              v = chip.cells[a] \cap Aim(f, a)
         /\ First(s) # "0x20" /\ ~(\E i \in DataOf(s) : s.writes[i].addr = a) => v = chip.cells[a]
<1> DEFINE buf == Change(chip, f, s)
           given == \E i \in DataOf(s) : s.writes[i].addr = a
           wiped == a \in CellsOf(BlockOf(s.writes[2].addr))
<1>1. Changed(buf)[a] = IF \E p \in buf : p[1] = a THEN (CHOOSE p \in buf : p[1] = a)[2]
                        ELSE chip.cells[a]
  BY DEF Changed
<1>2. ASSUME First(s) = "0x20"
      PROVE  /\ (\E p \in buf : p[1] = a) <=> wiped
             /\ \A p \in buf : p[2] = Ones
  <2> DEFINE wipe == CellsOf(BlockOf(s.writes[2].addr))
  <2>1. buf = {<<x, Ones>> : x \in wipe}
    BY <1>2 DEF Change
  <2> HIDE DEF wipe, buf
  <2>2. \A p \in buf : p[1] \in wipe /\ p[2] = Ones
    BY <2>1
  <2>3. \A x \in wipe : <<x, Ones>> \in buf /\ <<x, Ones>>[1] = x
    BY <2>1
  <2> QED
    BY <2>2, <2>3 DEF wipe
<1>3. ASSUME First(s) # "0x20"
      PROVE  /\ (\E p \in buf : p[1] = a) <=> given
             /\ \A p \in buf : p[1] = a => p[2] = chip.cells[a] \cap Aim(f, a)
  <2> DEFINE new(x) == chip.cells[x] \cap Aim(f, x)
             addr(i) == s.writes[i].addr
  <2>1. buf = {<<addr(i), new(addr(i))>> : i \in DataOf(s)}
    BY <1>3 DEF Change
  <2> HIDE DEF new, addr, buf
  <2>2. \A p \in buf : \E i \in DataOf(s) : p[1] = addr(i) /\ p[2] = new(addr(i))
    BY <2>1
  <2>3. \A i \in DataOf(s) : <<addr(i), new(addr(i))>> \in buf /\ <<addr(i), new(addr(i))>>[1] = addr(i)
    BY <2>1
  <2>4. (\E p \in buf : p[1] = a) <=> \E i \in DataOf(s) : addr(i) = a
    BY <2>2, <2>3
  <2>5. \A p \in buf : p[1] = a => p[2] = new(a)
    BY <2>2
  <2> QED
    BY <2>4, <2>5 DEF new, addr
<1> HIDE DEF buf, given, wiped
<1>4. (\E p \in buf : p[1] = a) =>
         (CHOOSE p \in buf : p[1] = a) \in buf /\ (CHOOSE p \in buf : p[1] = a)[1] = a
  OBVIOUS
<1>5. First(s) = "0x20" => Changed(buf)[a] = IF wiped THEN Ones ELSE chip.cells[a]
  BY <1>1, <1>2, <1>4
<1>6. First(s) # "0x20" =>
        Changed(buf)[a] = IF given THEN chip.cells[a] \cap Aim(f, a) ELSE chip.cells[a]
  BY <1>1, <1>3, <1>4
<1> QED
  BY <1>5, <1>6 DEF buf, given, wiped

(* What the file wants is a word. *)
LEMMA AimType ==
  ASSUME NEW f \in Files, NEW a \in Addr
  PROVE  Aim(f, a) \in Word
<1> DEFINE l == Len(ImageOf(f))
<1>1. /\ f \in Seq(Word) /\ SerialOf(f) \in Seq(Word) /\ Len(SerialOf(f)) = SerialWords
      /\ l \in Nat /\ Len(f) = l + SerialWords /\ a \in Nat /\ SerialWords \in Nat
  BY FileFacts, ImageAt, AddrNat, Geometry
<1>2. NumberBase \in Nat
  <2>1. SerialBank \in Nat /\ 0 \in 0 .. Blocks - 1 /\ 0 \in 0 .. BlockWords - 1
    BY Geometry
  <2> QED
    BY <2>1, BlockAtValue DEF NumberBase
<1> HIDE DEF l
<1>3. a < l => bit_swap(f[a + 1]) \in Word
  <2>1. a < l => a + 1 \in 1 .. Len(f)
    BY <1>1
  <2> QED
    BY <1>1, <2>1, SwapType
<1>4. a \in NumberBase .. NumberBase + SerialWords - 1 => SerialOf(f)[NumberBase + SerialWords - a] \in Word
  <2>1. a \in NumberBase .. NumberBase + SerialWords - 1 => NumberBase + SerialWords - a \in 1 .. SerialWords
    BY <1>1, <1>2
  <2> QED
    BY <1>1, <2>1
<1>5. {} \in Word
  BY DEF Word
<1> QED
  BY <1>3, <1>4, <1>5 DEF Aim, l

(* The cells of a block are in that block. *)
LEMMA InBlock ==
  ASSUME NEW q \in Nat, NEW a \in CellsOf(q)
  PROVE  BlockOf(a) = q
<1>1. BlockWords \in Nat \ {0}
  BY Geometry
<1>2. q * BlockWords \in Nat /\ (q + 1) * BlockWords = q * BlockWords + BlockWords
      /\ q * BlockWords = BlockWords * q
  BY <1>1
<1>3. a - BlockWords * q \in 0 .. BlockWords - 1 /\ a = BlockWords * q + (a - BlockWords * q)
  BY <1>1, <1>2 DEF CellsOf
<1> DEFINE r == a - BlockWords * q
<1>4. r \in 0 .. BlockWords - 1 /\ a = BlockWords * q + r
  BY <1>3
<1> HIDE DEF r
<1>5. (BlockWords * q + r) \div BlockWords = q
  BY <1>1, <1>4, DivOf
<1> QED
  BY <1>4, <1>5 DEF BlockOf

(* The end of an operation keeps what earlier steps have achieved. *)
LEMMA DoneKeeps ==
  ASSUME file \in Files, ChipInv,
         NEW s, Sound(file, s), First(s) \in Openings \ {"0x60"},
         NEW d, d.locked = chip.locked, d.cells = Changed(Change(chip, file, s)),
         NEW t, Sound(file, t), Made(chip, file, t),
         \A i \in DataOf(t) : ~Wipes(s, BlockOf(t.writes[i].addr))
  PROVE  Made(d, file, t)
<1> DEFINE blk == BlockOf(s.writes[2].addr)
<1>1. ASSUME NEW a \in Addr
      PROVE  /\ d.cells[a] \in {Ones, chip.cells[a], chip.cells[a] \cap Aim(file, a)}
             /\ d.cells[a] = Ones => Wipes(s, BlockOf(a)) \/ d.cells[a] = chip.cells[a]
                                      \/ d.cells[a] = chip.cells[a] \cap Aim(file, a)
  <2>1. CASE First(s) = "0x20"
    <3>1. /\ a \in CellsOf(blk) => d.cells[a] = Ones
          /\ a \notin CellsOf(blk) => d.cells[a] = chip.cells[a]
      <4>1. Shaped(s)
        BY DEF Sound
      <4> QED
        BY <2>1, <4>1, ChangedTo
    <3>2. blk \in Nat
      BY <2>1, BankOfBlock DEF Sound
    <3>3. a \in CellsOf(blk) => Wipes(s, BlockOf(a))
      BY <2>1, <3>2, InBlock DEF Wipes
    <3> QED
      BY <3>1, <3>3
  <2>2. CASE First(s) # "0x20"
    <3>1. d.cells[a] = chip.cells[a] \cap Aim(file, a) \/ d.cells[a] = chip.cells[a]
      <4>1. Shaped(s)
        BY DEF Sound
      <4> QED
        BY <2>2, <4>1, ChangedTo
    <3> QED
      BY <3>1
  <2> QED
    BY <2>1, <2>2
<1>2. \A b \in d.locked : ~Opens(t, b)
  BY DEF Made
<1>3. ASSUME NEW a \in Addr, Wipes(t, BlockOf(a)) PROVE Aim(file, a) \subseteq d.cells[a]
  <2>1. Aim(file, a) \subseteq chip.cells[a]
    BY <1>3 DEF Made
  <2>2. Aim(file, a) \subseteq Ones
    BY AimType DEF Word, Ones
  <2> QED
    BY <1>1, <2>1, <2>2
<1>4. ASSUME NEW i \in DataOf(t)
      PROVE  d.cells[t.writes[i].addr] = Aim(file, t.writes[i].addr)
  <2> DEFINE a == t.writes[i].addr
  <2>1. a \in Addr /\ chip.cells[a] = Aim(file, a) /\ ~Wipes(s, BlockOf(a))
    BY DEF Sound, Made
  <2> HIDE DEF a
  <2>2. d.cells[a] = chip.cells[a] \/ d.cells[a] = chip.cells[a] \cap Aim(file, a)
    BY <1>1, <2>1
  <2>3. chip.cells[a] \cap Aim(file, a) = Aim(file, a)
    BY <2>1
  <2> QED
    BY <2>1, <2>2, <2>3 DEF a
<1> QED
  BY <1>2, <1>3, <1>4 DEF Made

(* An operation that finds the bits it needs achieves what its step is for. *)
LEMMA DoneMakes ==
  ASSUME file \in Files, ChipInv,
         NEW s, Sound(file, s), First(s) \in Openings \ {"0x60"},
         NEW d, d.locked = chip.locked, d.cells = Changed(Change(chip, file, s)),
         \A i \in DataOf(s) : Aim(file, s.writes[i].addr) \subseteq chip.cells[s.writes[i].addr]
  PROVE  Made(d, file, s)
<1> DEFINE blk == BlockOf(s.writes[2].addr)
<1>1. \A b \in d.locked : ~Opens(s, b)
  BY DEF Opens
<1>2. ASSUME NEW a \in Addr, Wipes(s, BlockOf(a)) PROVE Aim(file, a) \subseteq d.cells[a]
  <2>1. First(s) = "0x20" /\ BlockOf(a) = blk
    BY <1>2 DEF Wipes
  <2>2. a \in CellsOf(blk)
    BY <2>1, AddrNat, BankOfBlock
  <2>3. d.cells[a] = Ones
    <3>1. Shaped(s)
      BY DEF Sound
    <3> QED
      BY <2>1, <2>2, <3>1, ChangedTo
  <2> QED
    BY <2>3, AimType DEF Word, Ones
<1>3. ASSUME NEW i \in DataOf(s)
      PROVE  d.cells[s.writes[i].addr] = Aim(file, s.writes[i].addr)
  <2> DEFINE a == s.writes[i].addr
  <2>1. a \in Addr /\ Aim(file, a) \subseteq chip.cells[a]
    BY DEF Sound
  <2>2. First(s) # "0x20"
    BY DataPlaces DEF Sound
  <2>3. \E j \in DataOf(s) : s.writes[j].addr = a
    OBVIOUS
  <2> HIDE DEF a
  <2>4. d.cells[a] = chip.cells[a] \cap Aim(file, a)
    <3>1. Shaped(s)
      BY DEF Sound
    <3> QED
      BY <2>1, <2>2, <2>3, <3>1, ChangedTo
  <2> QED
    BY <2>1, <2>4 DEF a
<1> QED
  BY <1>1, <1>2, <1>3 DEF Made

(* What the steps before and after step i have to do with it: the block that it *)
(* erases is unlocked, that it programs unlocked and erased, and not erased again. *)
Prepared(f, i) ==
  LET s == Isp(f)[i]
  IN /\ First(s) = "0x20" => \E h \in 1 .. i - 1 : Opens(Isp(f)[h], BlockOf(s.writes[2].addr))
     /\ First(s) \in {"0x40", "0xE8"} =>
          LET b == BlockOf(s.writes[1].addr)
          IN /\ \E h \in 1 .. i - 1 : Opens(Isp(f)[h], b)
             /\ \E h \in 1 .. i - 1 : Wipes(Isp(f)[h], b)
             /\ \A h \in i + 1 .. Len(Isp(f)) : ~Wipes(Isp(f)[h], b)

(* Every block of the banks of the image is unlocked, and erased. *)
LEMMA EveryBlock ==
  ASSUME NEW f \in Files, NEW b \in 0 .. Len(BanksOf(f)) - 1, NEW k \in 0 .. Blocks - 1
  PROVE  /\ \E i \in 3 .. Unlocked(f) : Isp(f)[i] = block_unlock(b, k)
         /\ \E i \in Unlocked(f) + 1 .. Erased(f) : Isp(f)[i] = block_erase(b, k)
<1> DEFINE banks == BanksOf(f)
           c == Len(banks)
           S == StepsTo(f)
           unlock == [x \in DOMAIN banks |-> bank_unlock(x - 1)]
           erase == [x \in DOMAIN banks |-> bank_erase(x - 1)]
<1>1. c \in Nat /\ c > 0 /\ DOMAIN banks = 1 .. c /\ b + 1 \in 1 .. c /\ b + 1 - 1 = b
  BY BanksFacts
<1>2. k + 1 \in 1 .. Blocks /\ k + 1 - 1 = k /\ Blocks \in Nat
  BY Geometry
<1>3. Unlocks(f) = FlattenSeq(unlock) /\ Erases(f) = FlattenSeq(erase)
  BY DEF Unlocks, Erases
<1>4. \A x \in 1 .. c : bank_unlock(x - 1) \in Seq(S) /\ bank_erase(x - 1) \in Seq(S)
  <2>1. \A x \in 1 .. c : x - 1 \in 0 .. Len(BanksOf(f)) - 1
    BY <1>1
  <2>2. 0 \in Nat
    OBVIOUS
  <2> QED
    BY <2>1, <2>2, BankSteps
<1> HIDE DEF banks, c, S
<1>5. /\ unlock \in Seq(Seq(S)) /\ erase \in Seq(Seq(S)) /\ Len(unlock) = c /\ Len(erase) = c
      /\ unlock[b + 1] = bank_unlock(b) /\ erase[b + 1] = bank_erase(b)
  BY <1>1, <1>4
<1> HIDE DEF unlock, erase
<1>6. /\ Len(bank_unlock(b)) = Blocks /\ bank_unlock(b)[k + 1] = block_unlock(b, k)
      /\ Len(bank_erase(b)) = Blocks /\ bank_erase(b)[k + 1] = block_erase(b, k)
  BY <1>2 DEF bank_unlock, bank_erase
<1>7. /\ Lies(Isp(f), Unlocks(f), 2) /\ Lies(Isp(f), Erases(f), Unlocked(f))
      /\ Len(Unlocks(f)) \in Nat /\ Len(Erases(f)) \in Nat /\ Unlocked(f) \in Nat
      /\ Unlocked(f) = 2 + Len(Unlocks(f)) /\ Erased(f) = Unlocked(f) + Len(Erases(f))
  <2>1. Lies(Isp(f), Unlocks(f), 2) /\ Lies(Isp(f), Erases(f), Unlocked(f))
    BY IspAt DEF IspParts
  <2>2. Len(Unlocks(f)) \in Nat /\ Len(Erases(f)) \in Nat
    BY PartKinds
  <2>3. Unlocked(f) = 2 + Len(Unlocks(f)) /\ Erased(f) = Unlocked(f) + Len(Erases(f))
    BY DEF Unlocked, Erased
  <2> QED
    BY <2>1, <2>2, <2>3
<1>8. \E i \in 3 .. Unlocked(f) : Isp(f)[i] = block_unlock(b, k)
  <2>1. PICK a \in Nat : Lies(Unlocks(f), unlock[b + 1], a)
    BY <1>1, <1>3, <1>5, FlattenHas
  <2>2. a + Blocks <= Len(Unlocks(f)) /\ Unlocks(f)[a + (k + 1)] = block_unlock(b, k)
    BY <1>2, <1>5, <1>6, <2>1 DEF Lies
  <2>3. a + (k + 1) \in 1 .. Len(Unlocks(f)) /\ 2 + (a + (k + 1)) \in 3 .. Unlocked(f)
    BY <1>2, <1>7, <2>2
  <2>4. Isp(f)[2 + (a + (k + 1))] = block_unlock(b, k)
    BY <1>7, <2>2, <2>3 DEF Lies
  <2> QED
    BY <2>3, <2>4
<1>9. \E i \in Unlocked(f) + 1 .. Erased(f) : Isp(f)[i] = block_erase(b, k)
  <2>1. PICK a \in Nat : Lies(Erases(f), erase[b + 1], a)
    BY <1>1, <1>3, <1>5, FlattenHas
  <2>2. a + Blocks <= Len(Erases(f)) /\ Erases(f)[a + (k + 1)] = block_erase(b, k)
    BY <1>2, <1>5, <1>6, <2>1 DEF Lies
  <2>3. /\ a + (k + 1) \in 1 .. Len(Erases(f))
        /\ Unlocked(f) + (a + (k + 1)) \in Unlocked(f) + 1 .. Erased(f)
    BY <1>2, <1>7, <2>2
  <2>4. Isp(f)[Unlocked(f) + (a + (k + 1))] = block_erase(b, k)
    BY <1>7, <2>2, <2>3 DEF Lies
  <2> QED
    BY <2>3, <2>4
<1> QED
  BY <1>8, <1>9

(* The block that a step unlocks or erases. *)
LEMMA BlockTargets ==
  ASSUME NEW f, NEW b \in Bank, NEW k \in 0 .. Blocks - 1
  PROVE  /\ Sound(f, block_unlock(b, k)) /\ Sound(f, block_erase(b, k))
         /\ Opens(block_unlock(b, k), b * Blocks + k)
         /\ First(block_erase(b, k)) = "0x20" /\ block_erase(b, k).writes[2].addr = BlockAt(b, k)
         /\ BlockOf(BlockAt(b, k)) = b * Blocks + k
         /\ Wipes(block_erase(b, k), b * Blocks + k)
         /\ \A q : Wipes(block_erase(b, k), q) => q = b * Blocks + k
<1> DEFINE s == block_unlock(b, k)
           t == block_erase(b, k)
<1>1. b \in Nat /\ 0 \in 0 .. BlockWords - 1 /\ 2 \in 0 .. BlockWords - 1 /\ 0 \in 0 .. Blocks - 1
  BY Geometry DEF Bank
<1>2. /\ BlockOf(BlockAt(b, k)) = b * Blocks + k /\ BankOf(BlockAt(b, k)) = b
      /\ BlockOf(BlockAt(b, k) + 2) = b * Blocks + k /\ BankOf(BlockAt(b, k) + 2) = b
      /\ BankOf(BlockAt(b, 0)) = b /\ BlockAt(b, k) \in Nat
  <2>1. BlockAt(b, k) + 0 = BlockAt(b, k) /\ BlockAt(b, 0) + 0 = BlockAt(b, 0) /\ BlockAt(b, k) \in Nat
    BY <1>1, BlockAtValue
  <2>2. BlockOf(BlockAt(b, k) + 0) = b * Blocks + k /\ BankOf(BlockAt(b, k) + 0) = b
    BY <1>1, BlockCount
  <2>3. BankOf(BlockAt(b, 0) + 0) = b
    BY <1>1, BlockCount
  <2>4. BlockOf(BlockAt(b, k) + 2) = b * Blocks + k /\ BankOf(BlockAt(b, k) + 2) = b
    BY <1>1, BlockCount
  <2> QED
    BY <2>1, <2>2, <2>3, <2>4
<1>3. Unlocking(s) /\ Erasing(t)
  BY BlockShapes
<1>4. /\ s.writes = <<Write(BlockAt(b, 0), "0x60"), Write(BlockAt(b, k), "0xD0"),
                      Write(BlockAt(b, 0), "0x90")>>
      /\ s.at = <<BlockAt(b, k) + 2>> /\ s.then = "unlocked"
      /\ t.writes = <<Write(BlockAt(b, 0), "0x20"), Write(BlockAt(b, k), "0xD0")>>
  BY DEF block_unlock, block_erase, Step
<1> HIDE DEF s, t
<1>5. /\ s.writes[2].addr = BlockAt(b, k) /\ s.writes[3].addr = BlockAt(b, 0)
      /\ s.at[1] = BlockAt(b, k) + 2 /\ First(s) = "0x60" /\ Cmd(s, 2) = "0xD0"
      /\ t.writes[2].addr = BlockAt(b, k) /\ First(t) = "0x20"
  <2>1. First(s) = "0x60" /\ Cmd(s, 2) = "0xD0" /\ First(t) = "0x20"
    BY <1>3 DEF Unlocking, Erasing, First
  <2> QED
    BY <1>4, <2>1 DEF Write
<1>6. DataOf(s) = {} /\ DataOf(t) = {} /\ Shaped(s) /\ Shaped(t)
  BY <1>3, <1>5, DataPlaces DEF Shaped
<1>7. t.then # "unlocked"
  BY <1>3 DEF Erasing
<1>8. Sound(f, s)
  BY <1>2, <1>5, <1>6 DEF Sound
<1>9. Sound(f, t)
  BY <1>2, <1>5, <1>6, <1>7 DEF Sound
<1>10. Opens(s, b * Blocks + k) /\ \A q : Wipes(t, q) <=> q = b * Blocks + k
  BY <1>2, <1>5 DEF Opens, Wipes
<1> QED
  BY <1>2, <1>5, <1>8, <1>9, <1>10 DEF s, t

(* Setting the chip up, and reading. *)
LEMMA PlainSound ==
  ASSUME NEW f, NEW s, Setting(s) \/ Plain(s)
  PROVE  Sound(f, s) /\ First(s) \notin {"0x20", "0x40", "0xE8"}
<1>1. Shaped(s)
  BY DEF Shaped
<1>2. First(s) \notin {"0x20", "0x40", "0xE8"}
  BY DEF Setting, Plain, First
<1>3. DataOf(s) = {}
  BY <1>1, <1>2, DataPlaces
<1>4. s.then # "unlocked"
  BY DEF Setting, Plain
<1> QED
  BY <1>1, <1>2, <1>3, <1>4 DEF Sound

(* The parts of an update, one after the other. *)
LEMMA IspRanges ==
  ASSUME NEW f \in Files, NEW i \in 1 .. Len(Isp(f))
  PROVE  \/ i = 1 \/ i = 2
         \/ i \in 3 .. Unlocked(f)
         \/ i \in Unlocked(f) + 1 .. Erased(f)
         \/ i \in Erased(f) + 1 .. Filled(f)
         \/ i \in Filled(f) + 1 .. Filled(f) + 4 + SerialWords
         \/ i \in Numbered(f) + 1 .. Verified(f) + 3
<1> DEFINE u == Unlocked(f)
           e == Erased(f)
           p == Filled(f)
           n == Numbered(f)
           v == Verified(f)
<1>1. /\ u \in Nat /\ e \in Nat /\ p \in Nat /\ n \in Nat /\ v \in Nat
      /\ n = p + 4 + SerialWords /\ i \in 1 .. v + 3
  BY IspPlaces
<1> HIDE DEF u, e, p, n, v
<1>2. \/ i = 1 \/ i = 2 \/ i \in 3 .. u \/ i \in u + 1 .. e \/ i \in e + 1 .. p
      \/ i \in p + 1 .. n \/ i \in n + 1 .. v + 3
  BY <1>1
<1> QED
  BY <1>1, <1>2 DEF u, e, p, n, v

(* The block of the serial numbers that an update writes. *)
NumberBlock == SerialBank * Blocks

WipesAt(f, i, q) == Wipes(Isp(f)[i], q)

(* The steps that erase: the banks of the image early, the number late. *)
LEMMA WipePlaces ==
  ASSUME NEW f \in Files, NEW i \in 1 .. Len(Isp(f)), NEW q, WipesAt(f, i, q)
  PROVE  /\ i \notin Unlocked(f) + 1 .. Erased(f) => i = Filled(f) + 4
         /\ i \notin Unlocked(f) + 1 .. Erased(f) => q = NumberBlock
<1> DEFINE s == Isp(f)
<1>1. IspSteps(f, s)
  BY IspContents
<1>2. /\ Setting(s[1]) /\ Plain(s[2])
      /\ \A j \in 3 .. Unlocked(f) : Unlocking(s[j])
      /\ \A j \in Erased(f) + 1 .. Filled(f) : Filling(s[j])
      /\ \A j \in Numbered(f) + 1 .. Verified(f) + 3 : Setting(s[j]) \/ Plain(s[j])
  BY IspKinds
<1>3. First(s[i]) = "0x20" /\ Wipes(s[i], q)
  BY DEF WipesAt, Wipes
<1>4. /\ \A x : Setting(x) \/ Plain(x) => First(x) # "0x20"
      /\ \A x : Unlocking(x) => First(x) # "0x20"
      /\ \A x : Filling(x) => First(x) # "0x20"
  <2>1. \A x : Setting(x) \/ Plain(x) => First(x) # "0x20"
    BY DEF Setting, Plain, First
  <2>2. \A x : Unlocking(x) => First(x) # "0x20"
    BY DEF Unlocking, First
  <2>3. \A x : Filling(x) => First(x) # "0x20"
    BY DEF Filling, First
  <2> QED
    BY <2>1, <2>2, <2>3
<1> HIDE DEF s
<1>5. CASE i \in Filled(f) + 1 .. Filled(f) + 4 + SerialWords
  <2> DEFINE p == Filled(f)
  <2>1. /\ s[p + 1] = set_config_register(AsyncMode) /\ s[p + 2] = clear_stats_regs
        /\ s[p + 3] = block_unlock(SerialBank, 0) /\ s[p + 4] = block_erase(SerialBank, 0)
        /\ \A j \in 1 .. SerialWords : s[p + 4 + j] = NumberWord(f, j)
    BY <1>1 DEF IspSteps
  <2>2. \/ i = p + 1 \/ i = p + 2 \/ i = p + 3 \/ i = p + 4
        \/ \E j \in 1 .. SerialWords : i = p + 4 + j
    BY <1>5, IspPlaces, Geometry, NumberPlaces
  <2>3. SerialBank \in Bank /\ 0 \in 0 .. Blocks - 1 /\ SerialBank * Blocks + 0 = SerialBank * Blocks
    BY Geometry DEF Bank
  <2>4. Unlocking(block_unlock(SerialBank, 0))
    BY <2>3, BlockShapes
  <2>5. Wipes(block_erase(SerialBank, 0), q) => q = SerialBank * Blocks
    BY <2>3, BlockTargets
  <2>6. \A j : First(NumberWord(f, j)) # "0x20"
    BY DEF NumberWord, word_program, Step, Write, First, Cmd
  <2> HIDE DEF p
  <2>7. i # p + 1 /\ i # p + 2 /\ i # p + 3 /\ ~(\E j \in 1 .. SerialWords : i = p + 4 + j)
    BY <1>3, <1>4, <2>1, <2>4, <2>6, PlainShapes
  <2>8. i = p + 4
    BY <2>2, <2>7
  <2>9. Wipes(s[p + 4], q)
    BY <1>3, <2>8
  <2> QED
    BY <2>1, <2>5, <2>8, <2>9 DEF p, NumberBlock
<1>6. i \in Unlocked(f) + 1 .. Erased(f) \/ i \in Filled(f) + 1 .. Filled(f) + 4 + SerialWords
  BY <1>2, <1>3, <1>4, IspRanges
<1> QED
  BY <1>5, <1>6

(* Once the banks of the image are erased nothing else but the number is. *)
LEMMA NotWiped ==
  ASSUME NEW f \in Files, NEW i \in 1 .. Len(Isp(f)), i \notin Unlocked(f) + 1 .. Erased(f),
         NEW t, t = Isp(f)[i], NEW q, q # NumberBlock \/ i # Filled(f) + 4
  PROVE  ~Wipes(t, q)
<1>1. ~WipesAt(f, i, q)
  BY WipePlaces
<1> QED
  BY <1>1 DEF WipesAt

(* Filling a buffer. *)
LEMMA FillSound ==
  ASSUME NEW f \in Files, NEW p \in Buffers(f), NEW s, s = buffer_program(p[1], p[2])
  PROVE  /\ Sound(f, s) /\ First(s) = "0xE8" /\ s.writes[1].addr = p[1]
         /\ p[1] \in Nat /\ p[1] < Len(ImageOf(f)) /\ BankOf(p[1]) < Len(BanksOf(f))
         /\ \A j \in 1 .. Len(p[2]) : 2 + j \in DataOf(s) /\ s.writes[2 + j].addr = p[1] + j - 1
<1> DEFINE a == p[1]
           words == p[2]
           n == Len(words)
           l == Len(ImageOf(f))
<1>1. /\ a \in Nat /\ words \in Seq(Word) /\ n \in 1 .. BufferWords /\ a + n <= l
      /\ BankOf(a) < Len(BanksOf(f))
      /\ \A j \in 1 .. n : words[j] = f[a + j] /\ BlockOf(a + j - 1) = BlockOf(a)
  BY DEF Buffers
<1>2. n \in Nat /\ n > 0 /\ l \in Nat
  BY <1>1, FileFacts, Geometry
<1> HIDE DEF a, words, l
<1>3. /\ Len(s.writes) = n + 3 /\ s.then = "programmed"
      /\ s.writes[1] = Write(a, "0xE8") /\ s.writes[n + 3] = Write(a, "0xD0")
      /\ \A i \in 1 .. n : s.writes[2 + i] = Data(a + i - 1, bit_swap(words[i]))
  BY <1>1, <1>2, FillWrites DEF a, words
<1>4. Filling(s)
  BY FillShape
<1> HIDE DEF n
<1>5. First(s) = "0xE8" /\ Shaped(s) /\ DataOf(s) = 3 .. n + 2
  <2>1. First(s) = "0xE8"
    BY <1>4, Geometry DEF Filling, First
  <2>2. Shaped(s)
    BY <1>4 DEF Shaped
  <2>3. DataOf(s) = 3 .. Len(s.writes) - 1
    BY <1>4, <2>2, DataPlaces
  <2>4. DataOf(s) = 3 .. (n + 3) - 1
    BY <1>3, <2>3
  <2>5. (n + 3) - 1 = n + 2
    BY <1>2
  <2> QED
    BY <2>1, <2>2, <2>4, <2>5
<1>6. s.writes[1].addr = a /\ s.writes[Len(s.writes)].addr = a
  BY <1>3 DEF Write
<1>7. ASSUME NEW j \in 1 .. n
      PROVE  /\ 2 + j \in DataOf(s) /\ s.writes[2 + j].addr = a + j - 1
             /\ s.writes[2 + j].word = Aim(f, a + j - 1)
             /\ a + j - 1 \in Addr /\ BlockOf(a + j - 1) = BlockOf(a)
  <2>1. 2 + j \in DataOf(s)
    BY <1>2, <1>5
  <2>2. s.writes[2 + j].addr = a + j - 1 /\ s.writes[2 + j].word = bit_swap(words[j])
    <3>1. \A x, w : Data(x, w).addr = x /\ Data(x, w).word = w
      BY DEF Data
    <3> QED
      BY <1>3, <3>1
  <2>3. a + j - 1 \in Nat /\ a + j - 1 < l /\ (a + j - 1) + 1 = a + j
    BY <1>1, <1>2
  <2>4. Aim(f, a + j - 1) = bit_swap(words[j])
    BY <1>1, <2>3 DEF Aim, l
  <2>5. a + j - 1 \in Addr
    <3>1. l <= BankWords * (SerialBank + 1) /\ BankWords * (SerialBank + 1) \in Nat
      BY BanksFit, Geometry DEF l
    <3> DEFINE top == BankWords * (SerialBank + 1)
    <3> HIDE DEF top
    <3>2. a + j - 1 \in 0 .. top - 1
      BY <1>2, <2>3, <3>1 DEF top
    <3> QED
      BY <3>2 DEF Addr, top
  <2> QED
    BY <1>1, <2>1, <2>2, <2>4, <2>5
<1>8. ASSUME NEW i \in DataOf(s)
      PROVE  /\ s.writes[i].addr \in Addr /\ s.writes[i].word = Aim(f, s.writes[i].addr)
             /\ BlockOf(s.writes[i].addr) = BlockOf(a)
  <2>1. i - 2 \in 1 .. n /\ 2 + (i - 2) = i
    BY <1>2, <1>5
  <2> QED
    BY <1>7, <2>1
<1>9. Sound(f, s)
  BY <1>3, <1>5, <1>6, <1>8 DEF Sound
<1>10. a < l
  BY <1>1, <1>2
<1> QED
  BY <1>1, <1>5, <1>6, <1>7, <1>9, <1>10 DEF a, words, n, l

(* Where the number goes: behind the image, in the first block of the last bank. *)
LEMMA NumberAt ==
  ASSUME NEW f \in Files, Small(f), NEW x \in 0 .. SerialWords - 1
  PROVE  /\ NumberBase \in Nat /\ NumberBase + x \in Nat /\ NumberBase + x \in Addr
         /\ BlockOf(NumberBase + x) = SerialBank * Blocks /\ BankOf(NumberBase + x) = SerialBank
         /\ ~(NumberBase + x < Len(ImageOf(f)))
<1>1. x \in 0 .. BlockWords - 1 /\ SerialBank \in Nat /\ 0 \in 0 .. Blocks - 1 /\ x \in Nat
  BY Geometry
<1> DEFINE r == 0 * BlockWords + x
<1>2. /\ r \in 0 .. BankWords - 1 /\ NumberBase + x = SerialBank * BankWords + r
      /\ NumberBase \in Nat /\ NumberBase + x \in Nat
  BY <1>1, BlockAtValue DEF NumberBase
<1>3. BlockOf(NumberBase + x) = SerialBank * Blocks + 0 /\ BankOf(NumberBase + x) = SerialBank
  BY <1>1, BlockCount DEF NumberBase
<1>4. SerialBank * Blocks + 0 = SerialBank * Blocks
  BY Geometry
<1> HIDE DEF r
<1>5. NumberBase + x \in Addr
  <2> DEFINE top == BankWords * (SerialBank + 1)
  <2>1. top = SerialBank * BankWords + BankWords /\ SerialBank * BankWords \in Nat
    BY Geometry
  <2> HIDE DEF top
  <2>2. NumberBase + x \in 0 .. top - 1
    BY <1>2, <2>1, Geometry
  <2> QED
    BY <2>2 DEF Addr, top
<1>6. ~(NumberBase + x < Len(ImageOf(f)))
  <2> DEFINE l == Len(ImageOf(f))
             m == SerialBank * BankWords
  <2>1. l \in Nat /\ m \in Nat /\ l <= m
    BY FileFacts, Geometry DEF Small
  <2>2. NumberBase + x = m + r /\ r \in Nat
    BY <1>2, Geometry
  <2> HIDE DEF l, m
  <2>3. ~(NumberBase + x < l)
    BY <2>1, <2>2
  <2> QED
    BY <2>3 DEF l
<1> QED
  BY <1>2, <1>3, <1>4, <1>5, <1>6

(* Programming a word of the number. *)
LEMMA WordSound ==
  ASSUME NEW f \in Files, Small(f), NEW i \in 1 .. SerialWords, NEW s, s = NumberWord(f, i)
  PROVE  /\ Sound(f, s) /\ First(s) = "0x40" /\ BlockOf(s.writes[1].addr) = SerialBank * Blocks
         /\ 2 \in DataOf(s) /\ s.writes[2].addr = NumberBase + (i - 1)
<1> DEFINE a == NumberBase + (i - 1)
           w == SerialOf(f)[SerialWords + 1 - i]
<1>1. /\ a \in Addr /\ BlockOf(a) = SerialBank * Blocks /\ BankOf(a) \in Bank
      /\ a = BlockAt(SerialBank, 0) + i - 1 /\ Aim(f, a) = w
  <2> DEFINE x == i - 1
  <2>1. x \in 0 .. SerialWords - 1 /\ SerialWords \in Nat
    BY Geometry
  <2>2. /\ NumberBase \in Nat /\ NumberBase + x \in Addr
        /\ BlockOf(NumberBase + x) = SerialBank * Blocks /\ BankOf(NumberBase + x) = SerialBank
        /\ ~(NumberBase + x < Len(ImageOf(f)))
    BY <2>1, NumberAt
  <2>3. SerialBank \in Bank
    BY Geometry DEF Bank
  <2>4. NumberBase + (i - 1) = NumberBase + i - 1
    BY <2>1, <2>2
  <2>5. /\ NumberBase + x \in NumberBase .. NumberBase + SerialWords - 1
        /\ NumberBase + SerialWords - (NumberBase + x) = SerialWords + 1 - i
    BY <2>1, <2>2
  <2>6. Aim(f, NumberBase + x) = SerialOf(f)[NumberBase + SerialWords - (NumberBase + x)]
    BY <2>2, <2>5 DEF Aim
  <2> QED
    BY <2>2, <2>3, <2>4, <2>5, <2>6 DEF NumberBase
<1>2. s = word_program(a, w)
  BY <1>1 DEF NumberWord
<1> HIDE DEF a, w
<1>3. Wording(s)
  BY <1>1, <1>2, WordShape
<1>4. s.writes[1].addr = a /\ s.writes[2].addr = a /\ s.writes[2].word = w
  BY <1>2 DEF word_program, Step, Write, Data
<1>5. First(s) = "0x40" /\ s.then = "programmed" /\ Shaped(s)
  BY <1>3 DEF Wording, First, Shaped
<1>6. DataOf(s) = {2}
  BY <1>3, <1>5, DataPlaces
<1>7. Sound(f, s)
  BY <1>1, <1>4, <1>5, <1>6 DEF Sound
<1> QED
  BY <1>1, <1>4, <1>5, <1>6, <1>7 DEF a

(* A block that an address of the image is in, counted from its bank. *)
LEMMA BlockIn ==
  ASSUME NEW a \in Nat
  PROVE  \E k \in 0 .. Blocks - 1 : BlockOf(a) = BankOf(a) * Blocks + k
<1> DEFINE q == BlockOf(a)
           b == BankOf(a)
<1>1. q \in Nat /\ b = q \div Blocks /\ Blocks \in Nat \ {0}
  BY BankOfBlock, Geometry
<1> HIDE DEF q, b
<1>2. q = Blocks * b + (q % Blocks)
  BY <1>1
<1>3. q % Blocks \in 0 .. Blocks - 1 /\ b \in Nat
  BY <1>1
<1>4. Blocks * b = b * Blocks
  BY <1>1, <1>3
<1> QED
  BY <1>2, <1>3, <1>4 DEF q, b

(* Every step of an update whose image leaves the last bank alone fits the file, *)
(* and finds the block it works on as it needs it.                               *)
LEMMA IspPrepared ==
  ASSUME NEW f \in Files, Small(f), NEW i \in 1 .. Len(Isp(f))
  PROVE  Sound(f, Isp(f)[i]) /\ Prepared(f, i)
<1> DEFINE s == Isp(f)
           c == Len(BanksOf(f))
           len == Len(Isp(f))
           p == Filled(f)
<1>1. IspSteps(f, s)
  BY IspContents
<1>2. /\ Unlocked(f) \in Nat /\ Erased(f) \in Nat /\ Erased(f) >= Unlocked(f) /\ p \in Nat
      /\ p > Erased(f) /\ len \in Nat /\ len >= p + 4 + SerialWords
      /\ c \in Nat /\ c <= SerialBank + 1 /\ SerialWords \in Nat /\ i \in 1 .. len
      /\ Unlocked(f) >= 2
  <2>1. /\ Unlocked(f) \in Nat /\ Unlocked(f) >= 2 + Blocks
        /\ Erased(f) \in Nat /\ Erased(f) >= Unlocked(f) + Blocks
        /\ p \in Nat /\ p > Erased(f)
        /\ Numbered(f) \in Nat /\ Numbered(f) = p + 4 + SerialWords
        /\ Verified(f) \in Nat /\ Verified(f) = Numbered(f) + c + 6
        /\ c \in Nat /\ len = Verified(f) + 3
    BY IspPlaces
  <2>2. c <= SerialBank + 1 /\ i \in 1 .. len
    BY BanksFit
  <2>3. SerialWords \in Nat /\ Blocks \in Nat
    BY Geometry
  <2> HIDE DEF p, c, len
  <2> QED
    BY <2>1, <2>2, <2>3
<1>3. \A b \in 0 .. c - 1 : b \in Bank /\ b \in Nat
  BY <1>2, Geometry DEF Bank
<1>4. Plain(s[2]) /\ Setting(s[1]) /\ \A j \in Numbered(f) + 1 .. Verified(f) + 3 : Setting(s[j]) \/ Plain(s[j])
  BY IspKinds
<1>5. ASSUME Setting(s[i]) \/ Plain(s[i]) PROVE Sound(f, s[i]) /\ Prepared(f, i)
  BY <1>5, PlainSound DEF Prepared
<1> HIDE DEF s, c, len, p
<1>6. CASE i \in 3 .. Unlocked(f)
  <2>1. PICK b \in 0 .. c - 1, k \in 0 .. Blocks - 1 : s[i] = block_unlock(b, k)
    BY <1>1, <1>6 DEF IspSteps, UnlockSteps, c
  <2>2. Sound(f, s[i]) /\ Unlocking(s[i])
    BY <1>3, <2>1, BlockTargets, BlockShapes
  <2>3. First(s[i]) = "0x60"
    BY <2>2 DEF Unlocking, First
  <2> QED
    BY <2>2, <2>3 DEF Prepared, s
<1>7. CASE i \in Unlocked(f) + 1 .. Erased(f)
  <2>1. PICK b \in 0 .. c - 1, k \in 0 .. Blocks - 1 : s[i] = block_erase(b, k)
    BY <1>1, <1>7 DEF IspSteps, EraseSteps, c
  <2>2. /\ Sound(f, s[i]) /\ First(s[i]) = "0x20"
        /\ BlockOf(s[i].writes[2].addr) = b * Blocks + k
        /\ Opens(block_unlock(b, k), b * Blocks + k)
    BY <1>3, <2>1, BlockTargets
  <2>3. PICK h \in 3 .. Unlocked(f) : s[h] = block_unlock(b, k)
    BY EveryBlock DEF s, c
  <2>4. h \in 1 .. i - 1
    BY <1>2, <1>7
  <2> QED
    BY <2>2, <2>3, <2>4 DEF Prepared, s
<1>8. CASE i \in Erased(f) + 1 .. p
  <2>1. PICK q \in Buffers(f) : s[i] = buffer_program(q[1], q[2])
    BY <1>1, <1>8 DEF IspSteps, BufferFills, p
  <2>2. /\ Sound(f, s[i]) /\ First(s[i]) = "0xE8" /\ s[i].writes[1].addr = q[1]
        /\ q[1] \in Nat /\ q[1] < Len(ImageOf(f)) /\ BankOf(q[1]) < c
    BY <2>1, FillSound DEF c
  <2> DEFINE a == q[1]
             b == BankOf(a)
             blk == BlockOf(a)
  <2>3. b \in 0 .. c - 1 /\ blk \in Nat
    <3>1. BankOf(a) = BlockOf(a) \div Blocks /\ BlockOf(a) \in Nat
      BY <2>2, BankOfBlock
    <3>2. b \in Nat
      BY <3>1, Geometry
    <3> QED
      BY <1>2, <2>2, <3>1, <3>2
  <2>4. PICK k \in 0 .. Blocks - 1 : blk = b * Blocks + k
    BY <2>2, BlockIn
  <2> HIDE DEF a, b, blk
  <2>5. PICK h \in 3 .. Unlocked(f) : s[h] = block_unlock(b, k)
    BY <2>3, EveryBlock DEF s, c
  <2>6. PICK g \in Unlocked(f) + 1 .. Erased(f) : s[g] = block_erase(b, k)
    BY <2>3, EveryBlock DEF s, c
  <2>7. Opens(s[h], blk) /\ Wipes(s[g], blk)
    BY <1>3, <2>3, <2>4, <2>5, <2>6, BlockTargets
  <2>8. h \in 1 .. i - 1 /\ g \in 1 .. i - 1
    BY <1>2, <1>8
  <2>9. blk # NumberBlock
    <3>1. b < SerialBank
      <4> DEFINE m == SerialBank * BankWords
      <4>1. a \in Nat /\ a < m
        <5>1. Len(ImageOf(f)) <= m
          BY DEF Small
        <5>2. a \in Nat /\ a < Len(ImageOf(f)) /\ Len(ImageOf(f)) \in Nat
          BY <2>2, FileFacts DEF a
        <5>3. m \in Nat
          BY Geometry
        <5> HIDE DEF m
        <5> QED
          BY <5>1, <5>2, <5>3
      <4>2. a \div BankWords < SerialBank
        <5>1. BankWords \in Nat \ {0} /\ SerialBank \in Nat
          BY Geometry
        <5>2. a = BankWords * (a \div BankWords) + (a % BankWords)
              /\ a % BankWords \in 0 .. BankWords - 1 /\ a \div BankWords \in Nat
          BY <4>1, <5>1
        <5> DEFINE d == a \div BankWords
        <5>3. d \in Nat /\ BankWords * d <= a
          BY <4>1, <5>1, <5>2
        <5> HIDE DEF d
        <5>4. d >= SerialBank => BankWords * d >= BankWords * SerialBank
          BY <5>1, <5>3
        <5>5. BankWords * SerialBank = SerialBank * BankWords
          BY <5>1
        <5>6. ~(d >= SerialBank)
          BY <4>1, <5>1, <5>3, <5>4, <5>5
        <5> QED
          BY <5>1, <5>3, <5>6 DEF d
      <4> QED
        BY <4>2 DEF BankOf, b
    <3>2. b * Blocks + k < SerialBank * Blocks
      <4>1. b \in Nat /\ b + 1 <= SerialBank /\ SerialBank \in Nat /\ Blocks \in Nat
        BY <1>2, <2>3, <3>1, Geometry
      <4>2. (b + 1) * Blocks <= SerialBank * Blocks /\ (b + 1) * Blocks = b * Blocks + Blocks
            /\ b * Blocks \in Nat /\ SerialBank * Blocks \in Nat
        BY <4>1
      <4> QED
        BY <4>1, <4>2
    <3> QED
      BY <2>4, <3>2, <2>3, Geometry, SMTT(25) DEF NumberBlock
  <2>10. ASSUME NEW j \in i + 1 .. len PROVE ~Wipes(s[j], blk)
    <3>1. j \in 1 .. Len(Isp(f)) /\ ~(j \in Unlocked(f) + 1 .. Erased(f))
      BY <1>2, <1>8, SMTT(25) DEF len
    <3> QED
      BY <2>9, <3>1, NotWiped DEF s
  <2> QED
    BY <2>2, <2>7, <2>8, <2>10 DEF Prepared, s, len, blk, a
<1>9. CASE i \in p + 1 .. p + 4 + SerialWords
  <2>1. /\ s[p + 1] = set_config_register(AsyncMode) /\ s[p + 2] = clear_stats_regs
        /\ s[p + 3] = block_unlock(SerialBank, 0) /\ s[p + 4] = block_erase(SerialBank, 0)
        /\ \A j \in 1 .. SerialWords : s[p + 4 + j] = NumberWord(f, j)
    BY <1>1 DEF IspSteps, p
  <2>2. SerialBank \in Bank /\ 0 \in 0 .. Blocks - 1 /\ SerialBank * Blocks + 0 = SerialBank * Blocks
    BY Geometry DEF Bank
  <2> DEFINE blk == SerialBank * Blocks
  <2>3. /\ Sound(f, s[p + 3]) /\ Sound(f, s[p + 4]) /\ First(s[p + 4]) = "0x20"
        /\ BlockOf(s[p + 4].writes[2].addr) = blk
        /\ Opens(s[p + 3], blk) /\ Wipes(s[p + 4], blk)
    <3>1. /\ Sound(f, block_unlock(SerialBank, 0)) /\ Sound(f, block_erase(SerialBank, 0))
          /\ First(block_erase(SerialBank, 0)) = "0x20"
          /\ BlockOf(block_erase(SerialBank, 0).writes[2].addr) = SerialBank * Blocks + 0
          /\ Opens(block_unlock(SerialBank, 0), SerialBank * Blocks + 0)
          /\ Wipes(block_erase(SerialBank, 0), SerialBank * Blocks + 0)
      BY <2>2, BlockTargets
    <3> QED
      BY <2>1, <2>2, <3>1
  <2>4. First(s[p + 3]) = "0x60"
    BY <2>3 DEF Opens
  <2> HIDE DEF blk
  <2>5. \/ i = p + 1 \/ i = p + 2 \/ i = p + 3 \/ i = p + 4
        \/ \E j \in 1 .. SerialWords : i = p + 4 + j
    BY <1>2, <1>9, NumberPlaces
  <2>6. CASE i = p + 1 \/ i = p + 2
    BY <1>5, <2>1, <2>6, PlainShapes DEF s
  <2>7. CASE i = p + 3
    BY <2>3, <2>4, <2>7 DEF Prepared, s
  <2>8. CASE i = p + 4
    <3>1. p + 3 \in 1 .. i - 1
      BY <1>2, <2>8
    <3> QED
      BY <2>3, <2>8, <3>1 DEF Prepared, s
  <2>9. CASE \E j \in 1 .. SerialWords : i = p + 4 + j
    <3>1. PICK j \in 1 .. SerialWords : i = p + 4 + j
      BY <2>9
    <3>2. /\ Sound(f, s[i]) /\ First(s[i]) = "0x40" /\ BlockOf(s[i].writes[1].addr) = blk
      BY <2>1, <3>1, WordSound DEF blk
    <3>3. p + 3 \in 1 .. i - 1 /\ p + 4 \in 1 .. i - 1
      BY <1>2, <3>1
    <3>4. ASSUME NEW h \in i + 1 .. len PROVE ~Wipes(s[h], blk)
      <4>1. h \in Nat /\ h > i /\ h <= len /\ i > p + 4
        BY <1>2, <3>1, SMTT(25)
      <4>2. h \in 1 .. len /\ h > Erased(f) /\ h # p + 4
        BY <1>2, <4>1, SMTT(25)
      <4>3. ~(h \in Unlocked(f) + 1 .. Erased(f))
        BY <1>2, <4>2
      <4> QED
        BY <4>2, <4>3, NotWiped DEF s, len, p
    <3> QED
      BY <2>3, <3>2, <3>3, <3>4 DEF Prepared, s, len
  <2> QED
    BY <2>5, <2>6, <2>7, <2>8, <2>9
<1>10. CASE i = 1 \/ i = 2 \/ i \in Numbered(f) + 1 .. Verified(f) + 3
  BY <1>4, <1>5, <1>10 DEF s
<1> QED
  BY <1>6, <1>7, <1>8, <1>9, <1>10, IspRanges DEF p, s

(* What an update that met no failure has achieved, and where the chip is. *)
Done(ch, f, pc) == \A i \in 1 .. pc - 1 : Made(ch, f, Isp(f)[i])
Success(ch, f, r) ==
  /\ On(ch, f, Isp(f)[r.pc], r.k)
  /\ Done(ch, f, r.pc)
  /\ r.pc > 2 \/ (r.pc = 2 /\ r.k = 1) => ch.sr = {}
Unhurt == run.tool = "isp" /\ ~disturbed /\ Small(file)
SuccessInv == UpdateInv /\ FailsOnlyByFault /\ (Unhurt => Success(chip, file, run))

(* A step finds unlocked what it erases or programs. *)
LEMMA DoneOpens ==
  ASSUME NEW f \in Files, Small(f), NEW i \in 1 .. Len(Isp(f)), NEW ch, Done(ch, f, i)
  PROVE  Accessible(ch, Isp(f)[i])
<1> DEFINE s == Isp(f)[i]
<1>1. ASSUME NEW b, \E h \in 1 .. i - 1 : Opens(Isp(f)[h], b)
      PROVE  b \notin ch.locked
  <2>1. PICK h \in 1 .. i - 1 : Opens(Isp(f)[h], b)
    BY <1>1
  <2>2. Made(ch, f, Isp(f)[h])
    BY DEF Done
  <2> QED
    BY <2>1, <2>2 DEF Made
<1>2. /\ First(s) = "0x20" => \E h \in 1 .. i - 1 : Opens(Isp(f)[h], BlockOf(s.writes[2].addr))
      /\ First(s) \in {"0x40", "0xE8"} =>
           \E h \in 1 .. i - 1 : Opens(Isp(f)[h], BlockOf(s.writes[1].addr))
  BY IspPrepared DEF Prepared
<1> HIDE DEF s
<1>3. Accessible(ch, s)
  BY <1>1, <1>2 DEF Accessible
<1> QED
  BY <1>3 DEF s

(* A write keeps an update successful. *)
LEMMA SuccessWrite ==
  ASSUME UpdateInv, Unhurt, Success(chip, file, run), FlashWrite
  PROVE  Success(chip', file, run')
<1> DEFINE s == Now
           k == run.k
           w == s.writes[k + 1]
<1>1. /\ file \in Files /\ run.pc \in 1 .. Len(Isp(file)) /\ k \in Nat
      /\ s = Isp(file)[run.pc] /\ Shaped(s) /\ ChipInv /\ RunInv
  BY NowIsp DEF UpdateInv, Unhurt, FlashInv
<1>2. /\ k < Len(s.writes) /\ chip' = AfterWrite(w)
      /\ run' = [run EXCEPT !.k = IF w.cmd = "0xE8" /\ Busy THEN 0 ELSE @ + 1]
  BY DEF FlashWrite
<1>3. On(chip, file, s, k) /\ Done(chip, file, run.pc)
  BY <1>1 DEF Success
<1>4. Sound(file, s) /\ Accessible(chip, s)
  BY <1>1, <1>3, IspPrepared, DoneOpens DEF Unhurt
<1>5. ~(w.cmd = "0xE8" /\ Busy)
  <2>1. k > 0 => Cmd(s, k + 1) \notin Openings
    BY <1>1, <1>2, ShapeWrites
  <2>2. k = 0 => chip.cui.st = "ready"
    BY <1>3 DEF On
  <2> QED
    BY <1>1, <2>1, <2>2 DEF Cmd, Openings, Busy
<1>6. run'.k = k + 1 /\ run'.pc = run.pc
  BY <1>1, <1>2, <1>5 DEF RunInv
<1> HIDE DEF s, k, w
<1>7. On(chip', file, s, k + 1) /\ chip'.sr \subseteq chip.sr
      /\ (k = 0 /\ First(s) = "0x50" => chip'.sr = {})
  BY <1>1, <1>2, <1>3, <1>4, WriteOn DEF w
<1>8. Done(chip', file, run.pc)
  <2>1. chip'.cells = chip.cells /\ chip'.locked \subseteq chip.locked
    BY <1>1, <1>2, WriteLocks
  <2>2. ASSUME NEW i \in 1 .. run.pc - 1 PROVE Made(chip', file, Isp(file)[i])
    <3>1. Made(chip, file, Isp(file)[i])
      BY <1>3 DEF Done
    <3> QED
      BY <2>1, <3>1, MadeKept
  <2> QED
    BY <2>2 DEF Done
<1>9. run.pc > 2 \/ (run.pc = 2 /\ k + 1 = 1) => chip'.sr = {}
  <2>1. run.pc > 2 => chip.sr = {}
    BY DEF Success
  <2>2. run.pc = 2 => First(s) = "0x50"
    <3>1. Isp(file)[2] = clear_stats_regs
      BY <1>1, IspContents DEF IspSteps
    <3>2. First(clear_stats_regs) = "0x50"
      BY DEF clear_stats_regs, Step, Write, First, Cmd
    <3> QED
      BY <1>1, <3>1, <3>2
  <2>3. k + 1 = 1 => k = 0
    BY <1>1 DEF k
  <2> QED
    BY <1>7, <2>1, <2>2, <2>3
<1> QED
  BY <1>1, <1>6, <1>7, <1>8, <1>9 DEF Success

(* An operation that ends well keeps an update successful. *)
LEMMA SuccessDone ==
  ASSUME UpdateInv, Unhurt, Success(chip, file, run), ChipDone
  PROVE  Success(chip', file, run')
<1> DEFINE s == Now
           k == run.k
           ss == Isp(file)
           d == chip'
<1>1. /\ file \in Files /\ run.pc \in 1 .. Len(ss) /\ k \in Nat
      /\ s = ss[run.pc] /\ Shaped(s) /\ ChipInv /\ RunInv /\ Small(file)
      /\ run.pc \in Nat /\ Len(ss) \in Nat
  <2>1. Len(ss) \in Nat
    BY NowIsp, IspPlaces DEF UpdateInv, Unhurt
  <2> QED
    BY <2>1, NowIsp DEF UpdateInv, Unhurt, FlashInv
<1>2. On(chip, file, s, k) /\ Done(chip, file, run.pc)
  BY <1>1 DEF Success
<1>3. chip.cui.st = "busy" /\ run' = run
  BY DEF ChipDone, Busy
<1> HIDE DEF s, k
<1>4. /\ k = Len(s.writes) /\ First(s) \in Openings \ {"0x60"}
      /\ chip.cui.buf = Change(chip, file, s)
  BY <1>1, <1>2, <1>3, BusyOn
<1>5. /\ d.cui.st = "ready" /\ d.locked = chip.locked /\ d.read = chip.read /\ d.sr = chip.sr
      /\ d.cells = Changed(Change(chip, file, s))
  <2>1. d = [chip EXCEPT !.cui = Ready, !.cells = Changed(chip.cui.buf)]
    BY DEF ChipDone
  <2> QED
    BY <1>1, <1>4, <2>1 DEF ChipInv, Chips, Ready
<1>6. \A i \in 1 .. Len(ss) : Sound(file, ss[i]) /\ Prepared(file, i)
  BY <1>1, IspPrepared
<1> HIDE DEF ss, d
<1>7. ASSUME NEW h \in 1 .. run.pc - 1 PROVE Made(d, file, ss[h])
  <2> DEFINE t == ss[h]
  <2>1. h \in 1 .. Len(ss) /\ run.pc \in h + 1 .. Len(ss)
    BY <1>1
  <2>2. Sound(file, t) /\ Made(chip, file, t) /\ Sound(file, s)
    BY <1>1, <1>2, <1>6, <2>1 DEF Done, ss
  <2>3. ASSUME NEW i \in DataOf(t) PROVE ~Wipes(s, BlockOf(t.writes[i].addr))
    <3>1. First(t) \in {"0x40", "0xE8"}
      <4>1. DataOf(t) # {} /\ Shaped(t)
        BY <2>2 DEF Sound
      <4> QED
        BY <4>1, DataPlaces
    <3>2. \A j \in h + 1 .. Len(ss) : ~Wipes(ss[j], BlockOf(t.writes[1].addr))
      BY <1>6, <2>1, <3>1 DEF Prepared, ss
    <3>3. BlockOf(t.writes[i].addr) = BlockOf(t.writes[1].addr)
      BY <2>2 DEF Sound
    <3> QED
      BY <1>1, <2>1, <3>2, <3>3
  <2> HIDE DEF t
  <2>4. Made(d, file, t)
    BY <1>1, <1>4, <1>5, <2>2, <2>3, DoneKeeps
  <2> QED
    BY <2>4 DEF t
<1>8. Made(d, file, s)
  <2>1. Sound(file, s) /\ Prepared(file, run.pc)
    BY <1>1, <1>6
  <2>2. ASSUME NEW i \in DataOf(s)
        PROVE  Aim(file, s.writes[i].addr) \subseteq chip.cells[s.writes[i].addr]
    <3>1. First(s) \in {"0x40", "0xE8"}
      <4>1. DataOf(s) # {}
        OBVIOUS
      <4> QED
        BY <1>1, <4>1, DataPlaces
    <3> DEFINE a == s.writes[i].addr
               q == BlockOf(s.writes[1].addr)
    <3>2. a \in Addr /\ BlockOf(a) = q
      BY <2>1 DEF Sound
    <3>3. PICK h \in 1 .. run.pc - 1 : Wipes(ss[h], q)
      BY <1>1, <2>1, <3>1 DEF Prepared, ss
    <3>4. Made(chip, file, ss[h])
      BY <1>2 DEF Done, ss
    <3> HIDE DEF a, q
    <3>5. Aim(file, a) \subseteq chip.cells[a]
      BY <3>2, <3>3, <3>4 DEF Made
    <3> QED
      BY <3>5 DEF a
  <2> QED
    BY <1>1, <1>4, <1>5, <2>1, <2>2, DoneMakes
<1>9. On(d, file, s, k)
  <2> DEFINE n == Len(s.writes)
  <2>1. n \in Nat /\ n > 1 /\ n # 0 /\ n # 1 /\ s.then # "unlocked"
    BY <1>1, <1>4, LongSteps
  <2>2. StatusOf(chip, s)
    BY <1>2, <1>4, <2>1 DEF On
  <2>3. StatusOf(d, s)
    BY <1>5, <2>2 DEF StatusOf
  <2> HIDE DEF n
  <2>4. n \in 0 .. n /\ ~(n \in 2 .. n - 1)
    BY <2>1
  <2>5. k = n
    BY <1>4 DEF n
  <2> QED
    BY <1>4, <1>5, <1>8, <2>1, <2>3, <2>4, <2>5 DEF On, n
<1>10. Done(d, file, run.pc)
  BY <1>7 DEF Done, ss
<1>11. run.pc > 2 \/ (run.pc = 2 /\ k = 1) => d.sr = {}
  BY <1>5 DEF Success, k
<1> QED
  BY <1>1, <1>3, <1>9, <1>10, <1>11 DEF Success, d, k, ss

(* At the end of a step the chip is ready, and the step has done its work. *)
LEMMA SuccessEnd ==
  ASSUME UpdateInv, Unhurt, Success(chip, file, run), run.k = Len(Now.writes),
         Now.then \in {"programmed", "erased"} /\ StatusOf(chip, Now) => ~Busy
  PROVE  chip.cui.st = "ready" /\ Made(chip, file, Now) /\ (run.pc > 1 => chip.sr = {})
<1>1. /\ file \in Files /\ run.pc \in 1 .. Len(Isp(file)) /\ Now = Isp(file)[run.pc] /\ Shaped(Now)
  BY NowIsp DEF UpdateInv, Unhurt
<1>2. On(chip, file, Now, Len(Now.writes))
  BY <1>1 DEF Success
<1>3. chip.cui.st = "ready" /\ Made(chip, file, Now)
  BY <1>1, <1>2, EndOn DEF Busy
<1>4. run.pc = 2 => Len(Now.writes) = 1
  BY <1>1, IspPlace
<1>5. run.pc \in Nat
  BY <1>1, IspPlace
<1>6. run.pc > 1 => run.pc > 2 \/ run.pc = 2
  BY <1>5
<1> QED
  BY <1>3, <1>4, <1>6 DEF Success

(* The next step begins. *)
LEMMA SuccessNext ==
  ASSUME UpdateInv, Unhurt, Success(chip, file, run), run.k = Len(Now.writes),
         Now.then \in {"programmed", "erased"} /\ StatusOf(chip, Now) => ~Busy,
         NEW words, NextStep(words), run.pc + 1 \in 1 .. Len(Isp(file))
  PROVE  Success(chip, file, run')
<1>1. /\ file \in Files /\ run.pc \in 1 .. Len(Isp(file)) /\ Now = Isp(file)[run.pc] /\ RunInv
      /\ run.pc \in Nat
  BY NowIsp, IspPlace DEF UpdateInv, Unhurt, FlashInv
<1>2. run'.pc = run.pc + 1 /\ run'.k = 0
  BY <1>1 DEF NextStep, RunInv
<1>3. chip.cui.st = "ready" /\ Made(chip, file, Now) /\ (run.pc > 1 => chip.sr = {})
  BY SuccessEnd
<1>4. On(chip, file, Isp(file)[run.pc + 1], 0)
  <2>1. Shaped(Isp(file)[run.pc + 1])
    BY <1>1, IspPlace
  <2>2. Len(Isp(file)[run.pc + 1].writes) \in Nat
    BY <2>1, ShapeLength
  <2> QED
    BY <1>3, <2>2, BeginOn
<1>5. Done(chip, file, run.pc + 1)
  <2>1. \A i \in 1 .. (run.pc + 1) - 1 : i = run.pc \/ i \in 1 .. run.pc - 1
    BY <1>1
  <2>2. Done(chip, file, run.pc)
    BY DEF Success
  <2> QED
    BY <1>1, <1>3, <2>1, <2>2 DEF Done
<1>6. /\ run.pc + 1 > 2 => run.pc > 1
      /\ ~(0 = 1)
  BY <1>1
<1> QED
  BY <1>2, <1>3, <1>4, <1>5, <1>6 DEF Success

(* The checks of the status register find no error. *)
LEMMA NoError ==
  ASSUME UpdateInv, Unhurt, Success(chip, file, run), PollStatus
  PROVE  NextStep(<<>>)
<1>1. /\ file \in Files /\ run.pc \in 1 .. Len(Isp(file)) /\ Now = Isp(file)[run.pc] /\ Shaped(Now)
      /\ run.pc \in Nat
  BY NowIsp, IspPlace DEF UpdateInv, Unhurt
<1>2. /\ run.k = Len(Now.writes) /\ Now.then \in {"programmed", "erased"}
      /\ ReadsStatus <=> StatusOf(chip, Now)
  BY DEF PollStatus, WritesDone, ReadsStatus, StatusOf
<1>3. First(Now) \in {"0x20", "0x40", "0xE8"} /\ Len(Now.writes) > 0 /\ ~Setting(Now) /\ ~Plain(Now)
  <2>1. Erasing(Now) \/ Wording(Now) \/ Filling(Now)
    BY <1>1, <1>2, ShapeOf
  <2>2. First(Now) \in {"0x20", "0x40", "0xE8"} /\ Len(Now.writes) > 0
    <3>1. CASE Erasing(Now) \/ Wording(Now)
      BY <3>1 DEF Erasing, Wording, First
    <3>2. CASE Filling(Now)
      BY <3>2, Geometry DEF Filling, First
    <3> QED
      BY <2>1, <3>1, <3>2
  <2>3. Setting(Now) \/ Plain(Now) => Now.then \notin {"programmed", "erased"}
    BY DEF Setting, Plain
  <2> QED
    BY <1>2, <2>2, <2>3
<1>4. ReadsStatus
  <2>1. On(chip, file, Now, Len(Now.writes))
    BY <1>1, <1>2 DEF Success
  <2>2. StatusOf(chip, Now)
    BY <1>3, <2>1 DEF On, Openings
  <2> QED
    BY <1>2, <2>2
<1>5. chip.sr = {}
  <2>1. run.pc # 1 /\ run.pc # 2
    BY <1>1, <1>3, IspKinds
  <2>2. run.pc > 2
    BY <1>1, <2>1
  <2> QED
    BY <2>2 DEF Success
<1>6. ~(chip.sr \cap OwnErrors # {})
  BY <1>5
<1> QED
  BY <1>4, <1>6 DEF PollStatus

(* The identifier of a block that was unlocked says so. *)
LEMMA NotLocked ==
  ASSUME UpdateInv, Unhurt, Success(chip, file, run), CheckUnlocked
  PROVE  NextStep(<<>>)
<1>1. /\ file \in Files /\ run.pc \in 1 .. Len(Isp(file)) /\ Now = Isp(file)[run.pc] /\ Shaped(Now)
  BY NowIsp DEF UpdateInv, Unhurt
<1>2. run.k = Len(Now.writes) /\ Now.then = "unlocked"
  BY DEF CheckUnlocked, WritesDone
<1>3. Unlocking(Now)
  BY <1>1, <1>2, ShapeOf
<1>4. Len(Now.writes) = 3 /\ First(Now) = "0x60" /\ Cmd(Now, 2) = "0xD0"
  BY <1>3 DEF Unlocking, First
<1>5. On(chip, file, Now, 3)
  BY <1>1, <1>2, <1>4 DEF Success
<1>6. chip.read[BankOf(Now.at[1])] = "id" /\ Made(chip, file, Now)
  BY <1>2, <1>4, <1>5 DEF On
<1>7. BlockOf(Now.at[1]) = BlockOf(Now.writes[2].addr)
  <2>1. Sound(file, Now)
    BY <1>1, IspPrepared DEF Unhurt
  <2> QED
    BY <1>2, <2>1 DEF Sound
<1>8. ~Locked(Now.at[1])
  BY <1>4, <1>6, <1>7 DEF Made, Opens, Locked
<1> QED
  BY <1>6, <1>8 DEF CheckUnlocked

(* After all of the programming every word of the file is in its cell. *)
LEMMA DoneWrites ==
  ASSUME NEW f \in Files, Small(f), NEW ch, Done(ch, f, Verified(f) + 1)
  PROVE  /\ \A x \in 1 .. Len(ImageOf(f)) : ch.cells[x - 1] = bit_swap(f[x])
         /\ \A j \in 1 .. SerialWords :
              ch.cells[NumberBase + SerialWords - j] = SerialOf(f)[j]
<1> DEFINE s == Isp(f)
           e == Erased(f)
           p == Filled(f)
           v == Verified(f)
           l == Len(ImageOf(f))
           m == Len(Programs(f))
<1>1. e \in Nat /\ p \in Nat /\ v \in Nat /\ p = e + m /\ m \in Nat /\ v > p + 4 + SerialWords
      /\ SerialWords \in Nat /\ l \in Nat /\ Len(s) = v + 3
  <2>1. /\ e \in Nat /\ p \in Nat /\ v \in Nat /\ v > p + 4 + SerialWords /\ SerialWords \in Nat
        /\ Len(s) = v + 3
    <3> DEFINE n == Numbered(f)
               c == Len(BanksOf(f))
    <3>1. /\ e \in Nat /\ p \in Nat /\ n \in Nat /\ n = p + 4 + SerialWords
          /\ v \in Nat /\ v = n + c + 6 /\ c \in Nat /\ Len(s) = v + 3
      BY IspPlaces
    <3>2. SerialWords \in Nat
      BY Geometry
    <3> HIDE DEF e, p, n, v, c, s
    <3> QED
      BY <3>1, <3>2
  <2>2. p = e + m
    BY DEF Filled
  <2>3. m \in Nat
    BY PartKinds
  <2>4. l \in Nat
    BY FileFacts
  <2> QED
    BY <2>1, <2>2, <2>3, <2>4
<1>2. \A i \in 1 .. v : Made(ch, f, s[i])
  <2>1. (v + 1) - 1 = v
    BY <1>1
  <2> QED
    BY <2>1 DEF Done
<1>3. Lies(s, Programs(f), e) /\ \A x \in 1 .. l : Covers(Programs(f), f, x)
  BY IspAt, PartKinds DEF IspParts
<1>4. \A i \in 1 .. SerialWords : s[p + 4 + i] = NumberWord(f, i)
  BY IspContents DEF IspSteps
<1> HIDE DEF s, e, p, v, m
<1>5. ASSUME NEW x \in 1 .. l PROVE ch.cells[x - 1] = bit_swap(f[x])
  <2>1. PICK i \in 1 .. m, q \in Buffers(f) :
          Programs(f)[i] = buffer_program(q[1], q[2]) /\ x \in q[1] + 1 .. q[1] + Len(q[2])
    BY <1>3 DEF Covers, m
  <2>2. e + i \in 1 .. v /\ s[e + i] = buffer_program(q[1], q[2])
    <3>1. e + i \in 1 .. v
      BY <1>1
    <3>2. s[e + i] = Programs(f)[i]
      BY <1>3 DEF Lies, m
    <3> QED
      BY <2>1, <3>1, <3>2
  <2> DEFINE t == buffer_program(q[1], q[2])
             j == x - q[1]
             h == Len(q[2])
  <2>3. q[1] \in Nat /\ h \in Nat /\ x \in Nat /\ x \in q[1] + 1 .. q[1] + h
    <3>1. q[1] \in Nat /\ h \in 1 .. BufferWords
      BY DEF Buffers
    <3>2. BufferWords \in Nat
      BY Geometry
    <3> HIDE DEF h
    <3>3. h \in Nat /\ x \in Nat
      BY <1>1, <3>1, <3>2, SMTT(25)
    <3> QED
      BY <2>1, <3>1, <3>3 DEF h
  <2>4. j \in 1 .. h /\ q[1] + j - 1 = x - 1
    <3> HIDE DEF h
    <3> QED
      BY <2>3
  <2>5. \A g \in 1 .. h : 2 + g \in DataOf(t) /\ t.writes[2 + g].addr = q[1] + g - 1
    BY FillSound
  <2>6. Made(ch, f, t)
    BY <1>2, <2>2
  <2> HIDE DEF t, j, h
  <2>7. 2 + j \in DataOf(t) /\ t.writes[2 + j].addr = x - 1
    BY <2>4, <2>5
  <2>8. ch.cells[x - 1] = Aim(f, x - 1)
    BY <2>6, <2>7 DEF Made
  <2>9. x - 1 < l /\ (x - 1) + 1 = x
    BY <1>1
  <2> QED
    BY <2>8, <2>9 DEF Aim, l
<1>6. ASSUME NEW j \in 1 .. SerialWords
      PROVE  ch.cells[NumberBase + SerialWords - j] = SerialOf(f)[j]
  <2> DEFINE i == SerialWords + 1 - j
             a == NumberBase + (i - 1)
             t == NumberWord(f, i)
  <2>1. i \in 1 .. SerialWords /\ i - 1 \in 0 .. SerialWords - 1
    BY <1>1
  <2>2. NumberBase \in Nat
    BY <2>1, NumberAt
  <2>3. a = NumberBase + SerialWords - j /\ NumberBase + SerialWords - a = j
        /\ a \in NumberBase .. NumberBase + SerialWords - 1
    BY <1>1, <2>2
  <2>4. ~(a < l)
    BY <2>1, NumberAt DEF l
  <2>5. 2 \in DataOf(t) /\ t.writes[2].addr = a
    BY <2>1, WordSound
  <2>6. Made(ch, f, t)
    <3>1. p + 4 + i \in 1 .. v
      BY <1>1, <2>1
    <3> QED
      BY <1>2, <1>4, <2>1, <3>1
  <2> HIDE DEF a, t, i
  <2>7. ch.cells[a] = Aim(f, a)
    BY <2>5, <2>6 DEF Made
  <2>8. Aim(f, a) = SerialOf(f)[j]
    BY <2>3, <2>4 DEF Aim, l
  <2> QED
    BY <2>3, <2>7, <2>8
<1> QED
  BY <1>5, <1>6 DEF l

(* The comparison finds the file. *)
LEMMA NoDifference ==
  ASSUME UpdateInv, Unhurt, Success(chip, file, run), Compare
  PROVE  NextStep(<<>>)
<1> DEFINE l == Len(ImageOf(file))
           m == SerialWords
           back(i) == chip.cells[CellAt(file, i)]
           same(i) == IF i <= Len(file) - m THEN bit_swap(file[i]) ELSE file[i]
<1>1. /\ file \in Files /\ run.pc \in 1 .. Len(Isp(file)) /\ Now = Isp(file)[run.pc]
      /\ IspInv(chip, file, run) /\ Now.then = "compare"
  BY NowIsp DEF UpdateInv, Unhurt, Compare, WritesDone
<1>2. run.pc \in Nat /\ run.pc = Verified(file) + 1 /\ Verified(file) \in Nat
  <2>1. run.pc \in Nat /\ Numbered(file) \in Nat /\ Verified(file) \in Nat
    BY <1>1, IspPlace, IspPlaces
  <2>2. run.pc > Numbered(file)
    <3>1. run.pc <= Numbered(file) => Now.then # "compare"
      BY <1>1, IspPlace
    <3> QED
      BY <1>1, <2>1, <3>1
  <2>3. LatePlace(file, run.pc, Now)
    BY <2>2, LateReady DEF Unhurt
  <2> QED
    BY <1>1, <2>1, <2>3, LateFacts
<1>3. Covered(file, run.pc) = l + m
  BY <1>1, <1>2, CoveredAt
<1>4. l \in Nat /\ m \in Nat /\ Len(file) = l + m /\ file \in Seq(Word)
  BY <1>1, FileFacts, ImageAt, Geometry
<1>5. /\ \A x \in 1 .. l : chip.cells[x - 1] = bit_swap(file[x])
      /\ \A j \in 1 .. m : chip.cells[NumberBase + m - j] = SerialOf(file)[j]
  <2>1. Done(chip, file, Verified(file) + 1) /\ Small(file)
    BY <1>2 DEF Success, Unhurt
  <2> QED
    BY <1>1, <2>1, DoneWrites
<1>6. DOMAIN file = 1 .. l + m
  BY <1>4
<1>7. run.out = [i \in 1 .. l + m |-> back(i)]
  BY <1>1, <1>3 DEF IspInv, ReadBack
<1>8. ASSUME NEW i \in 1 .. l + m PROVE back(i) = same(i)
  <2>1. Len(file) - m = l /\ i \in Nat
    BY <1>4
  <2>2. CASE i <= l
    <3>1. i \in 1 .. l
      BY <1>4, <2>2
    <3>2. back(i) = chip.cells[i - 1]
      BY <2>2 DEF CellAt
    <3>3. same(i) = bit_swap(file[i])
      BY <2>1, <2>2
    <3> QED
      BY <1>5, <3>1, <3>2, <3>3
  <2>3. CASE ~(i <= l)
    <3> DEFINE j == i - l
    <3>1. j \in 1 .. m /\ l + j = i
      BY <1>4, <2>3
    <3>2. back(i) = chip.cells[NumberBase + m - j]
      BY <2>3 DEF CellAt, NumberBase
    <3>3. same(i) = file[i]
      BY <2>1, <2>3
    <3>4. SerialOf(file)[j] = file[l + j]
      BY <1>1, <3>1, ImageAt
    <3> QED
      BY <1>5, <3>1, <3>2, <3>3, <3>4
  <2> QED
    BY <2>2, <2>3
<1>9. SameAsFile(run.out)
  <2>1. run.out = [i \in DOMAIN file |-> same(i)]
    <3> HIDE DEF back, same
    <3> QED
      BY <1>6, <1>7, <1>8
  <2> QED
    BY <2>1 DEF SameAsFile
<1> QED
  BY <1>9 DEF Compare

(* The steps of dsn check nothing. *)
LEMMA DsnThen ==
  \A i \in 1 .. Len(Dsn) : Dsn[i].then \in {"next", "show", "close"}
<1> DEFINE third(k) == Step(<<Write(BlockAt(SerialBank, 0), "0xFF")>>, "show",
                            [i \in 1 .. SerialWords |-> BlockAt(SerialBank, k) + SerialWords - i])
           close == Step(<<>>, "close", <<>>)
           cfg == set_config_register(AsyncMode)
           Good(x) == x.then \in {"next", "show", "close"}
<1>1. /\ read_num(1, "show") = <<cfg, clear_stats_regs, third(1)>>
      /\ read_num(0, "show") = <<cfg, clear_stats_regs, third(0)>>
  BY DEF read_num
<1>2. Good(cfg) /\ Good(clear_stats_regs) /\ Good(third(1)) /\ Good(third(0)) /\ Good(close)
  BY DEF set_config_register, clear_stats_regs, Step
<1>3. Dsn = read_num(1, "show") \o read_num(0, "show") \o <<close>>
  BY DEF Dsn, read_hardware_num, read_logic_num
<1> DEFINE S == {cfg, clear_stats_regs, third(1), third(0), close}
           first == read_num(1, "show")
           second == read_num(0, "show")
<1> HIDE DEF cfg, close, third, Good
<1>4. first \in Seq(S) /\ second \in Seq(S) /\ <<close>> \in Seq(S)
  <2>1. cfg \in S /\ clear_stats_regs \in S /\ third(1) \in S /\ third(0) \in S /\ close \in S
    OBVIOUS
  <2> HIDE DEF S
  <2>2. /\ <<cfg, clear_stats_regs, third(1)>> \in Seq(S)
        /\ <<cfg, clear_stats_regs, third(0)>> \in Seq(S) /\ <<close>> \in Seq(S)
    BY <2>1
  <2> QED
    BY <1>1, <2>2
<1>5. \A x \in S : Good(x)
  BY <1>2
<1> HIDE DEF S, first, second
<1>6. first \o second \o <<close>> \in Seq(S)
  BY <1>4
<1>7. Dsn \in Seq(S)
  BY <1>3, <1>6 DEF first, second
<1>8. \A i \in 1 .. Len(Dsn) : Good(Dsn[i])
  BY <1>5, <1>7
<1> QED
  BY <1>8 DEF Good

(* An image that is too large, as FailsOnlyByFault says it. *)
LEMMA NotSmall ==
  ASSUME NEW f \in Files
  PROVE  ~Small(f) <=> Len(ImageOf(f)) > SerialBank * BankWords
<1>1. Len(ImageOf(f)) \in Nat /\ SerialBank \in Nat /\ BankWords \in Nat
  BY FileFacts, Geometry
<1>2. SerialBank * BankWords \in Nat
  BY <1>1
<1> QED
  BY <1>1, <1>2 DEF Small

(* A chip no tool has touched has failed no update. *)
LEMMA SuccessInit == Init => SuccessInv
<1> SUFFICES ASSUME Init PROVE SuccessInv
  OBVIOUS
<1>1. UpdateInv
  BY UpdateInit
<1>2. result = "none" /\ run.tool = "none"
  BY DEF Init, Idle
<1> QED
  BY <1>1, <1>2 DEF SuccessInv, FailsOnlyByFault, Unhurt

(* The end of a run by a check is explained by a failure. *)
LEMMA FailureOf ==
  ASSUME UpdateInv, UpdateInv', ~Unhurt, run.tool = "isp", UNCHANGED <<file, disturbed>>
  PROVE  FailsOnlyByFault'
<1>1. file \in Files
  BY DEF UpdateInv, FlashInv
<1> QED
  BY <1>1, NotSmall DEF Unhurt, FailsOnlyByFault

(* The tool's steps keep an update successful, and let no other fail. *)
LEMMA SuccessTool ==
  ASSUME SuccessInv, UpdateInv', ToolStep
  PROVE  SuccessInv'
<1>1. UpdateInv /\ RunInv /\ run.tool # "none" /\ UNCHANGED <<file, disturbed>>
  BY DEF SuccessInv, UpdateInv, FlashInv, ToolStep, FlashWrite, PollStatus, CheckUnlocked,
         ReadOn, Compare, Finish, WritesDone
<1>2. result = "running" /\ run.tool \in {"isp", "dsn"}
  BY <1>1 DEF UpdateInv, RunInv
<1>3. ASSUME NEW how, how \notin {"exit", "differs"}, EndRun(how) PROVE SuccessInv'
  BY <1>1, <1>3 DEF SuccessInv, EndRun, Idle, FailsOnlyByFault, Unhurt
<1>4. ASSUME NEW how, EndRun(how), run.tool = "isp", ~Unhurt PROVE SuccessInv'
  <2>1. FailsOnlyByFault'
    BY <1>1, <1>4, FailureOf
  <2>2. ~Unhurt'
    BY <1>4 DEF EndRun, Idle, Unhurt
  <2> QED
    BY <2>1, <2>2 DEF SuccessInv
<1>5. ASSUME NEW words, NextStep(words), run.k = Len(Now.writes), chip' = chip,
             Now.then \in {"programmed", "erased"} /\ StatusOf(chip, Now) => ~Busy
      PROVE  SuccessInv'
  <2>1. run' = [run EXCEPT !.pc = @ + 1, !.k = 0, !.out = @ \o words] /\ result' = "running"
    BY <1>2, <1>5 DEF NextStep
  <2>2. run'.tool = run.tool /\ run'.pc = run.pc + 1
    BY <1>1, <2>1 DEF RunInv
  <2>3. FailsOnlyByFault'
    BY <2>1 DEF FailsOnlyByFault
  <2>4. ASSUME Unhurt' PROVE Success(chip', file', run')
    <3>1. Unhurt /\ Success(chip, file, run)
      BY <1>1, <2>2, <2>4 DEF Unhurt, SuccessInv
    <3>2. run.pc + 1 \in 1 .. Len(Isp(file))
      <4>1. FlashInv' /\ run'.tool = "isp"
        BY <2>4 DEF UpdateInv, Unhurt
      <4>2. run'.pc \in 1 .. Len(Steps')
        BY <4>1 DEF FlashInv, RunInv
      <4>3. Steps' = Isp(file)
        BY <1>1, <4>1 DEF Steps, IspOf, FlashInv
      <4> QED
        BY <2>2, <4>2, <4>3
    <3> QED
      BY <1>1, <1>5, <3>1, <3>2, SuccessNext
  <2> QED
    BY <2>3, <2>4 DEF SuccessInv
<1>6. CASE FlashWrite
  <2>1. run' = [run EXCEPT !.k = IF Now.writes[run.k + 1].cmd = "0xE8" /\ Busy THEN 0 ELSE @ + 1]
        /\ result' = "running"
    BY <1>2, <1>6 DEF FlashWrite
  <2>2. run'.tool = run.tool
    BY <1>1, <2>1 DEF RunInv
  <2>3. FailsOnlyByFault'
    BY <2>1 DEF FailsOnlyByFault
  <2>4. ASSUME Unhurt' PROVE Success(chip', file', run')
    <3>1. Unhurt /\ Success(chip, file, run)
      BY <1>1, <2>2, <2>4 DEF Unhurt, SuccessInv
    <3> QED
      BY <1>1, <1>6, <3>1, SuccessWrite
  <2> QED
    BY <2>3, <2>4 DEF SuccessInv
<1>7. ASSUME run.tool = "dsn" PROVE Now.then \in {"next", "show", "close"}
  <2>1. run.pc \in 1 .. Len(Dsn) /\ Now = Dsn[run.pc]
    BY <1>1, <1>7 DEF RunInv, Steps, Now
  <2> QED
    BY <2>1, DsnThen
<1>8. CASE PollStatus
  <2>1. /\ run.k = Len(Now.writes) /\ Now.then \in {"programmed", "erased"} /\ chip' = chip
        /\ StatusOf(chip, Now) => ~Busy
    BY <1>8 DEF PollStatus, WritesDone, ReadsStatus, StatusOf
  <2>2. run.tool = "isp"
    BY <1>2, <1>7, <2>1
  <2>3. NextStep(<<>>) \/ EndRun("exit")
    BY <1>8 DEF PollStatus
  <2>4. CASE Unhurt
    <3>1. NextStep(<<>>)
      BY <1>1, <1>8, <2>4, NoError DEF SuccessInv
    <3> QED
      BY <1>5, <2>1, <3>1
  <2> QED
    BY <1>4, <1>5, <2>1, <2>2, <2>3, <2>4
<1>9. CASE CheckUnlocked
  <2>1. run.k = Len(Now.writes) /\ Now.then = "unlocked" /\ chip' = chip
    BY <1>9 DEF CheckUnlocked, WritesDone
  <2>2. run.tool = "isp"
    BY <1>2, <1>7, <2>1
  <2>3. NextStep(<<>>) \/ EndRun("exit")
    BY <1>9 DEF CheckUnlocked
  <2>4. CASE Unhurt
    <3>1. NextStep(<<>>)
      BY <1>1, <1>9, <2>4, NotLocked DEF SuccessInv
    <3> QED
      BY <1>5, <2>1, <3>1
  <2> QED
    BY <1>4, <1>5, <2>1, <2>2, <2>3, <2>4
<1>10. CASE ReadOn
  <2>1. run.k = Len(Now.writes) /\ Now.then \in {"next", "show", "append"} /\ chip' = chip
    BY <1>10 DEF ReadOn, WritesDone
  <2>2. \E words : NextStep(words)
    BY <1>10 DEF ReadOn
  <2> QED
    BY <1>5, <2>1, <2>2
<1>11. CASE Compare
  <2>1. run.k = Len(Now.writes) /\ Now.then = "compare" /\ chip' = chip
    BY <1>11 DEF Compare, WritesDone
  <2>2. run.tool = "isp"
    BY <1>2, <1>7, <2>1
  <2>3. NextStep(<<>>) \/ EndRun("differs")
    BY <1>11 DEF Compare
  <2>4. CASE Unhurt
    <3>1. NextStep(<<>>)
      BY <1>1, <1>11, <2>4, NoDifference DEF SuccessInv
    <3> QED
      BY <1>5, <2>1, <3>1
  <2> QED
    BY <1>4, <1>5, <2>1, <2>2, <2>3, <2>4
<1>12. CASE Finish
  <2>1. EndRun("reconfigured") \/ EndRun("shown")
    BY <1>12 DEF Finish
  <2> QED
    BY <1>3, <2>1
<1> QED
  BY <1>6, <1>8, <1>9, <1>10, <1>11, <1>12 DEF ToolStep

(* The invariant is inductive. *)
LEMMA SuccessStep == SuccessInv /\ [Next]_vars => SuccessInv'
<1> SUFFICES ASSUME SuccessInv, [Next]_vars PROVE SuccessInv'
  OBVIOUS
<1>1. UpdateInv /\ UpdateInv' /\ FailsOnlyByFault /\ FlashInv /\ FlashInv'
  BY UpdateStep DEF SuccessInv, UpdateInv
<1>2. CASE ToolStep
  BY <1>1, <1>2, SuccessTool
<1>3. CASE Kill
  BY <1>1, <1>3 DEF Kill, EndRun, Idle, SuccessInv, FailsOnlyByFault, Unhurt
<1>4. CASE Gsn
  <2>1. /\ file \in Images /\ file' = file \o NewSerial /\ run' = run /\ run.tool = "none"
        /\ result' = result /\ disturbed' = disturbed
    BY <1>4 DEF Gsn
  <2>2. Len(ImageOf(file')) >= Len(ImageOf(file)) /\ file \in Files /\ file' \in Files
    <3>1. file \in Files /\ file' \in Files
      BY <1>1 DEF FlashInv
    <3>2. /\ Len(ImageOf(file)) = Len(file) - SerialWords
          /\ Len(ImageOf(file')) = Len(file') - SerialWords
      BY <3>1, FileFacts
    <3>3. Len(file) \in Nat /\ Len(file') = Len(file) + SerialWords /\ SerialWords \in Nat
      <4>1. file \in Seq(Word) /\ NewSerial \in Seq(Word) /\ Len(NewSerial) = SerialWords
        BY <2>1, FileAssumption
      <4>2. Len(file \o NewSerial) = Len(file) + Len(NewSerial) /\ Len(file) \in Nat
        BY <4>1
      <4>3. SerialWords \in Nat
        BY Geometry
      <4> QED
        BY <2>1, <4>1, <4>2, <4>3
    <3> QED
      BY <3>1, <3>2, <3>3
  <2>3. ~Small(file) => ~Small(file')
    <3>1. Len(ImageOf(file)) \in Nat /\ Len(ImageOf(file')) \in Nat
      BY <2>2, FileFacts
    <3>2. SerialBank * BankWords \in Nat
      <4>1. SerialBank \in Nat /\ BankWords \in Nat
        BY Geometry
      <4> QED
        BY <4>1
    <3> QED
      BY <2>2, <3>1, <3>2 DEF Small
  <2>4. FailsOnlyByFault'
    BY <1>1, <2>1, <2>2, <2>3, NotSmall DEF FailsOnlyByFault
  <2> QED
    BY <1>1, <2>1, <2>4 DEF SuccessInv, Unhurt
<1>5. CASE PowerCycle
  <2>1. run' = run /\ run.tool = "none" /\ UNCHANGED <<file, result, disturbed>>
    BY <1>5 DEF PowerCycle
  <2> QED
    BY <1>1, <2>1 DEF SuccessInv, FailsOnlyByFault, Unhurt
<1>6. ASSUME NEW tool \in {"isp", "dsn"}, Start(tool) PROVE SuccessInv'
  <2>1. /\ run' = [tool |-> tool, pc |-> 1, k |-> 0, out |-> <<>>] /\ result' = "running"
        /\ disturbed' = (chip.cui.st # "ready") /\ chip' = chip /\ file' = file
    BY <1>6 DEF Start
  <2>2. FailsOnlyByFault'
    BY <2>1 DEF FailsOnlyByFault
  <2>3. ASSUME Unhurt' PROVE Success(chip', file', run')
    <3>1. chip.cui.st = "ready" /\ file \in Files
      BY <1>1, <2>1, <2>3 DEF Unhurt, FlashInv
    <3>2. 1 \in 1 .. Len(Isp(file))
      <4>1. FlashInv' /\ run'.tool = "isp" /\ run'.pc = 1
        BY <1>1, <2>1, <2>3 DEF Unhurt
      <4>2. run'.pc \in 1 .. Len(Steps')
        BY <4>1 DEF FlashInv, RunInv
      <4>3. Steps' = Isp(file)
        BY <2>1, <3>1, <4>1 DEF Steps, IspOf
      <4> QED
        BY <4>1, <4>2, <4>3
    <3>3. Shaped(Isp(file)[1])
      BY <3>1, <3>2, IspPlace
    <3>4. Len(Isp(file)[1].writes) \in Nat
      BY <3>3, ShapeLength
    <3>5. On(chip, file, Isp(file)[1], 0)
      BY <3>1, <3>4, BeginOn
    <3>6. Done(chip, file, 1)
      <4>1. 1 .. 1 - 1 = {}
        OBVIOUS
      <4> QED
        BY <4>1 DEF Done
    <3>7. run'.pc = 1 /\ run'.k = 0
      BY <2>1
    <3>8. ~(1 > 2) /\ 1 # 2
      OBVIOUS
    <3> QED
      BY <2>1, <3>5, <3>6, <3>7, <3>8 DEF Success
  <2> QED
    BY <1>1, <2>2, <2>3 DEF SuccessInv
<1>7. CASE ChipDone
  <2>1. UNCHANGED <<file, run, result, disturbed>>
    BY <1>7 DEF ChipDone
  <2>2. FailsOnlyByFault'
    BY <1>1, <2>1 DEF FailsOnlyByFault
  <2>3. ASSUME Unhurt' PROVE Success(chip', file', run')
    <3>1. Unhurt /\ Success(chip, file, run)
      BY <2>1, <2>3 DEF Unhurt, SuccessInv
    <3>2. Success(chip', file, run')
      BY <1>1, <1>7, <3>1, SuccessDone
    <3> QED
      BY <2>1, <3>2
  <2> QED
    BY <1>1, <2>2, <2>3 DEF SuccessInv
<1>8. ASSUME NEW reported, ChipFault(reported) PROVE SuccessInv'
  <2>1. disturbed' = TRUE
    BY <1>8 DEF ChipFault
  <2> QED
    BY <1>1, <2>1 DEF SuccessInv, FailsOnlyByFault, Unhurt
<1>9. CASE UNCHANGED vars
  <2>1. UNCHANGED <<chip, file, run, result, disturbed>>
    BY <1>9 DEF vars
  <2> QED
    BY <1>1, <2>1 DEF SuccessInv, FailsOnlyByFault, Unhurt
<1> QED
  BY <1>2, <1>3, <1>4, <1>5, <1>6, <1>7, <1>8, <1>9 DEF Next

(* While an update meets no failure the chip is where its writes bring it, and *)
(* every step behind has left the cells, the locks and the errors as it should. *)
THEOREM SuccessInductive == Spec => []SuccessInv
<1>1. Init => SuccessInv
  BY SuccessInit
<1>2. SuccessInv /\ [Next]_vars => SuccessInv'
  BY SuccessStep
<1> QED
  BY <1>1, <1>2, PTL DEF Spec

(* An update of an image that leaves the bank of the serial numbers alone      *)
(* fails only if the chip did, or had been left within a command               *)
(* (FailsOnlyByFault).                                                         *)
THEOREM FailureExplained == Spec => []FailsOnlyByFault
<1>1. SuccessInv => FailsOnlyByFault
  BY DEF SuccessInv
<1> QED
  BY <1>1, SuccessInductive, PTL
=============================================================================
