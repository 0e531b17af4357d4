-------------------------- MODULE NacDevices_proofs --------------------------
(***************************************************************************)
(* Proofs about what lies between the programs and the cards: the memory   *)
(* module, for every number of pieces, slots and cards, every alignment and*)
(* every requested size; the driver above it, for every number of boards,  *)
(* devices and files; and the I2C buses the library drives through it.     *)
(*                                                                         *)
(* The pool.  AreaHeld is not inductive: that a carved area lies in memory *)
(* that is held, and in no other area, depends on what the slots it is     *)
(* taken from contain.  The inductive invariant PoolInv says that each     *)
(* piece is in one slot of the table at most, that the held pieces are     *)
(* those of the table and of the areas, and that the areas are pairwise    *)
(* disjoint; the step that keeps it is nac_mem_findcontig, whose search is *)
(* described by RunStartFacts, RunPieces and StopFacts.                    *)
(*                                                                         *)
(* The driver.  Every behaviour of the driver is one of the pool with      *)
(* other steps in between (DriverRefinesPool), so what holds of the pool   *)
(* holds here.  For the boards and files the inductive invariant DriverInv *)
(* relates five tables the code keeps apart: the units, nac_mem's use      *)
(* counts, the kernel's regions, the PCI devices' driver_data and the open *)
(* files.                                                                  *)
(*                                                                         *)
(* The I2C buses, for every set of calls the library makes.  What happens  *)
(* on a bus depends on commands and bytes given some steps ago, so that    *)
(* neither BusLeftFree nor the refinement is inductive.  Proper says where *)
(* a step of a function comes right, of what the function has been told of *)
(* its bus (Known), and After what it knows then; Leads and FitsCall chain *)
(* this through the steps of a function, for each of them and every address*)
(* and length (CallFits).  The inductive invariant BusInv says that the    *)
(* steps a call has left fit a knowledge that agrees with the bus of its   *)
(* port, or will agree when the wait that comes next has noticed that the  *)
(* transfer is over.                                                       *)
(***************************************************************************)
EXTENDS NacDriver, NacI2c, NumberFacts, SequenceTheorems, FiniteSetTheorems, TLAPS

-----------------------------------------------------------------------------
(* The pieces are finitely many. *)
LEMMA PiecesFinite ==
  /\ Pieces \subseteq Nat \ {0}
  /\ \A S \in SUBSET Pieces : IsFiniteSet(S) /\ Cardinality(S) \in Nat
<1> USE PoolAssumption
<1>1. ASSUME NEW p \in Pieces PROVE p \in Nat \ {0} /\ p <= PieceSize * MaxPiece
  <2>1. PICK k \in 1 .. MaxPiece : p = PieceSize * k
    BY DEF Pieces
  <2>2. PieceSize * k > 0 /\ PieceSize * k <= PieceSize * MaxPiece
    BY <2>1
  <2> QED
    BY <2>1, <2>2
<1>2. PieceSize * MaxPiece \in Nat
  OBVIOUS
<1>3. ASSUME NEW S \in SUBSET Pieces PROVE IsFiniteSet(S)
  <2>1. S \in SUBSET Nat /\ \A p \in S : p <= PieceSize * MaxPiece
    BY <1>1
  <2> QED
    BY <2>1, <1>2, FS_BoundedSetOfNaturals
<1> QED
  BY <1>1, <1>3, FS_CardinalityType

(* How many pieces of S lie above p. *)
Rank(S, p) == Cardinality({q \in S : q > p})

(* Ranks fall as addresses rise. *)
LEMMA RankFacts ==
  ASSUME NEW S \in SUBSET Pieces
  PROVE  /\ \A p \in S : Rank(S, p) \in 0 .. Cardinality(S) - 1
         /\ \A p, r \in S : p < r => Rank(S, r) < Rank(S, p)
<1>1. \A T \in SUBSET S : /\ IsFiniteSet(T) /\ Cardinality(T) \in Nat
                          /\ Cardinality(T) <= Cardinality(S)
                          /\ Cardinality(T) = Cardinality(S) => T = S
  BY PiecesFinite, FS_Subset
<1>2. S \subseteq Nat
  BY PiecesFinite
<1>3. ASSUME NEW p \in S PROVE Rank(S, p) \in 0 .. Cardinality(S) - 1
  <2> DEFINE T == {q \in S : q > p}
  <2>1. T \in SUBSET S /\ p \notin T
    BY <1>2
  <2> HIDE DEF T
  <2>2. Cardinality(T) \in Nat /\ Cardinality(S) \in Nat /\ Cardinality(T) < Cardinality(S)
    BY <1>1, <2>1
  <2> QED
    BY <2>2 DEF Rank, T
<1>4. ASSUME NEW p \in S, NEW r \in S, p < r PROVE Rank(S, r) < Rank(S, p)
  <2> DEFINE T == {q \in S : q > p}
             U == {q \in S : q > r}
  <2>1. T \in SUBSET S /\ U \in SUBSET T /\ r \in T /\ r \notin U
    <3>1. p \in Nat /\ r \in Nat /\ r \in T /\ r \notin U
      BY <1>2, <1>4
    <3>2. ASSUME NEW q \in U PROVE q \in T
      BY <1>2, <1>4
    <3> QED
      BY <3>1, <3>2
  <2> HIDE DEF T, U
  <2>2. Cardinality(U) <= Cardinality(T) /\ (Cardinality(T) = Cardinality(U) => T = U)
    BY <1>1, <2>1, FS_Subset
  <2>3. Cardinality(U) \in Nat /\ Cardinality(T) \in Nat
    BY <1>1, <2>1
  <2>4. Cardinality(U) < Cardinality(T)
    BY <2>1, <2>2, <2>3
  <2> QED
    BY <2>4 DEF Rank, T, U
<1> QED
  BY <1>3, <1>4

(* nac_mem_alloc_ptable and nac_mem_sort_ptable: the table holds exactly the
   pieces, each once, the higher before the lower and zeros at the end. *)
LEMMA TableFacts ==
  ASSUME NEW S \in SUBSET Pieces, Cardinality(S) \in 1 .. Slots
  PROVE  /\ Table(S) \in [Slot -> S \cup {0}]
         /\ {Table(S)[i] : i \in Slot} \ {0} = S
         /\ \A i, j \in Slot : i < j /\ Table(S)[j] # 0 => Table(S)[i] > Table(S)[j]
         /\ Table(S)[0] # 0
<1> DEFINE n == Cardinality(S)
           f == [p \in S |-> Rank(S, p)]
<1>0. n \in Nat \ {0} /\ n <= Slots /\ Slots \in Nat
  BY PoolAssumption
<1>1. S \subseteq Nat \ {0} /\ IsFiniteSet(S)
  BY PiecesFinite
<1>2. f \in [S -> 0 .. n - 1]
  BY RankFacts
<1>3. \A p, r \in S : f[p] = f[r] => p = r
  <2> SUFFICES ASSUME NEW p \in S, NEW r \in S, f[p] = f[r], p # r PROVE FALSE
    OBVIOUS
  <2>1. p < r \/ r < p
    BY <1>1
  <2>2. Rank(S, p) \in Int /\ Rank(S, p) = Rank(S, r)
    BY RankFacts
  <2> QED
    BY <2>1, <2>2, RankFacts
<1>4. f \in Surjection(S, 0 .. n - 1)
  <2>1. f \in Injection(S, 0 .. n - 1)
    BY <1>2, <1>3 DEF Injection, IsInjective
  <2>2. IsFiniteSet(0 .. n - 1) /\ Cardinality(0 .. n - 1) = n
    <3> HIDE DEF n
    <3>1. 0 \in Int /\ n - 1 \in Int /\ ~(0 > n - 1) /\ n - 1 - 0 + 1 = n
      BY <1>0
    <3> QED
      BY <3>1, FS_Interval
  <2> HIDE DEF f
  <2> QED
    BY <2>1, <2>2, FS_Injection
<1>5. \A i \in 0 .. n - 1 : \E p \in S : Rank(S, p) = i
  BY <1>4 DEF Surjection
<1>6. ASSUME NEW i \in Slot, i < n
      PROVE  Table(S)[i] \in S /\ Rank(S, Table(S)[i]) = i
  <2>1. Table(S)[i] = CHOOSE p \in S : Rank(S, p) = i
    BY <1>6 DEF Table, Rank
  <2>2. \E p \in S : Rank(S, p) = i
    BY <1>5, <1>6, <1>0 DEF Slot
  <2> QED
    BY <2>1, <2>2
<1>7. ASSUME NEW i \in Slot, ~(i < n) PROVE Table(S)[i] = 0
  BY <1>7 DEF Table
<1>8. Table(S) \in [Slot -> S \cup {0}]
  <2>1. Table(S) = [i \in Slot |-> Table(S)[i]]
    BY DEF Table
  <2> QED
    BY <2>1, <1>6, <1>7
<1>9. {Table(S)[i] : i \in Slot} \ {0} = S
  <2>1. ASSUME NEW p \in S PROVE \E i \in Slot : Table(S)[i] = p
    <3>1. Rank(S, p) \in Slot /\ Rank(S, p) < n
      BY <1>0, RankFacts DEF Slot
    <3>2. Table(S)[Rank(S, p)] \in S /\ Rank(S, Table(S)[Rank(S, p)]) = Rank(S, p)
      BY <3>1, <1>6
    <3>3. Table(S)[Rank(S, p)] = p
      BY <3>2, <1>3
    <3> QED
      BY <3>1, <3>3
  <2>2. ASSUME NEW i \in Slot, Table(S)[i] # 0 PROVE Table(S)[i] \in S
    BY <2>2, <1>6, <1>7
  <2>3. 0 \notin S
    BY <1>1
  <2> QED
    BY <2>1, <2>2, <2>3
<1>10. ASSUME NEW i \in Slot, NEW j \in Slot, i < j, Table(S)[j] # 0
       PROVE  Table(S)[i] > Table(S)[j]
  <2>1. i \in Nat /\ j \in Nat /\ j < n /\ i < n
    BY <1>0, <1>7, <1>10 DEF Slot
  <2> DEFINE p == Table(S)[i]
             r == Table(S)[j]
  <2>2. p \in S /\ r \in S /\ Rank(S, p) = i /\ Rank(S, r) = j
    BY <2>1, <1>6
  <2> HIDE DEF p, r
  <2>3. p \in Nat /\ r \in Nat /\ ~(p < r) /\ p # r
    BY <2>1, <2>2, <1>1, <1>10, RankFacts
  <2> QED
    BY <2>3 DEF p, r
<1>11. Table(S)[0] # 0
  BY <1>0, <1>1, <1>6 DEF Slot
<1> QED
  BY <1>8, <1>9, <1>10, <1>11

-----------------------------------------------------------------------------
(* RunStart(i) is where the run of neighbouring pieces that ends before slot i
   begins: the loop of nac_mem_findcontig restarts the run at every gap. *)
LEMMA RunStartFacts ==
  ASSUME cstart \in Nat, NEW i \in Nat, cstart < i
  PROVE  /\ RunStart(i) \in cstart .. i - 1
         /\ RunStart(i) = cstart \/ ptable[RunStart(i) - 1] - ptable[RunStart(i)] # PieceSize
         /\ \A k \in RunStart(i) + 1 .. i - 1 : ptable[k - 1] - ptable[k] = PieceSize
<1> DEFINE B == {j \in cstart .. i - 1 :
                   j = cstart \/ ptable[j - 1] - ptable[j] # PieceSize}
           R(j) == /\ j = cstart \/ ptable[j - 1] - ptable[j] # PieceSize
                   /\ \A k \in j + 1 .. i - 1 : ptable[k - 1] - ptable[k] = PieceSize
<1>1. B \in SUBSET (cstart .. i - 1) /\ cstart \in B
  OBVIOUS
<1>2. PICK m \in B : \A k \in B : k <= m
  <2> HIDE DEF B
  <2>1. cstart \in Int /\ i - 1 \in Int
    OBVIOUS
  <2> QED
    BY <1>1, <2>1, GreatestBetween
<1>3. m \in cstart .. i - 1 /\ R(m)
  <2>1. ASSUME NEW k \in m + 1 .. i - 1 PROVE ptable[k - 1] - ptable[k] = PieceSize
    <3>1. k \notin B
      BY <1>2
    <3>2. k \in cstart .. i - 1
      BY <1>2
    <3> QED
      BY <3>1, <3>2
  <2> QED
    BY <1>2, <2>1
<1>4. RunStart(i) = CHOOSE j \in cstart .. i - 1 : R(j)
  BY DEF RunStart
<1>5. RunStart(i) \in cstart .. i - 1 /\ R(RunStart(i))
  <2> HIDE DEF R
  <2> QED
    BY <1>3, <1>4
<1> QED
  BY <1>5

(* Going down a run, each piece is the neighbour of the one before. *)
LEMMA RunPieces ==
  ASSUME cstart \in Nat, NEW i \in 1 .. Slots, cstart < i,
         ptable \in [Slot -> Nat]
  PROVE  \A m \in 0 .. i - 1 - RunStart(i) :
           ptable[i - 1 - m] = ptable[i - 1] + m * PieceSize
<1> USE PoolAssumption
<1> DEFINE r == RunStart(i)
           T == {m \in Nat : m <= i - 1 - r =>
                               ptable[i - 1 - m] = ptable[i - 1] + m * PieceSize}
<1>1. /\ r \in cstart .. i - 1
      /\ \A k \in r + 1 .. i - 1 : ptable[k - 1] - ptable[k] = PieceSize
  BY RunStartFacts
<1> HIDE DEF r
<1>2. 0 \in T
  <2>1. i - 1 \in Slot
    BY DEF Slot
  <2>2. ptable[i - 1] \in Nat /\ i - 1 - 0 = i - 1
    BY <2>1
  <2> QED
    BY <2>2
<1>3. ASSUME NEW m \in Nat, m \in T, m < i - 1 - r PROVE m + 1 \in T
  <2> DEFINE k == i - 1 - m
  <2>1. k \in r + 1 .. i - 1 /\ k \in Slot /\ k - 1 \in Slot
    BY <1>1, <1>3 DEF Slot
  <2>2. ptable[k] = ptable[i - 1] + m * PieceSize
    BY <1>1, <1>3
  <2>3. ptable[k - 1] - ptable[k] = PieceSize
    BY <1>1, <2>1
  <2>4. ptable[k - 1] \in Nat /\ ptable[k] \in Nat
    BY <2>1
  <2>5. (m + 1) * PieceSize = m * PieceSize + PieceSize
    OBVIOUS
  <2>6. m * PieceSize \in Nat /\ ptable[i - 1] \in Nat
    BY DEF Slot
  <2>7. ptable[k - 1] = ptable[i - 1] + (m + 1) * PieceSize
    BY <2>2, <2>3, <2>4, <2>5, <2>6
  <2>8. k - 1 = i - 1 - (m + 1)
    BY <1>1
  <2> QED
    BY <2>7, <2>8
<1>4. 0 .. i - 1 - r \subseteq T
  <2> HIDE DEF T
  <2>1. i - 1 - r \in Nat
    BY <1>1
  <2> QED
    BY <1>2, <1>3, <2>1, UpTo
<1> QED
  BY <1>4 DEF r

(* The loop of nac_mem_findcontig ends at the first slot whose run fits or that
   is empty, and runs to the end of the table when there is none. *)
LEMMA StopFacts ==
  ASSUME cstart \in Slot, NEW c
  PROVE  /\ Stop(c) \in cstart + 1 .. Slots
         /\ Stop(c) < Slots => Fits(Stop(c), c) \/ ptable[Stop(c)] = 0
         /\ \A i \in cstart + 1 .. Slots - 1 :
              i < Stop(c) => ~Fits(i, c) /\ ptable[i] # 0
<1> USE PoolAssumption
<1> DEFINE stops == {i \in cstart + 1 .. Slots - 1 : Fits(i, c) \/ ptable[i] = 0}
<1>1. Stop(c) = IF stops = {} THEN Slots
                ELSE CHOOSE i \in stops : \A j \in stops : i <= j
  BY DEF Stop
<1>2. cstart \in Nat /\ cstart + 1 <= Slots
  BY DEF Slot
<1>3. CASE stops = {}
  BY <1>1, <1>2, <1>3
<1>4. CASE stops # {}
  <2>1. stops \in SUBSET Nat
    BY <1>2
  <2>2. Stop(c) \in stops /\ \A j \in stops : Stop(c) <= j
    <3> HIDE DEF stops
    <3>1. \E i \in stops : \A j \in stops : i <= j
      BY <2>1, <1>4, LeastNatural
    <3> QED
      BY <3>1, <1>1, <1>4
  <2>3. ASSUME NEW i \in cstart + 1 .. Slots - 1, i < Stop(c)
        PROVE  ~Fits(i, c) /\ ptable[i] # 0
    <3>1. i \notin stops
      BY <2>1, <2>2, <2>3
    <3> QED
      BY <3>1
  <2> QED
    BY <2>2, <2>3, <1>2
<1> QED
  BY <1>3, <1>4

-----------------------------------------------------------------------------
(* The sizes nac_mem() can ask for: the requested one and what halving makes
   of it. *)
Sizes ==
  {s \in Nat : \A S \in SUBSET Nat :
                 Request \in S /\ (\A x \in S : x \div 2 \in S) => s \in S}

(* The driver's own sizes are whole pieces until they are too small to be
   taken; a size that is not loses the fraction in TakenFrom. *)
WholePieces == \A s \in Sizes : s > MinSize => s % PieceSize = 0

(* Halving stays among the sizes. *)
LEMMA SizesFacts ==
  /\ Request \in Sizes
  /\ \A s \in Sizes : s \in Nat /\ s \div 2 \in Sizes
<1>1. \A s \in Nat : s \div 2 \in Nat
  OBVIOUS
<1> QED
  BY <1>1, PoolAssumption DEF Sizes

TypeOK ==
  /\ pc \in {"load", "carve", "carved", "ready", "exited"}
  /\ ptable \in [Slot -> Pieces \cup {0}]
  /\ cstart \in Slot
  /\ card \in 0 .. CardCount
  /\ size \in [Cards -> Nat]
  /\ vaddr \in [Cards -> Pieces \cup {0}]
  /\ held \in SUBSET Pieces

(* No piece is in two slots. *)
EachOnce ==
  \A i, j \in Slot : i # j /\ ptable[i] # 0 => ptable[i] # ptable[j]

(* Cards that nac_mem() has not come to have no area and a size to ask for. *)
StillAsked ==
  pc \in {"load", "carve"} =>
    \A c \in Cards : c >= card => vaddr[c] = 0 /\ size[c] \in Sizes /\ size[c] > MinSize

(* An area consists of pieces over its whole length. *)
AreaWhole ==
  \A c \in Cards : vaddr[c] # 0 =>
    \A m \in Nat : m * PieceSize < size[c] => vaddr[c] + m * PieceSize \in Pieces

(* What is held is in the table or in exactly one area. *)
HeldExact ==
  pc # "exited" =>
    /\ held = TablePieces \cup UNION {AreaPieces(c) : c \in Cards}
    /\ \A c \in Cards :
         /\ AreaPieces(c) \cap TablePieces = {}
         /\ \A d \in Cards \ {c} : AreaPieces(c) \cap AreaPieces(d) = {}

Phases ==
  /\ pc = "load" => /\ cstart = 0 /\ card = 0
                    /\ \A c \in Cards : vaddr[c] = 0
                    /\ \A i \in Slot : ptable[i] = 0
  /\ pc = "ready" => TablePieces = {}
  /\ pc = "exited" => held = {}

PoolInv == TypeOK /\ EachOnce /\ StillAsked /\ AreaWhole /\ HeldExact /\ Phases

(* Until the first area is taken the table is in descending order with zeros
   at its end, and the search starts at slot 0 if the table is not full. *)
Sorted ==
  pc = "carve" /\ card = 0 =>
    /\ \A i, j \in Slot : i < j /\ ptable[j] # 0 => ptable[i] > ptable[j]
    /\ ptable[0] # 0
    /\ ptable[Slots - 1] = 0 => cstart = 0

-----------------------------------------------------------------------------
(* Pieces lie at whole multiples of their size, so the pieces from an address
   on are its successive neighbours. *)
LEMMA Multiples ==
  /\ \A k, l \in Int : PieceSize * k < PieceSize * l => k < l
  /\ \A k, l \in Int : k < l => PieceSize * k < PieceSize * l
  /\ \A c \in Nat : c % PieceSize = 0 => c = (c \div PieceSize) * PieceSize
  /\ \A c \in Nat : c \div PieceSize \in Nat
<1> USE PoolAssumption
<1>1. ASSUME NEW k \in Int, NEW l \in Int, PieceSize * k < PieceSize * l
      PROVE  k < l
  BY <1>1
<1>2. ASSUME NEW k \in Int, NEW l \in Int, k < l
      PROVE  PieceSize * k < PieceSize * l
  BY <1>2
<1>3. ASSUME NEW c \in Nat
      PROVE  /\ c \div PieceSize \in Nat
             /\ c % PieceSize = 0 => c = (c \div PieceSize) * PieceSize
  OBVIOUS
<1> QED
  BY <1>1, <1>2, <1>3

(* The pieces between an address and n pieces further on. *)
LEMMA PiecesFrom ==
  ASSUME NEW b \in Pieces, NEW n \in Nat
  PROVE  {p \in Pieces : b <= p /\ p < b + n * PieceSize}
           \subseteq {b + m * PieceSize : m \in 0 .. n - 1}
<1> USE PoolAssumption
<1> SUFFICES ASSUME NEW p \in Pieces, b <= p, p < b + n * PieceSize
             PROVE  \E m \in 0 .. n - 1 : p = b + m * PieceSize
  OBVIOUS
<1>1. PICK k \in 1 .. MaxPiece : p = PieceSize * k
  BY DEF Pieces
<1>2. PICK l \in 1 .. MaxPiece : b = PieceSize * l
  BY DEF Pieces
<1>3. ~(k < l)
  BY <1>1, <1>2, Multiples
<1>4. b + n * PieceSize = PieceSize * (l + n)
  BY <1>2
<1>5. k < l + n
  BY <1>1, <1>4, Multiples
<1>6. k - l \in 0 .. n - 1 /\ p = b + (k - l) * PieceSize
  BY <1>1, <1>2, <1>3, <1>5
<1> QED
  BY <1>6

(* One successful call of nac_mem_findcontig: the slots it empties held the
   pieces of the area, one after the other, and nothing else. *)
LEMMA Carved ==
  ASSUME WholePieces, PoolInv, CarveFound
  PROVE  LET c == size[card]
             i == Stop(c)
             n == c \div PieceSize
         IN  /\ card \in Cards /\ c \in Nat /\ c = n * PieceSize
             /\ n \in Nat \ {0} /\ i \in 1 .. Slots - 1 /\ n <= i
             /\ ptable[i - 1] \in Pieces
             /\ \A m \in 0 .. n - 1 :
                  /\ i - 1 - m \in Slot
                  /\ ptable[i - 1 - m] = ptable[i - 1] + m * PieceSize
                  /\ ptable[i - 1 - m] \in Pieces
<1> USE PoolAssumption
<1> DEFINE c == size[card]
           i == Stop(c)
           n == c \div PieceSize
<1>0. TypeOK /\ StillAsked
  BY DEF PoolInv
<1>1. card \in Cards /\ c \in Sizes /\ c \in Nat /\ c > MinSize
  BY <1>0 DEF CarveFound, StillAsked, TypeOK, Cards
<1>2. c = n * PieceSize /\ n \in Nat
  <2> HIDE DEF c
  <2>1. c % PieceSize = 0
    BY <1>1 DEF WholePieces
  <2> QED
    BY <1>1, <2>1, Multiples
<1>3. cstart \in Slot /\ cstart \in Nat
  BY <1>0 DEF TypeOK, Slot
<1>4. i \in cstart + 1 .. Slots - 1 /\ Fits(i, c)
  <2>1. i < Slots /\ Fits(i, c)
    BY DEF CarveFound
  <2> HIDE DEF c
  <2>2. i \in cstart + 1 .. Slots
    BY <1>3, StopFacts
  <2> QED
    BY <2>1, <2>2
<1> HIDE DEF n, i, c
<1>5. n # 0
  <2>1. c > 0
    BY <1>1
  <2> QED
    BY <1>2, <2>1
<1>6. Pieces \subseteq Nat \ {0}
  BY PiecesFinite
<1>7. i - 1 \in Slot /\ ptable[i - 1] \in Pieces
  <2>1. i - 1 \in Slot
    BY <1>3, <1>4 DEF Slot
  <2>2. ptable[i - 1] # 0
    <3>1. CASE i - 1 = cstart
      BY <3>1 DEF CarveFound
    <3>2. CASE i - 1 # cstart
      <4>1. i - 1 \in cstart + 1 .. Slots - 1 /\ i - 1 < i
        BY <1>3, <1>4, <3>2
      <4> QED
        BY <4>1, <1>3, StopFacts DEF i
    <3> QED
      BY <3>1, <3>2
  <2> QED
    BY <2>1, <2>2, <1>0 DEF TypeOK
<1>8. RunStart(i) \in cstart .. i - 1 /\ (i - RunStart(i)) * PieceSize >= c
  <2>1. i \in Nat /\ cstart < i
    BY <1>3, <1>4
  <2> QED
    BY <2>1, <1>3, <1>4, RunStartFacts DEF Fits
<1>9. n <= i - RunStart(i)
  <2> DEFINE d == i - RunStart(i)
  <2>1. d \in Int /\ PieceSize * d >= PieceSize * n
    BY <1>8, <1>2, <1>3, <1>4
  <2>2. ~(d < n)
    <3> HIDE DEF d
    <3> QED
      BY <2>1, <1>2, Multiples
  <2> QED
    BY <2>1, <2>2, <1>2
<1>10. ASSUME NEW m \in 0 .. n - 1
       PROVE  /\ i - 1 - m \in Slot
              /\ ptable[i - 1 - m] = ptable[i - 1] + m * PieceSize
              /\ ptable[i - 1 - m] \in Pieces
  <2>1. m \in 0 .. i - 1 - RunStart(i) /\ i - 1 - m \in Slot
    BY <1>2, <1>3, <1>4, <1>8, <1>9 DEF Slot
  <2>2. ptable \in [Slot -> Nat] /\ i \in 1 .. Slots /\ cstart < i
    <3>1. ptable \in [Slot -> Pieces \cup {0}] /\ Pieces \cup {0} \subseteq Nat
      BY <1>0, <1>6 DEF TypeOK
    <3>2. ptable \in [Slot -> Nat]
      BY <3>1
    <3> QED
      BY <3>2, <1>3, <1>4
  <2>3. ptable[i - 1 - m] = ptable[i - 1] + m * PieceSize
    BY <2>1, <2>2, <1>3, RunPieces
  <2>4. ptable[i - 1 - m] # 0
    <3>1. ptable[i - 1] \in Nat \ {0}
      BY <1>6, <1>7
    <3>2. m \in Nat /\ PieceSize \in Nat
      BY <1>2
    <3>3. m * PieceSize \in Nat
      BY <3>2
    <3> QED
      BY <2>3, <3>1, <3>3
  <2> QED
    BY <2>1, <2>3, <2>4, <1>0 DEF TypeOK
<1>11. i \in 1 .. Slots - 1 /\ n <= i
  BY <1>2, <1>3, <1>4, <1>8, <1>9
<1> QED
  BY <1>1, <1>2, <1>5, <1>7, <1>10, <1>11 DEF n, i, c

(* What the call moves: the pieces of the emptied slots leave the table and are
   the new area; the other areas stay what they are. *)
LEMMA CarvedSets ==
  ASSUME WholePieces, PoolInv, CarveFound
  PROVE  \E taken \in SUBSET TablePieces :
           /\ TablePieces' = TablePieces \ taken
           /\ AreaPieces(card) = {}
           /\ \A d \in Cards : AreaPieces(d)' = IF d = card THEN taken ELSE AreaPieces(d)
           /\ vaddr' = [vaddr EXCEPT ![card] = vaddr'[card]]
           /\ vaddr'[card] \in Pieces
           /\ \A m \in Nat : m * PieceSize < size[card] =>
                               vaddr'[card] + m * PieceSize \in Pieces
<1> USE PoolAssumption
<1> DEFINE i == Stop(size[card])
           n == size[card] \div PieceSize
           b == ptable[i - 1]
           slots == {j \in Slot : i - n <= j /\ j < i}
           taken == {ptable[j] : j \in slots}
<1>0. TypeOK /\ EachOnce /\ StillAsked
  BY DEF PoolInv
<1>1. /\ card \in Cards /\ size[card] \in Nat /\ size[card] = n * PieceSize
      /\ n \in Nat \ {0} /\ i \in 1 .. Slots - 1 /\ n <= i
      /\ b \in Pieces
      /\ \A m \in 0 .. n - 1 :
           /\ i - 1 - m \in Slot
           /\ ptable[i - 1 - m] = b + m * PieceSize
           /\ ptable[i - 1 - m] \in Pieces
  BY Carved
<1>2. /\ vaddr' = [vaddr EXCEPT ![card] = b]
      /\ ptable' = [j \in Slot |-> IF i - n <= j /\ j < i THEN 0 ELSE ptable[j]]
      /\ UNCHANGED size
  BY DEF CarveFound, TakenFrom
<1>3. Pieces \subseteq Nat \ {0}
  BY PiecesFinite
<1> HIDE DEF n, i, b
<1>4. ASSUME NEW j \in slots
      PROVE  /\ i - 1 - j \in 0 .. n - 1 /\ ptable[j] = b + (i - 1 - j) * PieceSize
             /\ ptable[j] \in Pieces /\ ptable[j] # 0
  <2>1. j \in Nat /\ i - 1 - j \in 0 .. n - 1 /\ i - 1 - (i - 1 - j) = j
    BY <1>1, <1>4 DEF Slot
  <2> QED
    BY <2>1, <1>1, <1>3
<1>5. ASSUME NEW m \in 0 .. n - 1 PROVE b + m * PieceSize \in taken
  <2>1. i - 1 - m \in slots
    BY <1>1 DEF Slot
  <2> QED
    BY <2>1, <1>1
<1>6. taken \in SUBSET TablePieces
  BY <1>4 DEF TablePieces
<1>7. TablePieces' = TablePieces \ taken
  <2>1. ASSUME NEW p \in TablePieces \ taken PROVE p \in TablePieces'
    <3>1. PICK j \in Slot : ptable[j] = p /\ p # 0
      BY DEF TablePieces
    <3>2. j \notin slots
      BY <3>1, <2>1
    <3>3. ptable'[j] = p
      BY <3>1, <3>2, <1>2
    <3> QED
      BY <3>1, <3>3 DEF TablePieces
  <2>2. ASSUME NEW p \in TablePieces' PROVE p \in TablePieces \ taken
    <3>1. PICK j \in Slot : ptable'[j] = p /\ p # 0
      BY DEF TablePieces
    <3>2. j \notin slots /\ ptable[j] = p
      BY <3>1, <1>2
    <3>3. ASSUME NEW k \in slots PROVE ptable[k] # p
      BY <1>0, <3>1, <3>2 DEF EachOnce
    <3> QED
      BY <3>1, <3>2, <3>3 DEF TablePieces
  <2> QED
    BY <2>1, <2>2
<1>8. vaddr[card] = 0 /\ vaddr \in [Cards -> Pieces \cup {0}]
  BY <1>0, <1>1 DEF StillAsked, TypeOK, CarveFound, Cards
<1>9. vaddr'[card] = b /\ b # 0
  BY <1>1, <1>2, <1>3, <1>8
<1>10. AreaPieces(card) = {}
  BY <1>8 DEF AreaPieces
<1>11. ASSUME NEW c \in Cards, c = card PROVE AreaPieces(c)' = taken
  <2>1. AreaPieces(c)' = {p \in Pieces : b <= p /\ p < b + n * PieceSize}
    BY <1>1, <1>2, <1>9, <1>11 DEF AreaPieces
  <2>2. ASSUME NEW p \in Pieces, b <= p, p < b + n * PieceSize PROVE p \in taken
    <3>1. p \in {b + m * PieceSize : m \in 0 .. n - 1}
      BY <2>2, <1>1, PiecesFrom
    <3> QED
      BY <3>1, <1>5
  <2>3. ASSUME NEW p \in taken
        PROVE  p \in Pieces /\ b <= p /\ p < b + n * PieceSize
    <3>1. PICK j \in slots : p = ptable[j]
      OBVIOUS
    <3> DEFINE m == i - 1 - j
    <3>2. m \in 0 .. n - 1 /\ p = b + m * PieceSize /\ p \in Pieces
      BY <3>1, <1>4
    <3> HIDE DEF m
    <3>3. m \in Nat /\ n \in Nat /\ b \in Nat /\ m < n
      BY <3>2, <1>1, <1>3
    <3>4. m * PieceSize \in Nat
      BY <3>3
    <3>5. PieceSize * m < PieceSize * n
      <4>1. m \in Int /\ n \in Int
        BY <3>3
      <4> QED
        BY <4>1, <3>3, Multiples
    <3>6. m * PieceSize < n * PieceSize
      BY <3>3, <3>5
    <3> QED
      BY <3>2, <3>3, <3>4, <3>6
  <2> HIDE DEF taken
  <2> QED
    BY <2>1, <2>2, <2>3
<1>12. ASSUME NEW d \in Cards \ {card} PROVE AreaPieces(d)' = AreaPieces(d)
  BY <1>2, <1>8 DEF AreaPieces
<1>13. ASSUME NEW m \in Nat, m * PieceSize < size[card]
       PROVE  vaddr'[card] + m * PieceSize \in Pieces
  <2>1. PieceSize * m < PieceSize * n
    BY <1>1, <1>13
  <2>2. m \in 0 .. n - 1
    BY <2>1, <1>1, Multiples
  <2> QED
    BY <2>2, <1>1, <1>9
<1>14. vaddr' = [vaddr EXCEPT ![card] = vaddr'[card]]
  BY <1>2, <1>8, <1>9, <1>1
<1> HIDE DEF taken
<1> QED
  BY <1>1, <1>6, <1>7, <1>9, <1>10, <1>11, <1>12, <1>13, <1>14

-----------------------------------------------------------------------------
(* The invariant holds before nac_mem_init has taken a piece. *)
LEMMA PoolInit == Init => PoolInv
<1> SUFFICES ASSUME Init PROVE PoolInv
  OBVIOUS
<1> USE PoolAssumption
<1>1. TypeOK
  BY DEF Init, TypeOK, Slot, Cards
<1>2. EachOnce /\ AreaWhole /\ Phases
  BY DEF Init, EachOnce, AreaWhole, Phases, Cards
<1>3. StillAsked
  BY SizesFacts DEF Init, StillAsked, Cards
<1>4. HeldExact
  <2>1. \A c \in Cards : AreaPieces(c) = {}
    BY DEF Init, AreaPieces
  <2>2. TablePieces = {}
    BY DEF Init, TablePieces
  <2>3. UNION {AreaPieces(c) : c \in Cards} = {}
    BY <2>1
  <2> QED
    BY <2>1, <2>2, <2>3 DEF HeldExact, Init
<1> QED
  BY <1>1, <1>2, <1>3, <1>4 DEF PoolInv

(* Loading and sorting the table: every piece held is in the table once. *)
LEMMA LoadTableKeeps ==
  ASSUME PoolInv, LoadTable
  PROVE  PoolInv'
<1> USE PoolAssumption
<1>0. TypeOK /\ StillAsked /\ AreaWhole /\ Phases /\ pc = "load"
  BY DEF PoolInv, LoadTable
<1>1. PICK S \in SUBSET Pieces :
        /\ Cardinality(S) \in 1 .. Slots
        /\ ptable' = Table(S)
        /\ held' = S
  BY DEF LoadTable
<1>2. UNCHANGED <<cstart, card, size, vaddr>> /\ pc' = "carve"
  BY DEF LoadTable
<1>3. /\ ptable' \in [Slot -> S \cup {0}]
      /\ {ptable'[i] : i \in Slot} \ {0} = S
      /\ \A i, j \in Slot : i < j /\ ptable'[j] # 0 => ptable'[i] > ptable'[j]
  BY <1>1, TableFacts
<1>4. TypeOK'
  <2>1. S \cup {0} \subseteq Pieces \cup {0}
    OBVIOUS
  <2>2. ptable' \in [Slot -> Pieces \cup {0}]
    BY <1>3, <2>1
  <2> QED
    BY <2>2, <1>0, <1>1, <1>2 DEF TypeOK
<1>5. EachOnce'
  <2> SUFFICES ASSUME NEW i \in Slot, NEW j \in Slot, i # j, ptable'[i] # 0,
                      ptable'[i] = ptable'[j]
               PROVE  FALSE
    BY DEF EachOnce
  <2>1. ptable'[i] \in Nat /\ ptable'[j] \in Nat
    BY <1>1, <1>3, PiecesFinite
  <2>2. i < j \/ j < i
    BY DEF Slot
  <2> QED
    BY <2>1, <2>2, <1>3
<1>6. StillAsked' /\ AreaWhole' /\ Phases'
  BY <1>0, <1>2 DEF StillAsked, AreaWhole, Phases
<1>7. HeldExact'
  <2>1. \A c \in Cards : AreaPieces(c)' = {}
    BY <1>0, <1>2 DEF AreaPieces, Phases
  <2>2. TablePieces' = S
    BY <1>3 DEF TablePieces
  <2>3. UNION {AreaPieces(c)' : c \in Cards} = {}
    BY <2>1
  <2> QED
    BY <2>1, <2>2, <2>3, <1>1 DEF HeldExact
<1> QED
  BY <1>4, <1>5, <1>6, <1>7 DEF PoolInv

(* Carving an area moves its pieces from the table to the area. *)
LEMMA CarveFoundKeeps ==
  ASSUME WholePieces, PoolInv, CarveFound
  PROVE  PoolInv'
<1> USE PoolAssumption
<1> DEFINE i == Stop(size[card])
           n == size[card] \div PieceSize
<1>0. TypeOK /\ EachOnce /\ StillAsked /\ AreaWhole /\ HeldExact
      /\ pc = "carve" /\ card < CardCount
  BY DEF PoolInv, CarveFound
<1>1. PICK taken \in SUBSET TablePieces :
           /\ TablePieces' = TablePieces \ taken
           /\ AreaPieces(card) = {}
           /\ \A d \in Cards : AreaPieces(d)' = IF d = card THEN taken ELSE AreaPieces(d)
           /\ vaddr' = [vaddr EXCEPT ![card] = vaddr'[card]]
           /\ vaddr'[card] \in Pieces
           /\ \A m \in Nat : m * PieceSize < size[card] =>
                               vaddr'[card] + m * PieceSize \in Pieces
  BY CarvedSets
<1>2. /\ ptable' = [j \in Slot |-> IF i - n <= j /\ j < i THEN 0 ELSE ptable[j]]
      /\ cstart' = i /\ card' = card + 1
      /\ UNCHANGED <<pc, size, held>>
  BY DEF CarveFound, TakenFrom
<1>3. card \in Cards /\ i \in Slot
  <2>1. card \in Cards /\ i \in 1 .. Slots - 1
    BY Carved
  <2> QED
    BY <2>1 DEF Slot
<1> HIDE DEF i, n
<1>4. TypeOK'
  <2>1. ptable' \in [Slot -> Pieces \cup {0}]
    BY <1>0, <1>2 DEF TypeOK
  <2>2. vaddr' \in [Cards -> Pieces \cup {0}]
    BY <1>0, <1>1 DEF TypeOK
  <2>3. card' \in 0 .. CardCount
    BY <1>2, <1>3 DEF Cards
  <2> QED
    BY <2>1, <2>2, <2>3, <1>0, <1>2, <1>3 DEF TypeOK
<1>5. EachOnce'
  BY <1>0, <1>2 DEF EachOnce
<1>6. StillAsked'
  <2> SUFFICES ASSUME NEW c \in Cards, c >= card'
               PROVE  vaddr'[c] = 0 /\ size'[c] \in Sizes /\ size'[c] > MinSize
    BY DEF StillAsked
  <2>1. c # card /\ c >= card
    BY <1>2, <1>3 DEF Cards
  <2> QED
    BY <2>1, <1>0, <1>1, <1>2 DEF StillAsked, TypeOK
<1>7. AreaWhole'
  <2> SUFFICES ASSUME NEW c \in Cards, vaddr'[c] # 0,
                      NEW m \in Nat, m * PieceSize < size[c]
               PROVE  vaddr'[c] + m * PieceSize \in Pieces
    BY <1>2 DEF AreaWhole
  <2>1. CASE c = card
    BY <2>1, <1>1
  <2>2. CASE c # card
    <3>1. vaddr'[c] = vaddr[c]
      BY <2>2, <1>0, <1>1 DEF TypeOK
    <3> QED
      BY <3>1, <1>0 DEF AreaWhole
  <2> QED
    BY <2>1, <2>2
<1>8. HeldExact'
  <2>1. /\ held = TablePieces \cup UNION {AreaPieces(c) : c \in Cards}
        /\ \A c \in Cards :
             /\ AreaPieces(c) \cap TablePieces = {}
             /\ \A d \in Cards \ {c} : AreaPieces(c) \cap AreaPieces(d) = {}
    BY <1>0 DEF HeldExact
  <2> DEFINE A(c) == AreaPieces(c)
             B(c) == AreaPieces(c)'
             t == TablePieces
             u == TablePieces'
  <2>2. /\ \A c \in Cards : B(c) = IF c = card THEN taken ELSE A(c)
        /\ A(card) = {} /\ u = t \ taken /\ taken \subseteq t
    BY <1>1
  <2>3. held = t \cup UNION {A(c) : c \in Cards}
    BY <2>1
  <2>4. \A c \in Cards : A(c) \cap t = {} /\ \A d \in Cards \ {c} : A(c) \cap A(d) = {}
    BY <2>1
  <2> HIDE DEF A, B, t, u
  <2>5. held = u \cup UNION {B(c) : c \in Cards}
    <3>1. ASSUME NEW p \in held PROVE p \in u \cup UNION {B(c) : c \in Cards}
      <4>1. CASE p \in taken
        BY <4>1, <2>2, <1>3
      <4>2. CASE p \in t \ taken
        BY <4>2, <2>2
      <4>3. CASE \E c \in Cards : p \in A(c)
        BY <4>3, <2>2
      <4> QED
        BY <4>1, <4>2, <4>3, <2>3, <3>1
    <3>2. ASSUME NEW p \in u PROVE p \in held
      BY <2>2, <2>3
    <3>3. ASSUME NEW c \in Cards, NEW p \in B(c) PROVE p \in held
      BY <2>2, <2>3
    <3> QED
      BY <3>1, <3>2, <3>3
  <2>6. ASSUME NEW c \in Cards
        PROVE  B(c) \cap u = {} /\ \A d \in Cards \ {c} : B(c) \cap B(d) = {}
    BY <2>2, <2>4
  <2> QED
    BY <2>5, <2>6, <1>2 DEF HeldExact, B, u
<1>9. Phases'
  BY <1>0, <1>2 DEF Phases
<1> QED
  BY <1>4, <1>5, <1>6, <1>7, <1>8, <1>9 DEF PoolInv

(* A refused size only moves the search and halves what is asked for: the card
   has no area yet, so no area changes. *)
LEMMA CarveFailedKeeps ==
  ASSUME PoolInv, CarveFailed
  PROVE  PoolInv'
<1> USE PoolAssumption
<1>0. TypeOK /\ EachOnce /\ StillAsked /\ AreaWhole /\ HeldExact
      /\ pc = "carve" /\ card < CardCount
  BY DEF PoolInv, CarveFailed
<1>1. card \in Cards /\ cstart \in Slot
  BY <1>0 DEF TypeOK, Cards
<1>2. /\ cstart' = CstartAfterFailure
      /\ size' = [size EXCEPT ![card] = @ \div 2]
      /\ pc' = IF size[card] \div 2 <= MinSize THEN "carved" ELSE "carve"
      /\ UNCHANGED <<ptable, card, vaddr, held>>
  BY DEF CarveFailed
<1>3. /\ vaddr[card] = 0 /\ size[card] \in Nat /\ size[card] \in Sizes
      /\ size[card] \div 2 \in Nat /\ size[card] \div 2 \in Sizes
  <2>1. card >= card
    BY <1>1 DEF Cards
  <2>2. vaddr[card] = 0 /\ size[card] \in Sizes
    BY <1>0, <1>1, <2>1 DEF StillAsked
  <2> QED
    BY <2>2, SizesFacts
<1>4. cstart' \in Slot
  <2> DEFINE i == Stop(size[card])
  <2>1. i \in cstart + 1 .. Slots
    BY <1>1, StopFacts
  <2>2. cstart \in Nat /\ Slots \in Nat /\ cstart < Slots
    BY <1>1 DEF Slot
  <2>3. RunStart(Slots) \in Slot
    BY <2>2, RunStartFacts DEF Slot
  <2> HIDE DEF i
  <2>4. 0 \in Slot
    BY DEF Slot
  <2>5. CstartAfterFailure =
          CASE ptable[cstart] = 0 -> cstart
            [] ptable[cstart] # 0 /\ i < Slots -> 0
            [] ptable[cstart] # 0 /\ i = Slots -> RunStart(Slots)
    BY DEF CstartAfterFailure, i
  <2>6. i < Slots \/ i = Slots
    BY <2>1, <2>2
  <2> QED
    BY <2>3, <2>4, <2>5, <2>6, <1>1, <1>2
<1>5. TypeOK'
  BY <1>0, <1>1, <1>2, <1>3, <1>4 DEF TypeOK
<1>6. EachOnce' /\ Phases'
  BY <1>0, <1>2 DEF EachOnce, Phases
<1>7. StillAsked'
  <2> SUFFICES ASSUME pc' = "carve", NEW c \in Cards, c >= card
               PROVE  vaddr[c] = 0 /\ size'[c] \in Sizes /\ size'[c] > MinSize
    BY <1>2 DEF StillAsked
  <2>1. vaddr[c] = 0 /\ size[c] \in Sizes /\ size[c] > MinSize
    BY <1>0 DEF StillAsked
  <2>2. size'[c] = IF c = card THEN size[card] \div 2 ELSE size[c]
    BY <1>0, <1>2 DEF TypeOK
  <2>3. ~(size[card] \div 2 <= MinSize)
    BY <1>2
  <2> QED
    BY <2>1, <2>2, <2>3, <1>3
<1>8. ASSUME NEW c \in Cards PROVE vaddr'[c] = 0 \/ size'[c] = size[c]
  BY <1>0, <1>2, <1>3 DEF TypeOK
<1>9. AreaWhole'
  BY <1>0, <1>2, <1>8 DEF AreaWhole
<1>10. ASSUME NEW c \in Cards PROVE AreaPieces(c)' = AreaPieces(c)
  BY <1>2, <1>8 DEF AreaPieces
<1>11. HeldExact'
  BY <1>0, <1>2, <1>10 DEF HeldExact, TablePieces
<1> QED
  BY <1>5, <1>6, <1>7, <1>9, <1>11 DEF PoolInv

(* Freeing the table and the areas. *)
LEMMA OthersKeep ==
  ASSUME PoolInv, CarveDone \/ FreeTable \/ Cleanup \/ UNCHANGED vars
  PROVE  PoolInv'
<1> USE PoolAssumption
<1>0. TypeOK /\ EachOnce /\ StillAsked /\ AreaWhole /\ HeldExact /\ Phases
  BY DEF PoolInv
<1>1. CASE CarveDone
  <2>1. \A c \in Cards : AreaPieces(c)' = AreaPieces(c)
    BY <1>1 DEF CarveDone, AreaPieces
  <2>2. HeldExact'
    BY <1>0, <1>1, <2>1 DEF CarveDone, HeldExact, TablePieces
  <2> QED
    BY <1>0, <1>1, <2>2 DEF CarveDone, PoolInv, TypeOK, EachOnce, StillAsked, AreaWhole, Phases
<1>2. CASE FreeTable
  <2>1. \A c \in Cards : AreaPieces(c)' = AreaPieces(c)
    BY <1>2 DEF FreeTable, AreaPieces
  <2>2. TablePieces' = {}
    BY <1>2 DEF FreeTable, TablePieces
  <2>3. /\ held = TablePieces \cup UNION {AreaPieces(c) : c \in Cards}
        /\ \A c \in Cards : AreaPieces(c) \cap TablePieces = {}
        /\ \A c \in Cards : \A d \in Cards \ {c} : AreaPieces(c) \cap AreaPieces(d) = {}
    BY <1>0, <1>2 DEF HeldExact, FreeTable
  <2>4. held' = UNION {AreaPieces(c) : c \in Cards}
    <3>1. held' = held \ TablePieces
      BY <1>2 DEF FreeTable
    <3> QED
      BY <3>1, <2>3
  <2>5. HeldExact'
    BY <2>1, <2>2, <2>3, <2>4 DEF HeldExact
  <2>6. TypeOK'
    BY <1>0, <1>2 DEF FreeTable, TypeOK
  <2> QED
    BY <1>0, <1>2, <2>2, <2>5, <2>6
       DEF FreeTable, PoolInv, EachOnce, StillAsked, AreaWhole, Phases
<1>3. CASE Cleanup
  <2>1. held = TablePieces \cup UNION {AreaPieces(c) : c \in Cards} /\ TablePieces = {}
    BY <1>0, <1>3 DEF HeldExact, Phases, Cleanup
  <2>2. held' = {}
    BY <1>3, <2>1 DEF Cleanup
  <2> QED
    BY <1>0, <1>3, <2>2
       DEF Cleanup, PoolInv, TypeOK, EachOnce, StillAsked, AreaWhole, HeldExact, Phases
<1>4. CASE UNCHANGED vars
  <2>1. \A c \in Cards : AreaPieces(c)' = AreaPieces(c)
    BY <1>4 DEF vars, AreaPieces
  <2>2. HeldExact'
    BY <1>0, <1>4, <2>1 DEF vars, HeldExact, TablePieces
  <2> QED
    BY <1>0, <1>4, <2>2
       DEF vars, PoolInv, TypeOK, EachOnce, StillAsked, AreaWhole, Phases, TablePieces
<1> QED
  BY <1>1, <1>2, <1>3, <1>4

(* The invariant of drv/nac_mem.c: what is held is in the table or in exactly
   one area, and areas are whole runs of pieces. *)
THEOREM PoolInductive == WholePieces /\ Spec => []PoolInv
<1> SUFFICES ASSUME WholePieces PROVE Spec => []PoolInv
  OBVIOUS
<1>1. Init => PoolInv
  BY PoolInit
<1>2. PoolInv /\ [Next]_vars => PoolInv'
  BY LoadTableKeeps, CarveFoundKeeps, CarveFailedKeeps, OthersKeep DEF Next
<1> QED
  BY <1>1, <1>2, PTL DEF Spec

(* nac_mem.c hands every card memory it holds, over the whole length and no
   other card's, until the module is unloaded. *)
THEOREM PoolHeld == WholePieces /\ Spec => []AreaHeld
<1>1. PoolInv => AreaHeld
  <2> SUFFICES ASSUME PoolInv, pc # "exited", NEW c \in Cards
               PROVE  /\ AreaPieces(c) \subseteq held \ TablePieces
                      /\ \A d \in Cards \ {c} : AreaPieces(c) \cap AreaPieces(d) = {}
    BY DEF AreaHeld
  <2>1. HeldExact
    BY DEF PoolInv
  <2> QED
    BY <2>1 DEF HeldExact
<1> QED
  BY <1>1, PoolInductive, PTL

(* nac_mem_cleanup gives every piece back that was not given back before. *)
THEOREM PoolReturned == WholePieces /\ Spec => []AllReturned
<1>1. PoolInv => AllReturned
  BY DEF PoolInv, Phases, AllReturned
<1> QED
  BY <1>1, PoolInductive, PTL

-----------------------------------------------------------------------------
(* The search for the first card's area.  Nothing here depends on the sizes. *)
FreshTable == pc = "load" => cstart = 0 /\ card = 0

FirstInv == TypeOK /\ FreshTable /\ Sorted

(* The search for the first area starts at slot 0. *)
LEMMA FirstInvInit == Init => FirstInv
  BY PoolAssumption DEF Init, FirstInv, FreshTable, Sorted, TypeOK, Slot, Cards

(* It starts there again after every failure: the loop reaches the end of the
   table only when the table is full. *)
LEMMA FirstInvNext == FirstInv /\ [Next]_vars => FirstInv'
<1> SUFFICES ASSUME FirstInv, [Next]_vars PROVE FirstInv'
  OBVIOUS
<1> USE PoolAssumption
<1>0. TypeOK /\ FreshTable /\ Sorted
  BY DEF FirstInv
<1>1. CASE LoadTable
  <2>1. PICK S \in SUBSET Pieces :
          /\ Cardinality(S) \in 1 .. Slots
          /\ ptable' = Table(S)
          /\ held' = S
    BY <1>1 DEF LoadTable
  <2>2. UNCHANGED <<cstart, card, size, vaddr>> /\ pc' = "carve" /\ pc = "load"
    BY <1>1 DEF LoadTable
  <2>3. /\ ptable' \in [Slot -> S \cup {0}]
        /\ \A i, j \in Slot : i < j /\ ptable'[j] # 0 => ptable'[i] > ptable'[j]
        /\ ptable'[0] # 0
    BY <2>1, TableFacts
  <2>4. ptable' \in [Slot -> Pieces \cup {0}]
    <3>1. S \cup {0} \subseteq Pieces \cup {0}
      OBVIOUS
    <3> QED
      BY <2>3, <3>1
  <2>5. TypeOK'
    BY <2>1, <2>2, <2>4, <1>0 DEF TypeOK
  <2>6. FreshTable' /\ Sorted'
    BY <1>0, <2>2, <2>3 DEF FreshTable, Sorted
  <2> QED
    BY <2>5, <2>6 DEF FirstInv
<1>2. CASE CarveFound
  <2> DEFINE i == Stop(size[card])
             t == TakenFrom(i, size[card])
  <2>1. /\ pc = "carve" /\ card < CardCount /\ i < Slots
        /\ vaddr' = [vaddr EXCEPT ![card] = ptable[i - 1]]
        /\ ptable' = [j \in Slot |-> IF t <= j /\ j < i THEN 0 ELSE ptable[j]]
        /\ cstart' = i /\ card' = card + 1
        /\ UNCHANGED <<pc, size, held>>
    BY <1>2 DEF CarveFound
  <2>2. i \in cstart + 1 .. Slots
    BY <1>0, StopFacts DEF TypeOK
  <2> HIDE DEF i, t
  <2>3. i \in Slot /\ i - 1 \in Slot
    BY <1>0, <2>1, <2>2 DEF TypeOK, Slot
  <2>4. TypeOK'
    <3>1. ptable' \in [Slot -> Pieces \cup {0}]
      BY <1>0, <2>1 DEF TypeOK
    <3>2. vaddr' \in [Cards -> Pieces \cup {0}]
      BY <1>0, <2>1, <2>3 DEF TypeOK
    <3>3. card' \in 0 .. CardCount
      BY <1>0, <2>1 DEF TypeOK
    <3> QED
      BY <3>1, <3>2, <3>3, <1>0, <2>1, <2>3 DEF TypeOK
  <2>5. FreshTable' /\ Sorted'
    BY <1>0, <2>1 DEF FreshTable, Sorted, TypeOK
  <2> QED
    BY <2>4, <2>5 DEF FirstInv
<1>3. CASE CarveFailed
  <2> DEFINE i == Stop(size[card])
  <2>1. /\ pc = "carve" /\ card < CardCount
        /\ ptable[cstart] = 0 \/ i = Slots \/ ~Fits(i, size[card])
        /\ cstart' = CstartAfterFailure
        /\ size' = [size EXCEPT ![card] = @ \div 2]
        /\ pc' \in {"carve", "carved"}
        /\ UNCHANGED <<ptable, card, vaddr, held>>
    BY <1>3 DEF CarveFailed
  <2>2. /\ i \in cstart + 1 .. Slots
        /\ \A k \in cstart + 1 .. Slots - 1 : k < i => ptable[k] # 0
    BY <1>0, StopFacts DEF TypeOK
  <2>3. CstartAfterFailure =
          CASE ptable[cstart] = 0 -> cstart
            [] ptable[cstart] # 0 /\ i < Slots -> 0
            [] ptable[cstart] # 0 /\ i = Slots -> RunStart(Slots)
    BY DEF CstartAfterFailure
  <2> HIDE DEF i
  <2>4. cstart \in Nat /\ cstart < Slots /\ Slots \in Nat
    BY <1>0 DEF TypeOK, Slot
  <2>5. RunStart(Slots) \in cstart .. Slots - 1
    BY <2>4, RunStartFacts
  <2>6. cstart' \in Slot
    BY <2>1, <2>2, <2>3, <2>4, <2>5 DEF Slot
  <2>7. size' \in [Cards -> Nat]
    <3>1. card \in Cards /\ size[card] \in Nat
      BY <1>0, <2>1 DEF TypeOK, Cards
    <3>2. size[card] \div 2 \in Nat
      BY <3>1
    <3> QED
      BY <3>1, <3>2, <2>1, <1>0 DEF TypeOK
  <2>8. TypeOK'
    BY <1>0, <2>1, <2>6, <2>7 DEF TypeOK
  <2>9. Sorted'
    <3> SUFFICES ASSUME card = 0, ptable[Slots - 1] = 0 PROVE cstart' = 0
      BY <1>0, <2>1 DEF Sorted
    <3>1. cstart = 0 /\ ptable[0] # 0
      BY <1>0, <2>1 DEF Sorted
    <3>2. Slots - 1 \in cstart + 1 .. Slots - 1
      BY <3>1, <2>4
    <3>3. ~(Slots - 1 < i)
      BY <3>2, <2>2
    <3> QED
      BY <3>1, <3>3, <2>1, <2>2, <2>3, <2>4
  <2>10. FreshTable'
    BY <2>1 DEF FreshTable
  <2> QED
    BY <2>8, <2>9, <2>10 DEF FirstInv
<1>4. CASE CarveDone
  BY <1>0, <1>4 DEF CarveDone, FirstInv, TypeOK, FreshTable, Sorted
<1>5. CASE FreeTable
  BY <1>0, <1>5 DEF FreeTable, FirstInv, TypeOK, FreshTable, Sorted
<1>6. CASE Cleanup
  BY <1>0, <1>6 DEF Cleanup, FirstInv, TypeOK, FreshTable, Sorted
<1>7. CASE UNCHANGED vars
  BY <1>0, <1>7 DEF vars, FirstInv, TypeOK, FreshTable, Sorted
<1> QED
  BY <1>1, <1>2, <1>3, <1>4, <1>5, <1>6, <1>7 DEF Next

(* nac_mem_findcontig refuses the first card a size only when no run of the
   table has it: it looks at every run from slot 0 on, unless the kernel had
   more pieces than the table has slots. *)
THEOREM FirstServed == Spec => FirstCardServed
<1> USE PoolAssumption
<1>1. FirstInv /\ [Next]_vars
      => (CarveFailed /\ card = 0 /\ ptable[Slots - 1] = 0 => ~SomeRun(size[0]))
  <2> SUFFICES ASSUME FirstInv, CarveFailed, card = 0, ptable[Slots - 1] = 0,
                      SomeRun(size[0])
               PROVE  FALSE
    OBVIOUS
  <2> DEFINE c == size[0]
             s == Stop(c)
  <2>0. TypeOK /\ Sorted
    BY DEF FirstInv
  <2>1. /\ cstart = 0 /\ ptable[0] # 0
        /\ \A i, j \in Slot : i < j /\ ptable[j] # 0 => ptable[i] > ptable[j]
        /\ s = Slots \/ ~Fits(s, c)
    BY <2>0 DEF CarveFailed, Sorted
  <2>2. /\ s \in cstart + 1 .. Slots
        /\ s < Slots => Fits(s, c) \/ ptable[s] = 0
        /\ \A i \in cstart + 1 .. Slots - 1 : i < s => ~Fits(i, c) /\ ptable[i] # 0
    BY <2>0, StopFacts DEF TypeOK
  <2>3. PICK i \in 1 .. Slots - 1, j \in Slot :
          /\ j < i /\ (i - j) * PieceSize >= c
          /\ ptable[i - 1] # 0 /\ ptable[i - 1] % Alignment = 0
          /\ \A k \in j + 1 .. i - 1 : ptable[k - 1] - ptable[k] = PieceSize
    BY DEF SomeRun
  <2>4. c \in Nat /\ ptable \in [Slot -> Nat]
    <3>1. c \in Nat /\ ptable \in [Slot -> Pieces \cup {0}]
      BY <2>0 DEF TypeOK, Cards
    <3>2. Pieces \cup {0} \subseteq Nat
      BY PiecesFinite
    <3> QED
      BY <3>1, <3>2
  <2> HIDE DEF c, s
  <2>5. Fits(i, c)
    <3> DEFINE r == RunStart(i)
    <3>1. /\ r \in cstart .. i - 1
          /\ r = cstart \/ ptable[r - 1] - ptable[r] # PieceSize
      <4>1. cstart \in Nat /\ i \in Nat /\ cstart < i
        BY <2>1, <2>3
      <4> QED
        BY <4>1, RunStartFacts
    <3> HIDE DEF r
    <3>2. r <= j
      <4> SUFFICES ASSUME j < r PROVE FALSE
        BY <3>1, <2>1 DEF Slot
      <4>1. r \in j + 1 .. i - 1 /\ r # cstart
        BY <3>1, <2>1 DEF Slot
      <4> QED
        BY <4>1, <3>1, <2>3
    <3>3. (i - r) * PieceSize >= (i - j) * PieceSize
      <4>1. i - r \in Int /\ i - j \in Int /\ ~(i - r < i - j)
        BY <3>1, <3>2, <2>1 DEF Slot
      <4>2. ~(PieceSize * (i - r) < PieceSize * (i - j))
        BY <4>1, Multiples
      <4> QED
        BY <4>1, <4>2
    <3>4. (i - r) * PieceSize \in Int /\ (i - j) * PieceSize \in Int
      BY <3>1, <2>1 DEF Slot
    <3>5. (i - r) * PieceSize >= c
      BY <3>3, <3>4, <2>3, <2>4
    <3> QED
      BY <3>5, <2>3 DEF Fits, r
  <2>6. s \in Nat /\ s <= i /\ s < Slots /\ s # i
    BY <2>1, <2>2, <2>3, <2>5
  <2>7. ptable[s] = 0
    BY <2>1, <2>2, <2>6
  <2>8. s \in Slot /\ i - 1 \in Slot /\ (s < i - 1 \/ s = i - 1)
    BY <2>6 DEF Slot
  <2>9. ptable[i - 1] \in Nat
    BY <2>4, <2>8
  <2> QED
    BY <2>1, <2>3, <2>7, <2>8, <2>9
<1> QED
  BY <1>1, FirstInvInit, FirstInvNext, PTL DEF Spec, FirstCardServed
-----------------------------------------------------------------------------

Units == 0 .. Boards - 1

(* The unit that owns an area, if there is one. *)
Owned(a) == \E u \in Units : mmbuf[u] = a

DriverType ==
  /\ loaded \in {"out", "in", "leaving"}
  /\ lost \in SUBSET Cards
  /\ attached \in [Units -> BOOLEAN]
  /\ device \in [Units -> Devices \cup {None}]
  /\ mmio \in [Units -> BOOLEAN]
  /\ mmbuf \in [Units -> Cards \cup {None}]
  /\ irq \in [Units -> BOOLEAN]
  /\ driverData \in [Devices -> Units \cup {None}]
  /\ inuse \in [Cards -> Nat]
  /\ regions \in SUBSET Devices
  /\ bound \in SUBSET Devices
  /\ removing \in Devices \cup {None}

(* nac_remove_one is at work on the unit. *)
Leaving(u) == removing # None /\ driverData[removing] = u

(* A unit has the area and has not given it back. *)
Holds(a) ==
  \E u \in Units : mmbuf[u] = a /\ ~(removePc \in {"registers", "clear"} /\ Leaving(u))

(* A unit that is free has neither memory nor registers, and a unit with memory
   has its registers too: nac_init_one takes them in this order. *)
UnitsInv ==
  \A u \in Units :
    /\ ~attached[u] => mmbuf[u] = None /\ ~mmio[u]
    /\ mmbuf[u] # None => mmio[u] /\ vaddr[mmbuf[u]] # 0
    /\ mmio[u] => device[u] \in regions \/ (removePc = "clear" /\ Leaving(u))

(* No two units have the same area or the registers of the same card. *)
UnitsApart ==
  \A u, v \in Units :
    /\ mmbuf[u] # None /\ mmbuf[u] = mmbuf[v] => u = v
    /\ mmio[u] /\ mmio[v] /\ device[u] = device[v] => u = v

(* The use counts of nac_mem. *)
UseCounts ==
  \A a \in Cards :
    /\ inuse[a] = (IF Holds(a) THEN 1 ELSE 0) + (IF a \in lost THEN 1 ELSE 0)
    /\ ~(Owned(a) /\ a \in lost)

BoundInv ==
  \A c \in bound :
    LET u == driverData[c] IN
    /\ u \in Units /\ attached[u] /\ device[u] = c
    /\ mmio[u] /\ irq[u] /\ mmbuf[u] # None

(* Only a card in service is removed. *)
RemoveInv ==
  /\ removing # None => removing \in bound /\ removePc \in {"memory", "registers", "clear"}
  /\ removing = None => removePc = "idle"

(* nac.ko is in only on top of a pool that is ready, and out only when its
   cards and files are gone. *)
LoadInv ==
  /\ loaded # "out" => pc = "ready"
  /\ loaded = "out" => bound = {} /\ \A u \in Units : ~attached[u]

FilesInv ==
  /\ file \in [Files -> Units \cup {None}]
  /\ DOMAIN view = Files /\ DOMAIN iomView = Files
  /\ loaded # "in" => \A f \in Files : file[f] = None
  /\ \A f \in Files : view[f] # None =>
       /\ file[f] # None
       /\ view[f].area \in Cards /\ vaddr[view[f].area] # 0
       /\ view[f].off \in Int /\ view[f].len \in Nat
       /\ view[f].off + view[f].len <= size[view[f].area]

BoardsInv ==
  /\ DriverType /\ UnitsInv /\ UnitsApart /\ UseCounts /\ BoundInv /\ RemoveInv
  /\ LoadInv

DriverInv == BoardsInv /\ FilesInv

-----------------------------------------------------------------------------
(* nac_find_unattached and nac_mem_malloc return the first that is free. *)
LEMMA FirstIsOne ==
  ASSUME NEW S \in SUBSET Nat, S # {}
  PROVE  Driver!First(S) \in S
<1>1. \E m \in S : \A k \in S : m <= k
  BY LeastNatural
<1> QED
  BY <1>1 DEF Driver!First

(* The unit a probe claims is one of the table and free. *)
LEMMA FreeUnit ==
  ASSUME Driver!FindUnattached # None
  PROVE  Driver!FindUnattached \in Units /\ ~attached[Driver!FindUnattached]
<1>1. Driver!Unattached # {}
  BY DEF Driver!FindUnattached
<1>2. Driver!Unattached = {u \in Units : ~attached[u]}
  BY DEF Driver!Unattached, Driver!Units, Units
<1>3. Driver!Unattached \in SUBSET Nat
  BY <1>2 DEF Units
<1>4. Driver!First(Driver!Unattached) \in Driver!Unattached
  BY <1>1, <1>3, FirstIsOne
<1>5. Driver!FindUnattached = Driver!First(Driver!Unattached)
  BY <1>1 DEF Driver!FindUnattached
<1> QED
  BY <1>2, <1>4, <1>5

(* The area it gets is one that was carved and that nobody uses. *)
LEMMA FreeArea ==
  ASSUME Driver!Malloc # None
  PROVE  /\ Driver!Malloc \in Cards /\ inuse[Driver!Malloc] = 0
         /\ vaddr[Driver!Malloc] # 0
<1>1. Driver!Idle # {} /\ Driver!Malloc = Driver!First(Driver!Idle)
      /\ Driver!First(Driver!Idle) \in {a \in Cards : vaddr[a] # 0}
  BY DEF Driver!Malloc
<1>2. Driver!Idle = {a \in Cards : inuse[a] = 0}
  BY DEF Driver!Idle, Driver!Areas, Cards
<1>3. Driver!Idle \in SUBSET Nat
  BY <1>2 DEF Cards
<1>4. Driver!First(Driver!Idle) \in Driver!Idle
  BY <1>1, <1>3, FirstIsOne
<1> QED
  BY <1>1, <1>2, <1>4

-----------------------------------------------------------------------------
(* The boards.  A probe that fails leaves what it has taken in the unit it
   claimed, which stays claimed; so the next probe takes another unit, another
   area and the region of another card. *)
LEMMA ProbeNoDeviceKeeps ==
  ASSUME BoardsInv, UNCHANGED vars, NEW c \in Devices, Driver!ProbeNoDevice(c)
  PROVE  BoardsInv'
<1> DEFINE u == Driver!FindUnattached
<1>0. /\ DriverType /\ UnitsInv /\ UnitsApart /\ UseCounts /\ BoundInv /\ LoadInv
      /\ RemoveInv
  BY DEF BoardsInv
<1>1. u \in Units /\ ~attached[u]
  BY FreeUnit DEF Driver!ProbeNoDevice
<1>2. /\ loaded = "in" /\ c \notin bound
      /\ attached' = [attached EXCEPT ![u] = TRUE]
      /\ device' = [device EXCEPT ![u] = c]
      /\ driverData' = [driverData EXCEPT ![c] = u]
      /\ UNCHANGED <<mmio, mmbuf, irq, inuse, regions, bound, loaded, lost>>
      /\ UNCHANGED <<vaddr, pc, removing, removePc>>
      /\ removing = None /\ removePc = "idle"
  BY <1>0 DEF Driver!ProbeNoDevice, Driver!Probing, Driver!Claim, Driver!removeVars, vars,
     RemoveInv
<1> HIDE DEF u
<1>3. DriverType'
  BY <1>0, <1>1, <1>2 DEF DriverType
<1>4. mmbuf[u] = None /\ ~mmio[u]
  BY <1>0, <1>1 DEF UnitsInv
<1>5. UnitsInv'
  BY <1>0, <1>1, <1>2, <1>4 DEF UnitsInv, Leaving, DriverType
<1>6. UnitsApart'
  BY <1>0, <1>1, <1>2, <1>4 DEF UnitsApart, DriverType
<1>7. UseCounts'
  BY <1>0, <1>2 DEF UseCounts, Owned, Holds, Leaving
<1>8. BoundInv'
  BY <1>0, <1>1, <1>2 DEF BoundInv, DriverType
<1>9. LoadInv' /\ RemoveInv'
  BY <1>0, <1>2 DEF LoadInv, RemoveInv
<1> QED
  BY <1>3, <1>5, <1>6, <1>7, <1>8, <1>9 DEF BoardsInv

(* A probe that gets no memory keeps the unit and the IO memory it has claimed. *)
LEMMA ProbeNoMemoryKeeps ==
  ASSUME BoardsInv, UNCHANGED vars, NEW c \in Devices, Driver!ProbeNoMemory(c)
  PROVE  BoardsInv'
<1> DEFINE u == Driver!FindUnattached
<1>0. /\ DriverType /\ UnitsInv /\ UnitsApart /\ UseCounts /\ BoundInv /\ LoadInv
      /\ RemoveInv
  BY DEF BoardsInv
<1>1. u \in Units /\ ~attached[u]
  BY FreeUnit DEF Driver!ProbeNoMemory
<1>2. /\ loaded = "in" /\ c \notin bound /\ c \notin regions
      /\ attached' = [attached EXCEPT ![u] = TRUE]
      /\ device' = [device EXCEPT ![u] = c]
      /\ driverData' = [driverData EXCEPT ![c] = u]
      /\ regions' = regions \cup {c}
      /\ mmio' = [mmio EXCEPT ![u] = TRUE]
      /\ UNCHANGED <<mmbuf, irq, inuse, bound, loaded, lost>>
      /\ UNCHANGED <<vaddr, pc, removing, removePc>>
      /\ removing = None /\ removePc = "idle"
  BY <1>0 DEF Driver!ProbeNoMemory, Driver!Probing, Driver!Claim, Driver!removeVars, vars,
     RemoveInv
<1> HIDE DEF u
<1>3. DriverType'
  BY <1>0, <1>1, <1>2 DEF DriverType
<1>4. mmbuf[u] = None /\ ~mmio[u]
  BY <1>0, <1>1 DEF UnitsInv
<1>5. UnitsInv'
  BY <1>0, <1>1, <1>2, <1>4 DEF UnitsInv, Leaving, DriverType
<1>6. UnitsApart'
  BY <1>0, <1>1, <1>2, <1>4 DEF UnitsApart, UnitsInv, Leaving, DriverType
<1>7. UseCounts'
  BY <1>0, <1>2 DEF UseCounts, Owned, Holds, Leaving
<1>8. BoundInv'
  BY <1>0, <1>1, <1>2 DEF BoundInv, DriverType
<1>9. LoadInv' /\ RemoveInv'
  BY <1>0, <1>2 DEF LoadInv, RemoveInv
<1> QED
  BY <1>3, <1>5, <1>6, <1>7, <1>8, <1>9 DEF BoardsInv

(* A probe that gets as far as the interrupt, whether it fails there or not. *)
LEMMA ProbeWithAreaKeeps ==
  ASSUME BoardsInv, UNCHANGED vars, NEW c \in Devices,
         Driver!ProbeNoIrq(c) \/ Driver!ProbeOk(c)
  PROVE  BoardsInv'
<1> DEFINE u == Driver!FindUnattached
           m == Driver!Malloc
<1>0. /\ DriverType /\ UnitsInv /\ UnitsApart /\ UseCounts /\ BoundInv /\ LoadInv
      /\ RemoveInv
  BY DEF BoardsInv
<1>1. u \in Units /\ ~attached[u]
  BY FreeUnit DEF Driver!ProbeNoIrq, Driver!ProbeOk
<1>2. m \in Cards /\ inuse[m] = 0 /\ vaddr[m] # 0
  BY FreeArea DEF Driver!ProbeNoIrq, Driver!ProbeOk
<1>3. /\ loaded = "in" /\ c \notin bound /\ c \notin regions /\ m # None
      /\ attached' = [attached EXCEPT ![u] = TRUE]
      /\ device' = [device EXCEPT ![u] = c]
      /\ driverData' = [driverData EXCEPT ![c] = u]
      /\ regions' = regions \cup {c}
      /\ mmio' = [mmio EXCEPT ![u] = TRUE]
      /\ mmbuf' = [mmbuf EXCEPT ![u] = m]
      /\ inuse' = [inuse EXCEPT ![m] = @ + 1]
      /\ UNCHANGED <<loaded, lost>>
      /\ UNCHANGED <<vaddr, pc, removing, removePc>>
      /\ removing = None /\ removePc = "idle"
      /\ \/ UNCHANGED <<irq, bound>>
         \/ irq' = [irq EXCEPT ![u] = TRUE] /\ bound' = bound \cup {c}
  BY <1>0 DEF Driver!ProbeNoIrq, Driver!ProbeOk, Driver!Probing, Driver!Claim,
     Driver!removeVars, vars, RemoveInv
<1> HIDE DEF u, m
<1>4. DriverType'
  <2>1. inuse' \in [Cards -> Nat] /\ mmbuf' \in [Units -> Cards \cup {None}]
    BY <1>0, <1>1, <1>2, <1>3 DEF DriverType
  <2>2. irq' \in [Units -> BOOLEAN] /\ bound' \in SUBSET Devices
    BY <1>0, <1>1, <1>3 DEF DriverType
  <2>3. /\ attached' \in [Units -> BOOLEAN]
        /\ device' \in [Units -> Devices \cup {None}]
        /\ driverData' \in [Devices -> Units \cup {None}]
        /\ regions' \in SUBSET Devices
        /\ mmio' \in [Units -> BOOLEAN]
    BY <1>0, <1>1, <1>3 DEF DriverType
  <2> QED
    BY <2>1, <2>2, <2>3, <1>0, <1>3 DEF DriverType
<1>5. mmbuf[u] = None /\ ~mmio[u]
  BY <1>0, <1>1 DEF UnitsInv
<1>6. /\ ~Owned(m) /\ m \notin lost
      /\ \A a : (Holds(a) <=> Owned(a)) /\ (Holds(a)' <=> Owned(a)')
  BY <1>0, <1>2, <1>3 DEF UseCounts, Holds, Owned, Leaving
<1>7. UnitsInv'
  BY <1>0, <1>1, <1>2, <1>3 DEF UnitsInv, Leaving, DriverType
<1>8. UnitsApart'
  <2> SUFFICES ASSUME NEW v \in Units, NEW w \in Units
               PROVE  /\ mmbuf'[v] # None /\ mmbuf'[v] = mmbuf'[w] => v = w
                      /\ mmio'[v] /\ mmio'[w] /\ device'[v] = device'[w] => v = w
    BY DEF UnitsApart
  <2>1. mmbuf'[v] # None /\ mmbuf'[v] = mmbuf'[w] => v = w
    BY <1>0, <1>1, <1>2, <1>3, <1>6 DEF UnitsApart, Owned, DriverType
  <2>2. mmio'[v] /\ mmio'[w] /\ device'[v] = device'[w] => v = w
    BY <1>0, <1>1, <1>3 DEF UnitsApart, UnitsInv, Leaving, DriverType
  <2> QED
    BY <2>1, <2>2
<1>9. UseCounts'
  <2> SUFFICES ASSUME NEW a \in Cards
               PROVE  /\ inuse'[a] = (IF Owned(a)' THEN 1 ELSE 0) + (IF a \in lost THEN 1 ELSE 0)
                      /\ ~(Owned(a)' /\ a \in lost)
    BY <1>3, <1>6 DEF UseCounts
  <2>1. CASE a = m
    <3>1. Owned(a)'
      BY <2>1, <1>0, <1>1, <1>3 DEF Owned, DriverType
    <3>2. inuse'[a] = 1
      BY <2>1, <1>0, <1>2, <1>3 DEF DriverType
    <3> QED
      BY <2>1, <3>1, <3>2, <1>6
  <2>2. CASE a # m
    <3>1. Owned(a)' <=> Owned(a)
      <4>1. a # None
        BY DriverAssumption
      <4> QED
        BY <2>2, <4>1, <1>0, <1>1, <1>3, <1>5 DEF Owned, DriverType
    <3>2. inuse'[a] = inuse[a]
      BY <2>2, <1>0, <1>3 DEF DriverType
    <3> QED
      BY <3>1, <3>2, <1>0, <1>6 DEF UseCounts
  <2> QED
    BY <2>1, <2>2
<1>10. BoundInv'
  BY <1>0, <1>1, <1>3 DEF BoundInv, DriverType
<1>11. LoadInv' /\ RemoveInv'
  BY <1>0, <1>3 DEF LoadInv, RemoveInv
<1> QED
  BY <1>4, <1>7, <1>8, <1>9, <1>10, <1>11 DEF BoardsInv

(* nac_remove_one: what is true of the unit as long as it has not been cleared. *)
LEMMA RemovedUnit ==
  ASSUME BoardsInv, NEW c \in Devices, c \in bound
  PROVE  LET u == driverData[c] IN
         /\ u \in Units /\ attached[u] /\ device[u] = c /\ mmio[u]
         /\ mmbuf[u] # None /\ mmbuf[u] \in Cards /\ Owned(mmbuf[u])
         /\ mmbuf[u] \notin lost
<1> DEFINE u == driverData[c]
<1>1. DriverType /\ UseCounts /\ BoundInv
  BY DEF BoardsInv
<1>2. u \in Units /\ attached[u] /\ device[u] = c /\ mmio[u] /\ mmbuf[u] # None
      /\ mmbuf[u] \in Cards
  BY <1>1 DEF BoundInv, DriverType
<1> HIDE DEF u
<1>3. Owned(mmbuf[u])
  BY <1>2 DEF Owned
<1>4. mmbuf[u] \notin lost
  BY <1>1, <1>2, <1>3 DEF UseCounts
<1> QED
  BY <1>2, <1>3, <1>4 DEF u

(* It is called for a card in service. *)
LEMMA RemoveBeginKeeps ==
  ASSUME BoardsInv, UNCHANGED vars, NEW c \in Devices, Driver!RemoveBegin(c)
  PROVE  BoardsInv'
<1>0. /\ DriverType /\ UnitsInv /\ UnitsApart /\ UseCounts /\ BoundInv /\ LoadInv
      /\ RemoveInv
  BY DEF BoardsInv
<1>1. /\ removing = None /\ c \in bound /\ removing' = c /\ removePc' = "memory"
      /\ UNCHANGED <<attached, device, mmio, mmbuf, irq, driverData, inuse, regions,
                     bound, loaded, lost, vaddr, pc>>
  BY DEF Driver!RemoveBegin, Driver!unitVars, vars
<1>2. removePc = "idle"
  BY <1>0, <1>1 DEF RemoveInv
<1>3. DriverType' /\ UnitsApart' /\ BoundInv' /\ LoadInv' /\ RemoveInv'
  <2>1. c # None
    BY DriverAssumption
  <2>2. DriverType' /\ UnitsApart' /\ BoundInv' /\ LoadInv'
    BY <1>0, <1>1 DEF DriverType, UnitsApart, BoundInv, LoadInv
  <2> QED
    BY <1>1, <2>1, <2>2 DEF RemoveInv
<1>4. UnitsInv'
  <2>1. \A v \in Units :
          /\ ~attached[v] => mmbuf[v] = None /\ ~mmio[v]
          /\ mmbuf[v] # None => mmio[v] /\ vaddr[mmbuf[v]] # 0
          /\ mmio[v] => device[v] \in regions
    BY <1>0, <1>2 DEF UnitsInv
  <2> QED
    BY <2>1, <1>1 DEF UnitsInv
<1>5. UseCounts'
  <2>1. \A a : (Holds(a)' <=> Holds(a)) /\ (Owned(a)' <=> Owned(a))
    BY <1>1, <1>2 DEF Holds, Owned
  <2> QED
    BY <1>0, <1>1, <2>1 DEF UseCounts
<1> QED
  BY <1>3, <1>4, <1>5 DEF BoardsInv

(* nac_mem_free gives the area back that the unit still points to. *)
LEMMA RemoveMemoryKeeps ==
  ASSUME BoardsInv, UNCHANGED vars, NEW c \in Devices, Driver!RemoveMemory(c)
  PROVE  BoardsInv'
<1> DEFINE u == driverData[c]
           m == mmbuf[u]
<1>0. /\ DriverType /\ UnitsInv /\ UnitsApart /\ UseCounts /\ BoundInv /\ LoadInv
      /\ RemoveInv
  BY DEF BoardsInv
<1>1. removing = c /\ removePc = "memory" /\ c # None /\ c \in bound
  BY <1>0, DriverAssumption DEF Driver!RemoveMemory, RemoveInv
<1>2. u \in Units /\ m # None /\ m \in Cards /\ Owned(m) /\ m \notin lost
  BY <1>1, RemovedUnit
<1>3. /\ inuse' = [inuse EXCEPT ![m] = @ - 1] /\ removePc' = "registers"
      /\ UNCHANGED <<attached, device, mmio, mmbuf, irq, driverData, regions,
                     bound, loaded, lost, removing, vaddr, pc>>
  BY <1>2 DEF Driver!RemoveMemory, Driver!unitVars, vars
<1>4. Leaving(u) /\ \A v : Leaving(v) => v = u
  BY <1>1 DEF Leaving
<1> HIDE DEF u
<1>5. mmbuf[u] = m
  OBVIOUS
<1> HIDE DEF m
<1>6. Holds(m) /\ inuse[m] = 1
  <2>1. Holds(m)
    BY <1>1, <1>2, <1>5 DEF Holds
  <2> QED
    BY <2>1, <1>0, <1>2 DEF UseCounts
<1>7. DriverType'
  BY <1>0, <1>2, <1>3, <1>6 DEF DriverType
<1>8. UnitsInv' /\ UnitsApart' /\ BoundInv' /\ LoadInv' /\ RemoveInv'
  BY <1>0, <1>1, <1>3 DEF UnitsInv, UnitsApart, BoundInv, LoadInv, RemoveInv
<1>9. UseCounts'
  <2> SUFFICES ASSUME NEW a \in Cards
               PROVE  /\ inuse'[a] = (IF Holds(a)' THEN 1 ELSE 0) + (IF a \in lost THEN 1 ELSE 0)
                      /\ ~(Owned(a)' /\ a \in lost)
    BY <1>3 DEF UseCounts
  <2>1. Owned(a)' <=> Owned(a)
    BY <1>3 DEF Owned
  <2>2. Holds(a)' <=> \E v \in Units : mmbuf[v] = a /\ ~Leaving(v)
    BY <1>3 DEF Holds, Leaving
  <2>3. CASE a = m
    <3>1. ~Holds(a)'
      BY <2>2, <2>3, <1>0, <1>2, <1>4, <1>5 DEF UnitsApart
    <3>2. inuse'[a] = 0
      BY <2>3, <1>0, <1>2, <1>3, <1>6 DEF DriverType
    <3> QED
      BY <2>1, <2>3, <3>1, <3>2, <1>2
  <2>4. CASE a # m
    <3>1. Holds(a)' <=> Holds(a)
      BY <2>2, <2>4, <1>1, <1>4, <1>5 DEF Holds
    <3>2. inuse'[a] = inuse[a]
      BY <2>4, <1>0, <1>3 DEF DriverType
    <3> QED
      BY <2>1, <3>1, <3>2, <1>0 DEF UseCounts
  <2> QED
    BY <2>3, <2>4
<1> QED
  BY <1>7, <1>8, <1>9 DEF BoardsInv

(* iounmap and release_mem_region, of registers the unit still points to. *)
LEMMA RemoveRegistersKeeps ==
  ASSUME BoardsInv, UNCHANGED vars, NEW c \in Devices, Driver!RemoveRegisters(c)
  PROVE  BoardsInv'
<1> DEFINE u == driverData[c]
<1>0. /\ DriverType /\ UnitsInv /\ UnitsApart /\ UseCounts /\ BoundInv /\ LoadInv
      /\ RemoveInv
  BY DEF BoardsInv
<1>1. removing = c /\ removePc = "registers" /\ c # None /\ c \in bound
  BY <1>0, DriverAssumption DEF Driver!RemoveRegisters, RemoveInv
<1>2. u \in Units /\ mmio[u] /\ device[u] = c
  BY <1>1, RemovedUnit
<1>3. /\ regions' = regions \ {c} /\ removePc' = "clear"
      /\ UNCHANGED <<attached, device, mmio, mmbuf, irq, driverData, inuse,
                     bound, loaded, lost, removing, vaddr, pc>>
  BY <1>2 DEF Driver!RemoveRegisters, Driver!unitVars, vars
<1>4. Leaving(u) /\ (\A v : Leaving(v) => v = u) /\ \A v : Leaving(v)' <=> Leaving(v)
  BY <1>1, <1>3 DEF Leaving
<1> HIDE DEF u
<1>5. DriverType' /\ UnitsApart' /\ BoundInv' /\ LoadInv' /\ RemoveInv'
  BY <1>0, <1>1, <1>3 DEF DriverType, UnitsApart, BoundInv, LoadInv, RemoveInv
<1>6. UnitsInv'
  <2> SUFFICES ASSUME NEW v \in Units
               PROVE  /\ ~attached[v] => mmbuf[v] = None /\ ~mmio[v]
                      /\ mmbuf[v] # None => mmio[v] /\ vaddr[mmbuf[v]] # 0
                      /\ mmio[v] => device[v] \in regions' \/ Leaving(v)
    BY <1>3, <1>4 DEF UnitsInv
  <2>1. mmio[v] /\ v # u => device[v] \in regions /\ device[v] # c
    BY <1>0, <1>1, <1>2 DEF UnitsInv, UnitsApart
  <2> QED
    BY <2>1, <1>0, <1>3, <1>4 DEF UnitsInv
<1>7. UseCounts'
  <2>1. \A a : (Holds(a)' <=> Holds(a)) /\ (Owned(a)' <=> Owned(a))
    BY <1>1, <1>3, <1>4 DEF Holds, Owned
  <2> QED
    BY <1>0, <1>3, <2>1 DEF UseCounts
<1> QED
  BY <1>5, <1>6, <1>7 DEF BoardsInv

(* The memset makes the unit a free one. *)
LEMMA RemoveClearKeeps ==
  ASSUME BoardsInv, UNCHANGED vars, NEW c \in Devices, Driver!RemoveClear(c)
  PROVE  BoardsInv'
<1> DEFINE u == driverData[c]
           m == mmbuf[u]
<1>0. /\ DriverType /\ UnitsInv /\ UnitsApart /\ UseCounts /\ BoundInv /\ LoadInv
      /\ RemoveInv
  BY DEF BoardsInv
<1>1. removing = c /\ removePc = "clear" /\ c # None /\ c \in bound
  BY <1>0, DriverAssumption DEF Driver!RemoveClear, RemoveInv
<1>2. /\ u \in Units /\ attached[u] /\ device[u] = c /\ mmio[u] /\ m # None
      /\ m \in Cards
  BY <1>1, RemovedUnit
<1>3. /\ attached' = [attached EXCEPT ![u] = FALSE]
      /\ device' = [device EXCEPT ![u] = None]
      /\ mmio' = [mmio EXCEPT ![u] = FALSE]
      /\ mmbuf' = [mmbuf EXCEPT ![u] = None]
      /\ irq' = [irq EXCEPT ![u] = FALSE]
      /\ bound' = bound \ {c}
      /\ removing' = None /\ removePc' = "idle"
      /\ UNCHANGED <<driverData, inuse, regions, loaded, lost, vaddr, pc>>
  BY DEF Driver!RemoveClear, vars
<1>4. Leaving(u) /\ (\A v : Leaving(v) => v = u) /\ \A v : ~Leaving(v)'
  BY <1>1, <1>3 DEF Leaving
<1> HIDE DEF u
<1>5. DriverType'
  BY <1>0, <1>2, <1>3 DEF DriverType
<1>6. UnitsInv'
  <2> SUFFICES ASSUME NEW v \in Units
               PROVE  /\ ~attached'[v] => mmbuf'[v] = None /\ ~mmio'[v]
                      /\ mmbuf'[v] # None => mmio'[v] /\ vaddr[mmbuf'[v]] # 0
                      /\ mmio'[v] => device'[v] \in regions
    BY <1>3 DEF UnitsInv
  <2>1. CASE v = u
    BY <2>1, <1>0, <1>2, <1>3 DEF DriverType
  <2>2. CASE v # u
    BY <2>2, <1>0, <1>2, <1>3, <1>4 DEF UnitsInv, UnitsApart, DriverType
  <2> QED
    BY <2>1, <2>2
<1>7. UnitsApart'
  BY <1>0, <1>2, <1>3 DEF UnitsApart, DriverType
<1>8. UseCounts'
  <2> SUFFICES ASSUME NEW a \in Cards
               PROVE  (Holds(a)' <=> Holds(a)) /\ (Owned(a)' => Owned(a))
    BY <1>0, <1>3 DEF UseCounts
  <2>0. a # None
    BY DriverAssumption
  <2>1. \A v \in Units : mmbuf'[v] = a <=> mmbuf[v] = a /\ v # u
    BY <2>0, <1>0, <1>2, <1>3 DEF DriverType
  <2> QED
    BY <2>1, <1>1, <1>3, <1>4 DEF Holds, Owned
<1>9. BoundInv'
  <2> SUFFICES ASSUME NEW d \in bound, d # c
               PROVE  LET v == driverData[d] IN
                      /\ v \in Units /\ attached'[v] /\ device'[v] = d
                      /\ mmio'[v] /\ irq'[v] /\ mmbuf'[v] # None
    BY <1>3 DEF BoundInv
  <2> DEFINE v == driverData[d]
  <2>1. /\ v \in Units /\ attached[v] /\ device[v] = d
        /\ mmio[v] /\ irq[v] /\ mmbuf[v] # None
    BY <1>0 DEF BoundInv
  <2>2. v # u
    BY <2>1, <1>2
  <2> HIDE DEF v
  <2>3. /\ attached'[v] /\ device'[v] = d
        /\ mmio'[v] /\ irq'[v] /\ mmbuf'[v] # None
    BY <2>1, <2>2, <1>0, <1>3 DEF DriverType
  <2> QED
    BY <2>1, <2>3 DEF v
<1>10. LoadInv' /\ RemoveInv'
  BY <1>0, <1>2, <1>3 DEF LoadInv, RemoveInv, DriverType
<1> QED
  BY <1>5, <1>6, <1>7, <1>8, <1>9, <1>10 DEF BoardsInv

(* rmmod: the areas the units of failed probes still have are lost. *)
LEMMA LeftKeeps ==
  ASSUME BoardsInv, UNCHANGED vars, Driver!Left
  PROVE  BoardsInv'
<1>0. /\ DriverType /\ UnitsInv /\ UnitsApart /\ UseCounts /\ BoundInv /\ LoadInv
      /\ RemoveInv
  BY DEF BoardsInv
<1>1. /\ bound = {} /\ loaded = "leaving"
      /\ loaded' = "out"
      /\ lost' = lost \cup ({mmbuf[u] : u \in Units} \ {None})
      /\ attached' = [u \in Units |-> FALSE]
      /\ device' = [u \in Units |-> None]
      /\ mmio' = [u \in Units |-> FALSE]
      /\ mmbuf' = [u \in Units |-> None]
      /\ irq' = [u \in Units |-> FALSE]
      /\ UNCHANGED <<driverData, inuse, regions, bound>>
      /\ UNCHANGED <<vaddr, pc, removing, removePc>>
      /\ removing = None /\ removePc = "idle"
  BY <1>0 DEF Driver!Left, Driver!Units, Units, Driver!removeVars, RemoveInv, vars
<1>2. lost' \in SUBSET Cards
  BY <1>0, <1>1 DEF DriverType
<1>3. DriverType'
  BY <1>0, <1>1, <1>2 DEF DriverType
<1>4. UnitsInv' /\ UnitsApart'
  BY <1>1 DEF UnitsInv, UnitsApart
<1>5. UseCounts'
  <2> SUFFICES ASSUME NEW a \in Cards
               PROVE  ~Owned(a)' /\ inuse[a] = IF a \in lost' THEN 1 ELSE 0
    BY <1>1 DEF UseCounts, Owned, Holds
  <2>1. a # None
    BY DriverAssumption
  <2>2. ~Owned(a)'
    BY <2>1, <1>1 DEF Owned
  <2>3. a \in lost' <=> Owned(a) \/ a \in lost
    BY <2>1, <1>1 DEF Owned
  <2>4. Holds(a) <=> Owned(a)
    BY <1>1 DEF Owned, Holds
  <2> QED
    BY <2>2, <2>3, <2>4, <1>0 DEF UseCounts
<1>6. BoundInv' /\ LoadInv' /\ RemoveInv'
  BY <1>0, <1>1 DEF BoundInv, LoadInv, RemoveInv
<1> QED
  BY <1>3, <1>4, <1>5, <1>6 DEF BoardsInv

(* insmod, the start of rmmod and a probe that finds every unit claimed. *)
LEMMA BoardsElse ==
  ASSUME BoardsInv,
         \/ pc = "ready" /\ Driver!Load /\ UNCHANGED vars
         \/ Driver!Leave /\ UNCHANGED vars
         \/ (\E c \in Devices : Driver!ProbeTooMany(c)) /\ UNCHANGED vars
         \/ Driver!boardVars' = Driver!boardVars /\ UNCHANGED vars
  PROVE  BoardsInv'
<1>1. /\ UNCHANGED <<attached, device, mmio, mmbuf, irq, driverData, inuse,
                     regions, bound, lost, removing, removePc>>
      /\ UNCHANGED <<vaddr, pc>>
      /\ \/ loaded' = loaded
         \/ loaded = "out" /\ loaded' = "in" /\ pc = "ready"
         \/ loaded = "in" /\ loaded' = "leaving"
  BY DEF Driver!Load, Driver!Leave, Driver!ProbeTooMany, Driver!boardVars,
         Driver!unitVars, Driver!removeVars, vars
<1> QED
  BY <1>1 DEF BoardsInv, DriverType, UnitsInv, UnitsApart, UseCounts, Owned, Holds,
              Leaving, BoundInv, RemoveInv, LoadInv

(* Every step of the kernel side keeps the tables of the boards in order. *)
LEMMA BoardsNext ==
  ASSUME BoardsInv, pc = "ready", UNCHANGED vars, Driver!DriverStep
  PROVE  BoardsInv'
<1>1. CASE Driver!Load
  BY <1>1, BoardsElse
<1>2. CASE Driver!Leave
  BY <1>2, BoardsElse
<1>3. CASE Driver!Left
  BY <1>3, LeftKeeps
<1>4. CASE \E c \in Devices : Driver!Board(c)
  <2>1. PICK c \in Devices : Driver!Board(c)
    BY <1>4
  <2>2. CASE Driver!ProbeTooMany(c)
    BY <2>2, BoardsElse
  <2>3. CASE Driver!ProbeNoDevice(c)
    BY <2>3, ProbeNoDeviceKeeps
  <2>4. CASE Driver!ProbeNoMemory(c)
    BY <2>4, ProbeNoMemoryKeeps
  <2>5. CASE Driver!ProbeNoIrq(c) \/ Driver!ProbeOk(c)
    BY <2>5, ProbeWithAreaKeeps
  <2>6. CASE Driver!RemoveBegin(c)
    BY <2>6, RemoveBeginKeeps
  <2>7. CASE Driver!RemoveMemory(c)
    BY <2>7, RemoveMemoryKeeps
  <2>8. CASE Driver!RemoveRegisters(c)
    BY <2>8, RemoveRegistersKeeps
  <2>9. CASE Driver!RemoveClear(c)
    BY <2>9, RemoveClearKeeps
  <2> QED
    BY <2>1, <2>2, <2>3, <2>4, <2>5, <2>6, <2>7, <2>8, <2>9 DEF Driver!Board
<1>5. CASE UNCHANGED Driver!boardVars
  BY <1>5, BoardsElse
<1> QED
  BY <1>1, <1>2, <1>3, <1>4, <1>5 DEF Driver!DriverStep

-----------------------------------------------------------------------------
(* The files.  A view lies within the area its unit had when it was made, and
   nothing takes an area away from the pool while a file is open. *)
LEMMA FilesNext ==
  ASSUME TypeOK, DriverInv, pc = "ready", UNCHANGED vars, Driver!DriverStep
  PROVE  FilesInv'
<1>0. DriverType /\ UnitsInv /\ BoundInv /\ FilesInv /\ LoadInv
  BY DEF DriverInv, BoardsInv
<1>1. UNCHANGED <<vaddr, size>> /\ size \in [Cards -> Nat]
  BY DEF vars, TypeOK
<1>2. CASE UNCHANGED Driver!fileVars
  <2>1. UNCHANGED <<file, view, iomView>>
    BY <1>2 DEF Driver!fileVars
  <2>2. loaded' # "in" => loaded # "in" \/ Driver!NoFiles
    BY DEF Driver!DriverStep, Driver!Load, Driver!Leave, Driver!Left, Driver!Board,
           Driver!ProbeTooMany, Driver!ProbeNoDevice, Driver!ProbeNoMemory,
           Driver!ProbeNoIrq, Driver!ProbeOk, Driver!RemoveBegin, Driver!RemoveMemory,
           Driver!RemoveRegisters, Driver!RemoveClear, Driver!boardVars
  <2>3. loaded' # "in" => \A f \in Files : file[f] = None
    BY <2>2, <1>0 DEF Driver!NoFiles, FilesInv
  <2> QED
    BY <2>1, <2>3, <1>0, <1>1 DEF FilesInv
<1>3. CASE (\E f \in Files : Driver!FileOp(f)) /\ UNCHANGED Driver!boardVars
  <2>1. UNCHANGED <<mmbuf, loaded>>
    BY <1>3 DEF Driver!boardVars, Driver!unitVars
  <2>2. PICK f \in Files : Driver!FileOp(f)
    BY <1>3
  <2>3. CASE Driver!Open(f)
    <3>1. PICK c \in bound : file' = [file EXCEPT ![f] = driverData[c]]
      BY <2>3 DEF Driver!Open
    <3>2. /\ driverData[c] \in Units /\ file[f] = None /\ loaded = "in"
          /\ UNCHANGED <<view, iomView>>
      BY <2>3, <1>0 DEF Driver!Open, BoundInv
    <3>3. driverData[c] # None
      BY <3>2, DriverAssumption DEF Units
    <3> QED
      BY <3>1, <3>2, <3>3, <2>1, <1>0, <1>1 DEF FilesInv
  <2>4. CASE Driver!Map(f) \/ Driver!Copy(f)
    <3> DEFINE a == mmbuf[file[f]]
    <3>1. file[f] \in Units /\ file[f] # None /\ a # None /\ a \in Cards /\ vaddr[a] # 0
      BY <2>4, <1>0 DEF Driver!Map, Driver!Copy, Driver!AtRest, FilesInv, UnitsInv, DriverType
    <3>2. \E off \in Int, len \in Nat :
            /\ view' = [view EXCEPT ![f] = [area |-> a, off |-> off, len |-> len]]
            /\ off + len <= size[a]
      <4>1. size[a] \in Nat
        BY <3>1, <1>1
      <4>2. CASE Driver!Map(f)
        <5>1. PICK off \in Offsets, len \in Lengths :
                /\ len <= size[a] - off
                /\ view' = [view EXCEPT ![f] = [area |-> a, off |-> off, len |-> len]]
          BY <4>2 DEF Driver!Map, Driver!MapLimit
        <5>2. off \in Int /\ len \in Nat
          BY DriverAssumption
        <5> HIDE DEF a
        <5>3. off + len <= size[a]
          BY <4>1, <5>1, <5>2
        <5> QED
          BY <5>1, <5>2, <5>3
      <4>3. CASE Driver!Copy(f)
        <5>1. PICK off \in Offsets \cap Nat, count \in Lengths :
                /\ off < size[a]
                /\ view' = [view EXCEPT ![f] =
                     [area |-> a, off |-> off,
                      len |-> IF off + count > size[a] THEN size[a] - off ELSE count]]
          BY <4>3 DEF Driver!Copy
        <5>2. off \in Nat /\ count \in Nat
          BY DriverAssumption
        <5> DEFINE len == IF off + count > size[a] THEN size[a] - off ELSE count
        <5>3. off \in Int /\ len \in Nat /\ off + len <= size[a]
          BY <4>1, <5>1, <5>2
        <5>4. view' = [view EXCEPT ![f] = [area |-> a, off |-> off, len |-> len]]
          BY <5>1
        <5> HIDE DEF a, len
        <5> QED
          BY <5>3, <5>4
      <4> QED
        BY <2>4, <4>2, <4>3
    <3>3. UNCHANGED <<file, iomView>>
      BY <2>4 DEF Driver!Map, Driver!Copy
    <3> HIDE DEF a
    <3> QED
      BY <3>1, <3>2, <3>3, <2>1, <1>0, <1>1 DEF FilesInv
  <2>5. CASE Driver!MapRegisters(f) \/ Driver!CopyRegisters(f)
    BY <2>5, <2>1, <1>0, <1>1 DEF Driver!MapRegisters, Driver!CopyRegisters, FilesInv
  <2>6. CASE Driver!Finish(f)
    BY <2>6, <2>1, <1>0, <1>1 DEF Driver!Finish, FilesInv
  <2>7. CASE Driver!Release(f)
    BY <2>7, <2>1, <1>0, <1>1 DEF Driver!Release, Driver!AtRest, FilesInv
  <2> QED
    BY <2>2, <2>3, <2>4, <2>5, <2>6, <2>7 DEF Driver!FileOp
<1> QED
  BY <1>2, <1>3 DEF Driver!DriverStep

-----------------------------------------------------------------------------
(* The kernel side is the pool with steps of the driver in between. *)
THEOREM DriverRefinesPool == DriverSpec => Spec
<1>1. DriverInit => Init
  BY DEF DriverInit
<1>2. [DriverNext]_<<vars, driverVars>> => [Next]_vars
  BY DEF DriverNext
<1> QED
  BY <1>1, <1>2, PTL DEF DriverSpec, Spec

(* The types of the pool hold under the driver, whatever the sizes. *)
LEMMA PoolTypes == DriverSpec => []TypeOK
<1>1. FirstInv => TypeOK
  BY DEF FirstInv
<1> QED
  BY <1>1, FirstInvInit, FirstInvNext, DriverRefinesPool, PTL DEF Spec

(* Both modules are loaded and nothing is probed yet. *)
LEMMA DriverInvInit == DriverInit => DriverInv
<1> SUFFICES ASSUME DriverInit PROVE DriverInv
  OBVIOUS
<1>1. /\ attached = [u \in Units |-> FALSE]
      /\ device = [u \in Units |-> None]
      /\ mmio = [u \in Units |-> FALSE]
      /\ mmbuf = [u \in Units |-> None]
      /\ irq = [u \in Units |-> FALSE]
      /\ driverData = [c \in Devices |-> None]
      /\ inuse = [a \in Cards |-> 0]
      /\ regions = {} /\ bound = {}
      /\ loaded = "out" /\ lost = {}
      /\ removing = None /\ removePc = "idle"
  BY DEF DriverInit, Driver!DriverInit, Driver!Init, Driver!Units, Units,
         Driver!Areas, Cards
<1>2. /\ file = [f \in Files |-> None]
      /\ view = [f \in Files |-> None]
      /\ iomView = [f \in Files |-> None]
  BY DEF DriverInit, Driver!DriverInit, Driver!FilesInit
<1>3. \A a \in Cards : a # None
  BY DriverAssumption
<1>4. DriverType
  BY <1>1 DEF DriverType
<1>5. UnitsInv /\ UnitsApart /\ BoundInv /\ LoadInv /\ RemoveInv
  BY <1>1 DEF UnitsInv, UnitsApart, BoundInv, LoadInv, RemoveInv
<1>6. UseCounts
  BY <1>1, <1>3 DEF UseCounts, Owned, Holds
<1>7. FilesInv
  BY <1>1, <1>2 DEF FilesInv
<1> QED
  BY <1>4, <1>5, <1>6, <1>7 DEF DriverInv, BoardsInv

(* The pool moves only while nac.ko is out, with no unit or file that refers to
   its areas; the driver moves only on a pool that is ready. *)
LEMMA DriverInvNext ==
  TypeOK /\ DriverInv /\ [DriverNext]_<<vars, driverVars>> => DriverInv'
<1> SUFFICES ASSUME TypeOK, DriverInv, [DriverNext]_<<vars, driverVars>>
             PROVE  DriverInv'
  OBVIOUS
<1>0. /\ DriverType /\ UnitsInv /\ UnitsApart /\ UseCounts /\ BoundInv /\ LoadInv
      /\ RemoveInv /\ FilesInv
  BY DEF DriverInv, BoardsInv
<1>1. CASE loaded = "out" /\ UNCHANGED driverVars
  <2>1. UNCHANGED <<loaded, lost, attached, device, mmio, mmbuf, irq, driverData,
                    inuse, regions, bound, removing, removePc, file, view, iomView>>
    BY <1>1 DEF driverVars
  <2>2. /\ \A u \in Units : mmbuf[u] = None /\ ~attached[u] /\ ~mmio[u]
        /\ bound = {} /\ \A f \in Files : view[f] = None
    BY <1>0, <1>1 DEF LoadInv, UnitsInv, FilesInv
  <2>3. UnitsInv'
    BY <2>1, <2>2 DEF UnitsInv
  <2>4. DriverType' /\ UnitsApart' /\ UseCounts' /\ BoundInv' /\ LoadInv' /\ RemoveInv'
    BY <2>1, <2>2, <1>0, <1>1 DEF DriverType, UnitsApart, UseCounts, Owned, Holds, Leaving,
       BoundInv, LoadInv, RemoveInv
  <2>5. FilesInv'
    BY <2>1, <2>2, <1>0 DEF FilesInv
  <2> QED
    BY <2>3, <2>4, <2>5 DEF DriverInv, BoardsInv
<1>2. CASE pc = "ready" /\ Driver!DriverStep /\ UNCHANGED vars
  BY <1>2, BoardsNext, FilesNext DEF DriverInv
<1>3. CASE UNCHANGED <<vars, driverVars>>
  BY <1>0, <1>3 DEF vars, driverVars, DriverInv, BoardsInv, DriverType, UnitsInv,
     UnitsApart, UseCounts, Owned, Holds, Leaving, BoundInv, RemoveInv, LoadInv, FilesInv
<1> QED
  BY <1>1, <1>2, <1>3 DEF DriverNext

(* The invariant of the boards and files. *)
THEOREM DriverInductive == DriverSpec => []DriverInv
  BY DriverInvInit, DriverInvNext, PoolTypes, PTL DEF DriverSpec

-----------------------------------------------------------------------------
(* nac_init_one gives every card it takes into service a unit of its own, its
   registers, a handler and memory that was carved, and it keeps them until
   nac_remove_one is called for it. *)
THEOREM Served == DriverSpec => []BoundServed
<1>1. DriverInv => BoundServed
  <2> SUFFICES ASSUME DriverInv, NEW c \in bound, c # removing
               PROVE  LET u == driverData[c] IN
                      /\ u # None /\ attached[u] /\ device[u] = c
                      /\ mmio[u] /\ irq[u] /\ c \in regions
                      /\ mmbuf[u] \in {a \in Cards : vaddr[a] # 0}
    BY DEF BoundServed, Driver!BoundServed
  <2> DEFINE u == driverData[c]
  <2>1. DriverType /\ UnitsInv /\ BoundInv /\ RemoveInv
    BY DEF DriverInv, BoardsInv
  <2>2. /\ u \in Units /\ attached[u] /\ device[u] = c
        /\ mmio[u] /\ irq[u] /\ mmbuf[u] # None
    BY <2>1 DEF BoundInv
  <2>3. u # None
    BY <2>2, DriverAssumption DEF Units
  <2>4. ~Leaving(u)
    BY <2>1, <2>2 DEF Leaving, BoundInv, RemoveInv
  <2>5. c \in regions /\ mmbuf[u] \in Cards /\ vaddr[mmbuf[u]] # 0
    BY <2>1, <2>2, <2>4 DEF UnitsInv, DriverType
  <2> QED
    BY <2>2, <2>3, <2>5
<1> QED
  BY <1>1, DriverInductive, PTL

(* nac_mem_malloc and nac_mem_free keep the use counts exact, and no two units
   get the same area. *)
THEOREM AreasCounted == DriverSpec => []AreasExact
<1>1. DriverInv => AreasExact
  <2> SUFFICES ASSUME DriverInv PROVE AreasExact
    OBVIOUS
  <2> DEFINE owners(a) == {u \in Driver!Units : mmbuf[u] = a}
             back == IF removePc \in {"registers", "clear"} THEN {Driver!Removed} ELSE {}
             keepers(a) == owners(a) \ back
  <2>1. UseCounts /\ UnitsApart /\ RemoveInv
    BY DEF DriverInv, BoardsInv
  <2>2. ASSUME NEW a \in Cards
        PROVE  /\ Cardinality(owners(a)) <= 1
               /\ Cardinality(keepers(a)) = IF Holds(a) THEN 1 ELSE 0
    <3>1. \A u, v \in owners(a) : u = v
      <4>1. a # None
        BY DriverAssumption
      <4> QED
        BY <4>1, <2>1 DEF UnitsApart, Units, Driver!Units
    <3>2. Holds(a) <=> keepers(a) # {}
      <4>1. \A u \in Units : u \in back <=> removePc \in {"registers", "clear"} /\ Leaving(u)
        BY <2>1 DEF Driver!Removed, Leaving, RemoveInv
      <4> QED
        BY <4>1 DEF Holds, Units, Driver!Units
    <3>3. owners(a) = {} \/ \E u : owners(a) = {u}
      BY <3>1
    <3>4. keepers(a) = {} \/ \E u : keepers(a) = {u}
      BY <3>3
    <3> HIDE DEF owners, keepers, back
    <3>5. Cardinality(owners(a)) \in {0, 1}
      BY <3>3, FS_EmptySet, FS_Singleton
    <3>6. Cardinality(keepers(a)) = IF keepers(a) = {} THEN 0 ELSE 1
      BY <3>4, FS_EmptySet, FS_Singleton
    <3> QED
      BY <3>2, <3>5, <3>6
  <2>3. ASSUME NEW a \in Cards
        PROVE  /\ Cardinality(owners(a)) <= 1
               /\ inuse[a] = Cardinality(keepers(a)) + (IF a \in lost THEN 1 ELSE 0)
    <3> HIDE DEF owners, keepers
    <3> QED
      BY <2>1, <2>2 DEF UseCounts
  <2>4. \A S : Driver!Cardinality(S) = Cardinality(S)
    BY DEF Driver!Cardinality, Cardinality
  <2> QED
    BY <2>3, <2>4 DEF AreasExact, Driver!AreasExact, Driver!Areas, Cards
<1> QED
  BY <1>1, DriverInductive, PTL

(* A file of a card that has gone is given nothing: what nac_mmap, nac_iom_mmap
   and the copies hand out is taken from the unit as it is at that moment, and is
   that unit's alone; it is in use and requested from the kernel unless
   nac_remove_one is just giving it back. *)
THEOREM StaleRefused == DriverSpec => StaleFileRefused
<1>1. DriverInv /\ [DriverNext]_<<vars, driverVars>>
      => [Driver!FreshlyMapped]_<<vars, driverVars>>
  <2> SUFFICES ASSUME DriverInv, DriverNext PROVE Driver!FreshlyMapped
    OBVIOUS
  <2>0. DriverType /\ UnitsInv /\ UnitsApart /\ UseCounts /\ FilesInv
    BY DEF DriverInv, BoardsInv
  <2>1. CASE UNCHANGED <<view, iomView>>
    BY <2>1 DEF Driver!FreshlyMapped
  <2>2. CASE \E f \in Files : Driver!FileOp(f)
    <3>1. PICK f \in Files : Driver!FileOp(f)
      BY <2>2
    <3> SUFFICES ASSUME NEW g \in Files
                 PROVE  /\ view'[g] # view[g] /\ view'[g] # None =>
                             /\ {u \in Units : mmbuf[u] = view'[g].area} = {file[g]}
                             /\ attached[file[g]]
                             /\ file[g] # Driver!Removed => inuse[view'[g].area] = 1
                        /\ iomView'[g] # iomView[g] /\ iomView'[g] # None
                           /\ file[g] # Driver!Removed => iomView'[g] \in regions
      BY DEF Driver!FreshlyMapped, Driver!Units, Units
    <3> DEFINE u == file[f]
               a == mmbuf[u]
    <3>2. u # None => u \in Units
      BY <2>0 DEF FilesInv
    <3>9. u # Driver!Removed => ~Leaving(u)
      BY DEF Driver!Removed, Leaving
    <3>3. u # None /\ a # None =>
            /\ attached[u] /\ mmio[u] /\ {v \in Units : mmbuf[v] = a} = {u}
            /\ u # Driver!Removed => inuse[a] = 1
      <4>1. u # None /\ a # None => attached[u] /\ mmio[u] /\ a \in Cards
        BY <3>2, <2>0 DEF UnitsInv, DriverType
      <4>2. u # None /\ a # None => {v \in Units : mmbuf[v] = a} = {u}
        BY <3>2, <2>0 DEF UnitsApart
      <4>3. u # None /\ a # None /\ u # Driver!Removed => Holds(a) /\ Owned(a)
        BY <3>2, <3>9 DEF Holds, Owned
      <4> HIDE DEF u, a
      <4> QED
        BY <4>1, <4>2, <4>3, <2>0 DEF UseCounts
    <3>4. u # None /\ mmio[u] /\ u # Driver!Removed => device[u] \in regions
      BY <3>2, <3>9, <2>0 DEF UnitsInv
    <3>5. CASE Driver!Map(f) \/ Driver!Copy(f)
      <4>1. u # None /\ a # None /\ UNCHANGED iomView
        BY <3>5 DEF Driver!Map, Driver!Copy, Driver!AtRest
      <4>2. \A h \in Files : view'[h] = view[h] \/ (h = f /\ view'[h].area = a)
        BY <3>5, <2>0 DEF Driver!Map, Driver!Copy, FilesInv
      <4> QED
        BY <4>1, <4>2, <3>2, <3>3
    <3>6. CASE Driver!MapRegisters(f) \/ Driver!CopyRegisters(f)
      <4>1. u # None /\ (a # None \/ mmio[u]) /\ UNCHANGED view
        BY <3>6 DEF Driver!MapRegisters, Driver!CopyRegisters, Driver!AtRest
      <4>2. iomView'[g] = iomView[g] \/ (g = f /\ iomView'[g] = device[u])
        BY <3>6, <2>0 DEF Driver!MapRegisters, Driver!CopyRegisters, FilesInv
      <4> QED
        BY <4>1, <4>2, <3>3, <3>4
    <3>7. CASE Driver!Open(f) \/ Driver!Release(f)
      BY <3>7 DEF Driver!Open, Driver!Release
    <3>8. CASE Driver!Finish(f)
      BY <3>8, <2>0 DEF Driver!Finish, FilesInv
    <3> QED
      BY <3>1, <3>5, <3>6, <3>7, <3>8 DEF Driver!FileOp
  <2> QED
    BY <2>1, <2>2 DEF DriverNext, Driver!DriverStep, Driver!fileVars, driverVars
<1> QED
  BY <1>1, DriverInductive, PTL DEF DriverSpec, StaleFileRefused

-----------------------------------------------------------------------------
(* With areas of whole pieces: what nac_mem promises holds while nac.ko comes
   and goes, too. *)
THEOREM DriverPoolHeld == WholePieces /\ DriverSpec => [](AreaHeld /\ AllReturned)
  BY DriverRefinesPool, PoolHeld, PoolReturned, PTL

(* The search for the first area, below the driver. *)
THEOREM DriverFirstServed == DriverSpec => FirstCardServed
  BY DriverRefinesPool, FirstServed, PTL

(* The piece an address of an area lies in is one of the area's pieces. *)
LEMMA PageOfArea ==
  ASSUME PoolInv, NEW a \in Cards, vaddr[a] # 0,
         NEW page \in Int, vaddr[a] <= page, page < vaddr[a] + size[a]
  PROVE  page - (page % PieceSize) \in AreaPieces(a)
<1> USE PoolAssumption
<1> DEFINE b == vaddr[a]
           x == page - b
           m == x \div PieceSize
<1>0. TypeOK /\ AreaWhole
  BY DEF PoolInv
<1>1. b \in Pieces /\ size[a] \in Nat
  BY <1>0 DEF TypeOK
<1>2. PICK k \in 1 .. MaxPiece : b = PieceSize * k
  BY <1>1 DEF Pieces
<1>3. b \in Nat /\ x \in Nat /\ x < size[a] /\ page = b + x
  BY <1>1, <1>2
<1> HIDE DEF x
<1>4. /\ m \in Nat /\ x % PieceSize \in 0 .. PieceSize - 1
      /\ x = PieceSize * m + (x % PieceSize)
  BY <1>3
<1> HIDE DEF m, b
<1>5. b \in Nat /\ m * PieceSize \in Nat /\ m * PieceSize <= x
  BY <1>3, <1>4
<1>6. b + m * PieceSize \in Pieces
  BY <1>0, <1>1, <1>4, <1>5, <1>3 DEF AreaWhole, b
<1>7. page % PieceSize = x % PieceSize
  <2>1. page = PieceSize * (k + m) + (x % PieceSize)
    BY <1>3, <1>2, <1>4
  <2>2. k + m \in Int /\ x % PieceSize \in 0 .. PieceSize - 1
    BY <1>4
  <2> DEFINE q == k + m
             r == x % PieceSize
  <2> HIDE DEF q, r
  <2>3. (PieceSize * q + r) % PieceSize = r
    BY <2>2, Remainder DEF q, r
  <2> QED
    BY <2>1, <2>3 DEF q, r
<1>8. page - (page % PieceSize) = b + m * PieceSize
  BY <1>3, <1>4, <1>5, <1>7
<1>9. b <= b + m * PieceSize /\ b + m * PieceSize < b + size[a]
  BY <1>3, <1>1, <1>5
<1> QED
  BY <1>6, <1>8, <1>9 DEF AreaPieces, b

(* What a process maps or copies through a file of the driver, from the start of
   the area on, is memory the module holds and that is no longer in the table of
   what it gives back, whatever the offset: nothing behind the end of the area is
   reached. *)
THEOREM MappedMemoryHeld == WholePieces /\ DriverSpec => []MappedHeld
<1>1. PoolInv /\ DriverInv => MappedHeld
  <2> SUFFICES ASSUME PoolInv, DriverInv, NEW f \in Files, view[f] # None,
                      NEW page \in vaddr[view[f].area] + view[f].off ..
                                   vaddr[view[f].area] + view[f].off + view[f].len - 1,
                      page >= vaddr[view[f].area]
               PROVE  page - (page % PieceSize) \in held \ TablePieces
    BY DEF MappedHeld
  <2> DEFINE a == view[f].area
  <2>1. FilesInv /\ LoadInv /\ TypeOK /\ HeldExact
    BY DEF DriverInv, BoardsInv, PoolInv
  <2>2. /\ a \in Cards /\ vaddr[a] # 0
        /\ view[f].off \in Int /\ view[f].len \in Nat
        /\ view[f].off + view[f].len <= size[a]
        /\ pc = "ready"
    BY <2>1 DEF FilesInv, LoadInv
  <2>3. vaddr[a] \in Nat /\ size[a] \in Nat
    BY <2>1, <2>2, PiecesFinite DEF TypeOK
  <2>4. page \in Int /\ vaddr[a] <= page /\ page < vaddr[a] + size[a]
    BY <2>2, <2>3
  <2> HIDE DEF a
  <2>5. page - (page % PieceSize) \in AreaPieces(a)
    BY <2>2, <2>4, PageOfArea
  <2> QED
    BY <2>1, <2>2, <2>5 DEF HeldExact
<1> QED
  BY <1>1, PoolInductive, DriverRefinesPool, DriverInductive, PTL

-----------------------------------------------------------------------------
(* What a call does to the bus of its port, and what it knows of it. *)

Byte == 0 .. 255
Bits == {"start", "stop", "read", "write", "nack"}
BusPhases == {"free", "address", "write", "read", "off"}
Blank == 255
Registers == {"CTR", "PRER_LO", "PRER_HI", "TXR"}

(* The accesses to port x that a step may settle, and the steps of a call. *)
AccessesTo(x) ==
  [space : {"i2c"}, port : {x}, reg : Addresses, write : BOOLEAN, keep : {{}}, set : SUBSET Byte]
BusSteps(x) ==
  [do : {"put"}, reg : Registers \cup {"CR"}, value : Byte \cup SUBSET Bits, accesses : {<< >>}]
  \cup [do : {"wait", "fetch", "refuse"}, accesses : Seq(AccessesTo(x))]

(* What a call knows of a bus: what the module takes the next byte for, its    *)
(* memory address, the command the master executes, the byte it sends, and     *)
(* where in the memory the byte it received last is from.  NoByte: not known.  *)
Known(ph, a, c, v, g) == [phase |-> ph, pointer |-> a, command |-> c, sent |-> v, got |-> g]
Free(b) == b.phase = "free" /\ b.command = {}

(* The transfer is over. *)
Over(x, b) ==
  Known(NextPhase(x, b.command, b.sent, b.phase),
        NextPointer(b.command, b.sent, b.phase, b.pointer),
        {}, b.sent,
        IF "read" \in b.command THEN IF b.phase = "read" THEN b.pointer ELSE Blank
        ELSE IF Taken(b.command) /\ b.phase = "write" THEN NoByte ELSE b.got)

(* What is known after step s. *)
AfterPut(r, v, b) ==
  IF r = "TXR" THEN Known(b.phase, b.pointer, b.command, v, b.got)
  ELSE IF r = "CR" THEN IF v = {"stop"} THEN Known("free", b.pointer, {}, b.sent, b.got)
                        ELSE Known(b.phase, b.pointer, v, b.sent, b.got)
  ELSE b
After(x, s, b) ==
  IF s.do = "put" THEN AfterPut(s.reg, s.value, b) ELSE IF s.do = "wait" THEN Over(x, b) ELSE b

(* All that a transfer depends on is known. *)
Told(b) ==
  /\ "start" \in b.command \/ Taken(b.command) => b.sent # NoByte
  /\ b.phase \in {"read", "write"} => b.pointer # NoByte

(* A byte goes into the memory. *)
Stores(b) == Taken(b.command) /\ b.phase = "write"

(* A step comes where it does what its accesses say: no command is given while *)
(* another is under way, a transfer that is waited for is one that was told    *)
(* everything, and the bytes in and out are those at the address.              *)
Puts(x, s, b) ==
  /\ x \in Ports /\ b.command = {}
  /\ \/ \E r \in Registers, v \in Byte : s = Put(r, v)
     \/ \E c \in (SUBSET Bits) \ {{}} : s = Put("CR", c)
Waits(x, s, b) ==
  /\ x \in Ports /\ b.command # {} /\ Told(b)
  /\ \/ s = Wait /\ ~Stores(b)
     \/ \E a \in Addresses, v \in Byte :
          /\ s = WaitFor(Access(x, a, TRUE, v)) /\ b.sent = v
          /\ x \in Plugged => b.pointer = a /\ Stores(b)
Fetches(x, s, b) ==
  /\ x \in Ports /\ b.command = {}
  /\ \E a \in Addresses : /\ s = Fetch(Access(x, a, FALSE, 0))
                          /\ b.got = IF x \in Plugged THEN a ELSE Blank
Refuses(x, s) == x \notin Ports /\ \E a \in AccessesTo(x) : s = Refuse(a)
Proper(x, s, b) == Puts(x, s, b) \/ Waits(x, s, b) \/ Fetches(x, s, b) \/ Refuses(x, s)

(* The steps of ss are proper one after the other, and lead from b to e. *)
Leads(x, ss, b, e) ==
  /\ ss \in Seq(BusSteps(x))
  /\ \E f : /\ f[1] = b /\ f[Len(ss) + 1] = e
            /\ \A i \in 1 .. Len(ss) : Proper(x, ss[i], f[i]) /\ f[i + 1] = After(x, ss[i], f[i])

(* ... to the end of a call. *)
FitsCall(x, ss, b) == \E e : Leads(x, ss, b, e) /\ Free(e)

(* A proper step is one of a call. *)
LEMMA ProperType ==
  ASSUME NEW x, NEW s, NEW b, Proper(x, s, b)
  PROVE  s \in BusSteps(x)
<1>1. \A a \in Addresses, v \in Byte : Access(x, a, TRUE, v) \in AccessesTo(x)
  BY DEF AccessesTo, Access
<1>2. \A a \in Addresses : Access(x, a, FALSE, 0) \in AccessesTo(x)
  BY DEF AccessesTo, Access
<1>3. CASE Puts(x, s, b)
  BY <1>3 DEF Puts, Put, BusSteps
<1>4. CASE Waits(x, s, b)
  <2>1. Wait \in BusSteps(x)
    BY DEF Wait, BusSteps
  <2>2. \A a \in AccessesTo(x) : WaitFor(a) \in BusSteps(x)
    BY DEF WaitFor, BusSteps
  <2> QED
    BY <1>1, <1>4, <2>1, <2>2 DEF Waits
<1>5. CASE Fetches(x, s, b)
  <2>1. \A a \in AccessesTo(x) : Fetch(a) \in BusSteps(x)
    BY DEF Fetch, BusSteps
  <2> QED
    BY <1>2, <1>5, <2>1 DEF Fetches
<1>6. CASE Refuses(x, s)
  BY <1>6 DEF Refuses, Refuse, BusSteps
<1> QED
  BY <1>3, <1>4, <1>5, <1>6 DEF Proper

(* No step leads nowhere else. *)
LEMMA LeadsNone ==
  ASSUME NEW x, NEW b, NEW e, Leads(x, << >>, b, e)
  PROVE  b = e
BY DEF Leads

(* The first step, and what follows. *)
LEMMA LeadsHead ==
  ASSUME NEW x, NEW ss, NEW b, NEW e, Leads(x, ss, b, e), ss # << >>
  PROVE  Proper(x, Head(ss), b) /\ Leads(x, Tail(ss), After(x, Head(ss), b), e)
<1>1. PICK f : /\ f[1] = b /\ f[Len(ss) + 1] = e
               /\ \A i \in 1 .. Len(ss) : Proper(x, ss[i], f[i]) /\ f[i + 1] = After(x, ss[i], f[i])
  BY DEF Leads
<1>2. /\ Len(ss) \in Nat \ {0} /\ Head(ss) = ss[1] /\ Tail(ss) \in Seq(BusSteps(x))
      /\ Len(Tail(ss)) = Len(ss) - 1 /\ \A i \in 1 .. Len(ss) - 1 : Tail(ss)[i] = ss[i + 1]
  BY EmptySeq, HeadTailProperties DEF Leads
<1> DEFINE g == [i \in 1 .. Len(ss) |-> f[i + 1]]
<1>3. \A i \in 1 .. Len(ss) : g[i] = f[i + 1]
  OBVIOUS
<1>4. Proper(x, ss[1], b) /\ f[2] = After(x, ss[1], b)
  BY <1>1, <1>2
<1>5. g[1] = After(x, Head(ss), b) /\ g[Len(Tail(ss)) + 1] = e
  BY <1>1, <1>2, <1>3, <1>4
<1>6. ASSUME NEW i \in 1 .. Len(Tail(ss))
      PROVE  Proper(x, Tail(ss)[i], g[i]) /\ g[i + 1] = After(x, Tail(ss)[i], g[i])
  <2>1. /\ i \in 1 .. Len(ss) - 1 /\ i \in 1 .. Len(ss) /\ i + 1 \in 1 .. Len(ss)
        /\ g[i] = f[i + 1] /\ g[i + 1] = f[(i + 1) + 1]
    BY <1>2, <1>3
  <2> HIDE DEF g
  <2> QED
    BY <1>1, <1>2, <2>1
<1> HIDE DEF g
<1> QED
  BY <1>2, <1>4, <1>5, <1>6 DEF Leads

(* One step. *)
LEMMA LeadsOne ==
  ASSUME NEW x, NEW s, NEW b, Proper(x, s, b)
  PROVE  Leads(x, <<s>>, b, After(x, s, b))
<1> DEFINE f == <<b, After(x, s, b)>>
<1>1. <<s>> \in Seq(BusSteps(x)) /\ Len(<<s>>) = 1 /\ <<s>>[1] = s
  BY ProperType
<1>2. f[1] = b /\ f[2] = After(x, s, b)
  OBVIOUS
<1> HIDE DEF f
<1>3. \A i \in 1 .. 1 : i = 1
  OBVIOUS
<1>4. \A i \in 1 .. Len(<<s>>) :
        Proper(x, <<s>>[i], f[i]) /\ f[i + 1] = After(x, <<s>>[i], f[i])
  BY <1>1, <1>2, <1>3
<1> QED
  BY <1>1, <1>2, <1>4 DEF Leads

(* One list of steps after another. *)
LEMMA LeadsOn ==
  ASSUME NEW x, NEW ss, NEW tt, NEW b, NEW c, NEW e, Leads(x, ss, b, c), Leads(x, tt, c, e)
  PROVE  Leads(x, ss \o tt, b, e)
<1>1. PICK f : /\ f[1] = b /\ f[Len(ss) + 1] = c
               /\ \A i \in 1 .. Len(ss) : Proper(x, ss[i], f[i]) /\ f[i + 1] = After(x, ss[i], f[i])
  BY DEF Leads
<1>2. PICK g : /\ g[1] = c /\ g[Len(tt) + 1] = e
               /\ \A i \in 1 .. Len(tt) : Proper(x, tt[i], g[i]) /\ g[i + 1] = After(x, tt[i], g[i])
  BY DEF Leads
<1> DEFINE n == Len(ss)
           m == Len(tt)
           h == [i \in 1 .. n + m + 1 |-> IF i <= n THEN f[i] ELSE g[i - n]]
<1>3. /\ n \in Nat /\ m \in Nat /\ ss \o tt \in Seq(BusSteps(x)) /\ Len(ss \o tt) = n + m
      /\ \A i \in 1 .. n : (ss \o tt)[i] = ss[i]
      /\ \A i \in n + 1 .. n + m : (ss \o tt)[i] = tt[i - n]
  BY ConcatProperties DEF Leads
<1>4. /\ \A i \in 1 .. n + 1 : h[i] = f[i]
      /\ \A i \in n + 1 .. n + m + 1 : h[i] = g[i - n]
  <2>1. g[1] = f[n + 1] /\ (n + 1) - n = 1
    BY <1>1, <1>2, <1>3
  <2> QED
    BY <1>3, <2>1
<1> HIDE DEF n, m, h
<1>5. h[1] = b /\ h[(n + m) + 1] = e
  <2>1. 1 \in 1 .. n + 1 /\ n + m + 1 \in n + 1 .. n + m + 1 /\ (n + m + 1) - n = m + 1
    BY <1>3
  <2> QED
    BY <1>1, <1>2, <1>4, <2>1 DEF m
<1>6. ASSUME NEW i \in 1 .. n + m
      PROVE  Proper(x, (ss \o tt)[i], h[i]) /\ h[i + 1] = After(x, (ss \o tt)[i], h[i])
  <2>1. CASE i <= n
    <3>1. i \in 1 .. n /\ i \in 1 .. n + 1 /\ i + 1 \in 1 .. n + 1
      BY <1>3, <2>1
    <3> QED
      BY <1>1, <1>3, <1>4, <3>1 DEF n
  <2>2. CASE i > n
    <3>1. /\ i \in n + 1 .. n + m /\ i \in n + 1 .. n + m + 1 /\ i + 1 \in n + 1 .. n + m + 1
          /\ i - n \in 1 .. m /\ (i + 1) - n = (i - n) + 1
      BY <1>3, <2>2
    <3> QED
      BY <1>2, <1>3, <1>4, <3>1, SMTT(25) DEF m
  <2> QED
    BY <1>3, <2>1, <2>2
<1> QED
  BY <1>3, <1>5, <1>6 DEF Leads

-----------------------------------------------------------------------------
(* The functions of the library. *)

(* What the module takes a byte for after each of their commands. *)
LEMMA Phased ==
  ASSUME NEW x, NEW v, NEW ph
  PROVE  /\ NextPhase(x, {"start", "write"}, SlaveAddr + WR, ph)
              = IF x \in Plugged THEN "address" ELSE "off"
         /\ NextPhase(x, {"start", "write"}, SlaveAddr + RD, ph)
              = IF x \in Plugged THEN "read" ELSE "off"
         /\ NextPhase(x, {"write"}, v, ph) = IF ph = "address" THEN "write" ELSE ph
         /\ NextPhase(x, {"read"}, v, ph) = ph
         /\ NextPhase(x, {"read", "nack"}, v, ph) = "off"
         /\ NextPhase(x, {"write", "stop"}, v, ph) = "free"
<1>1. SlaveAddr + WR = 160 /\ SlaveAddr + RD = 161
  BY DEF SlaveAddr, WR, RD
<1>2. NextPhase(x, {"start", "write"}, 160, ph) = IF x \in Plugged THEN "address" ELSE "off"
  BY <1>1 DEF NextPhase, SlaveAddr
<1>3. NextPhase(x, {"start", "write"}, 161, ph) = IF x \in Plugged THEN "read" ELSE "off"
  BY <1>1 DEF NextPhase, SlaveAddr
<1>4. NextPhase(x, {"write"}, v, ph) = IF ph = "address" THEN "write" ELSE ph
  BY DEF NextPhase
<1>5. NextPhase(x, {"read"}, v, ph) = ph
  BY DEF NextPhase
<1>6. NextPhase(x, {"read", "nack"}, v, ph) = "off"
  BY DEF NextPhase
<1>7. NextPhase(x, {"write", "stop"}, v, ph) = "free"
  BY DEF NextPhase
<1> QED
  BY <1>1, <1>2, <1>3, <1>4, <1>5, <1>6, <1>7

(* ... and its memory address. *)
LEMMA Pointed ==
  ASSUME NEW v, NEW a
  PROVE  /\ NextPointer({"write"}, v, "address", a) = v % MemSize
         /\ NextPointer({"write"}, v, "write", a) = (a + 1) % MemSize
         /\ NextPointer({"write", "stop"}, v, "write", a) = (a + 1) % MemSize
         /\ NextPointer({"read"}, v, "read", a) = (a + 1) % MemSize
         /\ NextPointer({"read", "nack"}, v, "read", a) = (a + 1) % MemSize
         /\ \A ph : NextPointer({"start", "write"}, v, ph, a) = a
         /\ \A c : NextPointer(c, v, "off", a) = a
<1>1. /\ Taken({"write"}) /\ Taken({"write", "stop"}) /\ ~Taken({"read"})
      /\ ~Taken({"read", "nack"}) /\ ~Taken({"start", "write"})
      /\ "read" \notin {"start", "write"}
  BY DEF Taken
<1>2. NextPointer({"write"}, v, "address", a) = v % MemSize
  BY <1>1 DEF NextPointer
<1>3. NextPointer({"write"}, v, "write", a) = (a + 1) % MemSize
  BY <1>1 DEF NextPointer
<1>4. NextPointer({"write", "stop"}, v, "write", a) = (a + 1) % MemSize
  BY <1>1 DEF NextPointer
<1>5. NextPointer({"read"}, v, "read", a) = (a + 1) % MemSize
  BY <1>1 DEF NextPointer
<1>6. NextPointer({"read", "nack"}, v, "read", a) = (a + 1) % MemSize
  BY <1>1 DEF NextPointer
<1>7. \A ph : NextPointer({"start", "write"}, v, ph, a) = a
  BY <1>1 DEF NextPointer
<1>8. \A c : NextPointer(c, v, "off", a) = a
  BY DEF NextPointer
<1> QED
  BY <1>2, <1>3, <1>4, <1>5, <1>6, <1>7, <1>8

(* Addresses are bytes, and stay as they are modulo the size of the memory. *)
LEMMA AddressFacts ==
  /\ MemSize \in Nat /\ MemSize >= 2 /\ MemSize <= 100
  /\ Addresses = 0 .. MemSize - 1 /\ Addresses \subseteq Byte /\ NoByte \notin Addresses
  /\ Blank \notin Addresses /\ NoByte # Blank
  /\ \A a \in Addresses : a % MemSize = a
  /\ \A a \in Int : a % MemSize \in Addresses
<1>1. MemSize \in Nat /\ MemSize >= 2 /\ MemSize <= 100 /\ Addresses = 0 .. MemSize - 1
  BY I2cAssumption DEF Addresses
<1>2. /\ Addresses \subseteq Byte /\ NoByte \notin Addresses
      /\ Blank \notin Addresses /\ NoByte # Blank
  BY <1>1 DEF Byte, NoByte, Blank
<1>3. \A a \in Int : a % MemSize \in Addresses
  BY <1>1
<1>4. \A a \in Addresses : a % MemSize = a
  BY <1>1, SmallMod
<1> QED
  BY <1>1, <1>2, <1>3, <1>4

(* Three steps. *)
LEMMA LeadsThree ==
  ASSUME NEW x, NEW s, NEW t, NEW w, NEW b, NEW c, NEW d, NEW e,
         Proper(x, s, b), After(x, s, b) = c, Proper(x, t, c), After(x, t, c) = d,
         Proper(x, w, d), After(x, w, d) = e
  PROVE  Leads(x, <<s, t, w>>, b, e)
<1> DEFINE f == <<b, c, d, e>>
           ss == <<s, t, w>>
<1>1. s \in BusSteps(x) /\ t \in BusSteps(x) /\ w \in BusSteps(x)
  BY ProperType
<1>2. ss \in Seq(BusSteps(x)) /\ Len(ss) = 3 /\ ss[1] = s /\ ss[2] = t /\ ss[3] = w
  BY <1>1
<1>3. f[1] = b /\ f[1 + 1] = c /\ f[2 + 1] = d /\ f[3 + 1] = e /\ f[2] = c /\ f[3] = d
  OBVIOUS
<1> HIDE DEF f, ss
<1>4. \A i \in 1 .. 3 : i = 1 \/ i = 2 \/ i = 3
  OBVIOUS
<1>5. \A i \in 1 .. Len(ss) : Proper(x, ss[i], f[i]) /\ f[i + 1] = After(x, ss[i], f[i])
  BY <1>2, <1>3, <1>4
<1>6. ss \in Seq(BusSteps(x)) /\ f[1] = b /\ f[Len(ss) + 1] = e
  BY <1>2, <1>3
<1>7. Leads(x, ss, b, e)
  BY <1>5, <1>6 DEF Leads
<1> QED
  BY <1>7 DEF ss

(* A byte goes out, and perhaps into the memory. *)
LEMMA LeadsSend ==
  ASSUME NEW x \in Ports, NEW b, NEW v \in Byte, NEW c \in SUBSET Bits, NEW w,
         b.command = {}, c # {}, c # {"stop"},
         Told(Known(b.phase, b.pointer, c, v, b.got)),
         \/ w = Wait /\ ~(Taken(c) /\ b.phase = "write")
         \/ \E a \in Addresses : /\ w = WaitFor(Access(x, a, TRUE, v))
                                 /\ x \in Plugged => b.pointer = a /\ Taken(c) /\ b.phase = "write"
  PROVE  Leads(x, <<Put("TXR", v), Put("CR", c), w>>, b,
               Over(x, Known(b.phase, b.pointer, c, v, b.got)))
<1> DEFINE b1 == Known(b.phase, b.pointer, b.command, v, b.got)
           b2 == Known(b.phase, b.pointer, c, v, b.got)
           s1 == Put("TXR", v)
           s2 == Put("CR", c)
<1>1. Proper(x, s1, b) /\ After(x, s1, b) = b1
  <2>1. Puts(x, s1, b)
    BY DEF Puts, Registers
  <2>2. s1.do = "put" /\ s1.reg = "TXR" /\ s1.value = v
    BY DEF Put
  <2> QED
    BY <2>1, <2>2 DEF Proper, After, AfterPut
<1>2. Proper(x, s2, b1) /\ After(x, s2, b1) = b2
  <2>0. b1.command = {}
    BY DEF Known
  <2>1. Puts(x, s2, b1)
    <3> HIDE DEF b1
    <3> QED
      <4>1. \E c0 \in (SUBSET Bits) \ {{}} : s2 = Put("CR", c0)
        OBVIOUS
      <4> QED
        BY <2>0, <4>1, Zenon DEF Puts
  <2>2. s2.do = "put" /\ s2.reg = "CR" /\ s2.value = c
    BY DEF Put
  <2>3. /\ b1.phase = b.phase /\ b1.pointer = b.pointer /\ b1.sent = v /\ b1.got = b.got
    BY DEF Known
  <2> HIDE DEF s2, b1
  <2> QED
    BY <2>1, <2>2, <2>3 DEF Proper, After, AfterPut
<1>3. Proper(x, w, b2) /\ After(x, w, b2) = Over(x, b2)
  <2>1. /\ b2.phase = b.phase /\ b2.pointer = b.pointer /\ b2.command = c
        /\ b2.sent = v /\ b2.got = b.got
    BY DEF Known
  <2>2. w.do = "wait"
    <3>1. Wait.do = "wait" /\ \A a : WaitFor(a).do = "wait"
      BY DEF Wait, WaitFor
    <3> QED
      BY <3>1
  <2>3. Waits(x, w, b2)
    BY <2>1 DEF Waits, Stores
  <2> HIDE DEF b2
  <2> QED
    BY <2>2, <2>3 DEF Proper, After
<1> HIDE DEF b1, b2, s1, s2
<1>4. Leads(x, <<s1, s2, w>>, b, Over(x, b2))
  BY <1>1, <1>2, <1>3, LeadsThree
<1> QED
  BY <1>4 DEF s1, s2, b2

(* The module is told where to go on. *)
LEMMA LeadsGoTo ==
  ASSUME NEW x \in Ports, NEW b, Free(b), NEW a \in Addresses
  PROVE  \E e : /\ Leads(x, GoTo(a), b, e) /\ e.command = {}
                /\ x \in Plugged => e.phase = "write" /\ e.pointer = a
                /\ x \notin Plugged => e.phase = "off"
<1> DEFINE v == SlaveAddr + WR
           c == {"start", "write"}
           b1 == Known(b.phase, b.pointer, c, v, b.got)
           e1 == Over(x, b1)
           b2 == Known(e1.phase, e1.pointer, {"write"}, a, e1.got)
           e2 == Over(x, b2)
<1>1. /\ v = 160 /\ v \in Byte /\ v # NoByte
      /\ a \in Byte /\ a # NoByte /\ a % MemSize = a
  <2>1. a \in Byte /\ a # NoByte /\ a % MemSize = a
    BY AddressFacts
  <2> QED
    BY <2>1 DEF SlaveAddr, WR, Byte, NoByte
<1>2. /\ c \in SUBSET Bits /\ c # {} /\ c # {"stop"} /\ ~Taken(c)
      /\ {"write"} \in SUBSET Bits /\ {"write"} # {} /\ {"write"} # {"stop"}
  BY DEF Bits, Taken
<1>3. /\ b1.phase = "free" /\ b1.command = c /\ b1.sent = v /\ b1.pointer = b.pointer
  BY DEF Known, Free
<1>4. Told(b1)
  BY <1>1, <1>3 DEF Told
<1>5. Leads(x, Send(v, c), b, e1)
  <2> HIDE DEF c, v
  <2>1. Leads(x, <<Put("TXR", v), Put("CR", c), Wait>>, b, e1)
    BY <1>1, <1>2, <1>4, LeadsSend, ZenonT(40) DEF Free
  <2> QED
    BY <2>1 DEF Send
<1>6. e1.phase = (IF x \in Plugged THEN "address" ELSE "off") /\ e1.command = {}
  <2>1. e1.phase = NextPhase(x, c, v, b1.phase) /\ e1.command = {}
    <3> HIDE DEF b1, c, v
    <3> QED
      BY <1>3 DEF Over, Known
  <2> QED
    BY <2>1, Phased
<1> HIDE DEF e1, b1
<1>7. /\ b2.phase = e1.phase /\ b2.command = {"write"} /\ b2.sent = a /\ b2.pointer = e1.pointer
  BY DEF Known
<1>8. Told(b2) /\ ~(Taken({"write"}) /\ e1.phase = "write")
  BY <1>1, <1>6, <1>7 DEF Told
<1>9. Leads(x, Send(a, {"write"}), e1, e2)
  <2>1. Leads(x, <<Put("TXR", a), Put("CR", {"write"}), Wait>>, e1, e2)
    BY <1>1, <1>2, <1>6, <1>8, LeadsSend, ZenonT(40)
  <2> QED
    BY <2>1 DEF Send
<1>10. /\ e2.phase = (IF x \in Plugged THEN "write" ELSE "off") /\ e2.command = {}
       /\ x \in Plugged => e2.pointer = a
  <2>1. /\ e2.phase = NextPhase(x, {"write"}, a, e1.phase) /\ e2.command = {}
        /\ e2.pointer = NextPointer({"write"}, a, e1.phase, e1.pointer)
    <3> HIDE DEF b2
    <3> QED
      BY <1>7 DEF Over, Known
  <2> HIDE DEF e2, b2
  <2>2. NextPhase(x, {"write"}, a, e1.phase) = IF e1.phase = "address" THEN "write" ELSE e1.phase
    BY Phased
  <2>3. NextPointer({"write"}, a, "address", e1.pointer) = a
    BY <1>1, Pointed
  <2> QED
    BY <1>6, <2>1, <2>2, <2>3
<1> HIDE DEF e2, b2, c, v
<1>11. Leads(x, GoTo(a), b, e2)
  BY <1>5, <1>9, LeadsOn DEF GoTo, c, v
<1> QED
  BY <1>10, <1>11

(* What the call knows of the bus of an answering module, j of the n bytes it *)
(* reads from address a on having been received.                               *)
Fetching(x, a, p, v, g, n, j) ==
  Known(IF j = n THEN "off" ELSE IF x \in Plugged THEN "read" ELSE "off",
        IF x \in Plugged THEN (a + j) % MemSize ELSE p, {}, v,
        IF j = 0 THEN g ELSE IF x \in Plugged THEN a + j - 1 ELSE Blank)

(* The module is addressed again, to be read. *)
LEMMA LeadsRead ==
  ASSUME NEW x \in Ports, NEW b, b.command = {}, NEW a \in Addresses, NEW n \in Nat \ {0},
         x \in Plugged => b.phase = "write" /\ b.pointer = a,
         x \notin Plugged => b.phase = "off"
  PROVE  \E p, v, g : Leads(x, Send(SlaveAddr + RD, {"start", "write"}), b,
                            Fetching(x, a, p, v, g, n, 0))
<1>0. /\ \A ph : NextPhase(x, {"start", "write"}, SlaveAddr + RD, ph)
                    = IF x \in Plugged THEN "read" ELSE "off"
      /\ \A ph : NextPointer({"start", "write"}, SlaveAddr + RD, ph, b.pointer) = b.pointer
  <2>1. \A ph : NextPhase(x, {"start", "write"}, SlaveAddr + RD, ph)
                 = IF x \in Plugged THEN "read" ELSE "off"
    BY Phased
  <2>2. \A v, ph : NextPointer({"start", "write"}, v, ph, b.pointer) = b.pointer
    BY Pointed
  <2> QED
    BY <2>1, <2>2
<1> DEFINE v == SlaveAddr + RD
           c == {"start", "write"}
           b1 == Known(b.phase, b.pointer, c, v, b.got)
           e1 == Over(x, b1)
           g == IF "read" \in c THEN IF b1.phase = "read" THEN b1.pointer ELSE Blank
                ELSE IF Taken(c) /\ b1.phase = "write" THEN NoByte ELSE b1.got
<1>1. v = 161 /\ v \in Byte /\ v # NoByte /\ a # NoByte
  BY AddressFacts DEF SlaveAddr, RD, Byte, NoByte
<1>2. c \in SUBSET Bits /\ c # {} /\ c # {"stop"} /\ ~Taken(c)
  BY DEF Bits, Taken
<1>3. b1.phase = b.phase /\ b1.command = c /\ b1.sent = v /\ b1.pointer = b.pointer
  BY DEF Known
<1>4. Told(b1)
  BY <1>1, <1>3 DEF Told
<1>5. Leads(x, Send(v, c), b, e1)
  <2> HIDE DEF c, v
  <2>1. Leads(x, <<Put("TXR", v), Put("CR", c), Wait>>, b, e1)
    BY <1>1, <1>2, <1>4, LeadsSend, ZenonT(40)
  <2> QED
    BY <2>1 DEF Send
<1>6. e1 = Known(IF x \in Plugged THEN "read" ELSE "off", b.pointer, {}, v, g)
  <2>1. e1 = Known(NextPhase(x, c, v, b1.phase), NextPointer(c, v, b1.phase, b.pointer), {}, v, g)
    <3> HIDE DEF b1, c, v
    <3> QED
      BY <1>3 DEF Over, g
  <2> HIDE DEF b1, g
  <2>2. NextPhase(x, c, v, b1.phase) = IF x \in Plugged THEN "read" ELSE "off"
    BY <1>0
  <2>3. NextPointer(c, v, b1.phase, b.pointer) = b.pointer
    BY <1>0
  <2> HIDE DEF e1, c, v, g
  <2> QED
    BY <2>1, <2>2, <2>3
<1> HIDE DEF e1, b1, g, v
<1>7. e1 = Fetching(x, a, b.pointer, v, g, n, 0)
  <2>1. a + 0 = a /\ (a + 0) % MemSize = a /\ 0 # n
    <3>1. a \in Int
      BY AddressFacts
    <3>2. a % MemSize = a
      BY AddressFacts, Zenon
    <3> QED
      BY <3>1, <3>2
  <2> QED
    BY <1>6, <2>1 DEF Fetching
<1> QED
  BY <1>5, <1>7 DEF v

(* The bytes it sends. *)
LEMMA LeadsReceive ==
  ASSUME NEW x \in Ports, NEW a \in Addresses, NEW n \in 1 .. MemSize - a, NEW p, NEW v, NEW g
  PROVE  \E e : Leads(x, Receive(x, a, n), Fetching(x, a, p, v, g, n, 0), e) /\ Free(e)
<1> DEFINE c(j) == IF j = n - 1 THEN {"read", "nack"} ELSE {"read"}
           ss == [i \in 1 .. 3 * n |->
                    CASE i % 3 = 1 -> Put("CR", IF i \div 3 = n - 1 THEN {"read", "nack"} ELSE {"read"})
                      [] i % 3 = 2 -> Wait
                      [] i % 3 = 0 -> Fetch(Access(x, a + (i \div 3) - 1, FALSE, 0))]
           R(j) == Fetching(x, a, p, v, g, n, j)
           B(j) == Known(R(j).phase, R(j).pointer, c(j), v, R(j).got)
           f == [i \in 1 .. 3 * n + 1 |->
                   IF i % 3 = 1 THEN R((i - 1) \div 3)
                   ELSE IF i % 3 = 2 THEN B((i - 1) \div 3) ELSE R((i - 1) \div 3 + 1)]
<1>1. /\ n \in Nat \ {0} /\ a \in Nat /\ a + n <= MemSize /\ MemSize \in Nat \ {0}
      /\ Addresses = 0 .. MemSize - 1 /\ Blank \notin Addresses /\ NoByte \notin Addresses
  BY AddressFacts
<1>2. \A i \in 1 .. 3 * n :
        /\ i % 3 = 1 => ss[i] = Put("CR", c(i \div 3))
        /\ i % 3 = 2 => ss[i] = Wait
        /\ i % 3 = 0 => ss[i] = Fetch(Access(x, a + (i \div 3) - 1, FALSE, 0))
  <2> SUFFICES ASSUME NEW i \in 1 .. 3 * n
               PROVE  /\ i % 3 = 1 => ss[i] = Put("CR", c(i \div 3))
                      /\ i % 3 = 2 => ss[i] = Wait
                      /\ i % 3 = 0 => ss[i] = Fetch(Access(x, a + (i \div 3) - 1, FALSE, 0))
    OBVIOUS
  <2> DEFINE s == Put("CR", c(i \div 3))
             w == Fetch(Access(x, a + (i \div 3) - 1, FALSE, 0))
             r == i % 3
  <2>1. ss[i] = CASE r = 1 -> s [] r = 2 -> Wait [] r = 0 -> w
    OBVIOUS
  <2> HIDE DEF s, w, r, ss
  <2>2. /\ r = 1 => ss[i] = s
        /\ r = 2 => ss[i] = Wait
        /\ r = 0 => ss[i] = w
    BY <2>1
  <2> QED
    BY <2>2 DEF s, w, r
<1> HIDE DEF ss
<1>3. ASSUME NEW j \in 0 .. n - 1
      PROVE  /\ 3 * j + 1 \in 1 .. 3 * n /\ 3 * j + 2 \in 1 .. 3 * n /\ 3 * j + 3 \in 1 .. 3 * n
             /\ ss[3 * j + 1] = Put("CR", c(j)) /\ ss[3 * j + 2] = Wait
             /\ ss[3 * j + 3] = Fetch(Access(x, a + j, FALSE, 0))
             /\ f[3 * j + 1] = R(j) /\ f[3 * j + 2] = B(j) /\ f[3 * j + 3] = R(j + 1)
  <2>1. /\ 3 * j + 1 \in 1 .. 3 * n /\ (3 * j + 1) % 3 = 1 /\ (3 * j + 1) \div 3 = j
        /\ ((3 * j + 1) - 1) \div 3 = j
    BY <1>1
  <2>2. 3 * j + 2 \in 1 .. 3 * n /\ (3 * j + 2) % 3 = 2 /\ ((3 * j + 2) - 1) \div 3 = j
    BY <1>1
  <2>3. /\ 3 * j + 3 \in 1 .. 3 * n /\ (3 * j + 3) % 3 = 0 /\ (3 * j + 3) \div 3 = j + 1
        /\ ((3 * j + 3) - 1) \div 3 = j /\ a + (j + 1) - 1 = a + j
    BY <1>1
  <2> HIDE DEF R, B
  <2>4. ss[3 * j + 1] = Put("CR", c(j))
    BY <1>2, <2>1
  <2>5. ss[3 * j + 2] = Wait
    BY <1>2, <2>2
  <2>6. ss[3 * j + 3] = Fetch(Access(x, a + j, FALSE, 0))
    BY <1>2, <2>3
  <2>7. f[3 * j + 1] = R(j) /\ f[3 * j + 2] = B(j) /\ f[3 * j + 3] = R(j + 1)
    BY <1>1, <2>1, <2>2, <2>3
  <2> QED
    BY <2>1, <2>2, <2>3, <2>4, <2>5, <2>6, <2>7
<1>4. f[3 * n + 1] = R(n)
  <2>1. 3 * n + 1 \in 1 .. 3 * n + 1 /\ (3 * n + 1) % 3 = 1 /\ ((3 * n + 1) - 1) \div 3 = n
    BY <1>1
  <2> HIDE DEF R, B
  <2> QED
    BY <2>1
<1>5. ASSUME NEW j \in 0 .. n - 1
      PROVE  /\ 3 * (j + 1) + 1 = (3 * j + 3) + 1 /\ f[(3 * j + 3) + 1] = R(j + 1)
             /\ (3 * j + 1) + 1 = 3 * j + 2 /\ (3 * j + 2) + 1 = 3 * j + 3
  <2>1. 3 * (j + 1) + 1 = (3 * j + 3) + 1 /\ (3 * j + 1) + 1 = 3 * j + 2 /\ (3 * j + 2) + 1 = 3 * j + 3
    OBVIOUS
  <2>2. CASE j + 1 = n
    <3> HIDE DEF f, R
    <3> QED
      BY <1>4, <2>1, <2>2
  <2>3. CASE j + 1 # n
    <3>1. j + 1 \in 0 .. n - 1
      BY <2>3
    <3> HIDE DEF f, R, B, c
    <3> QED
      BY <1>3, <2>1, <3>1
  <2> QED
    BY <2>2, <2>3
<1> HIDE DEF f
<1>6. \A j \in 0 .. n :
        /\ R(j).phase = IF j = n THEN "off" ELSE IF x \in Plugged THEN "read" ELSE "off"
        /\ R(j).pointer = IF x \in Plugged THEN (a + j) % MemSize ELSE p
        /\ R(j).got = IF j = 0 THEN g ELSE IF x \in Plugged THEN a + j - 1 ELSE Blank
        /\ R(j).command = {} /\ R(j).sent = v
  BY DEF Fetching, Known
<1>7. ASSUME NEW j \in 0 .. n - 1
      PROVE  /\ Proper(x, Put("CR", c(j)), R(j)) /\ After(x, Put("CR", c(j)), R(j)) = B(j)
             /\ Proper(x, Wait, B(j)) /\ After(x, Wait, B(j)) = R(j + 1)
             /\ Proper(x, Fetch(Access(x, a + j, FALSE, 0)), R(j + 1))
             /\ After(x, Fetch(Access(x, a + j, FALSE, 0)), R(j + 1)) = R(j + 1)
  <2> DEFINE k == c(j)
  <2>1. /\ k \in SUBSET Bits /\ k # {} /\ k # {"stop"} /\ ~Taken(k)
        /\ "start" \notin k /\ "read" \in k
        /\ \A ph : NextPhase(x, k, v, ph) = IF j + 1 = n THEN "off" ELSE ph
        /\ \A q : NextPointer(k, v, "read", q) = (q + 1) % MemSize
    <3>1. CASE j = n - 1
      <4>1. k = {"read", "nack"} /\ j + 1 = n
        BY <1>1, <3>1
      <4> HIDE DEF k
      <4> QED
        BY <4>1, Phased, Pointed DEF Bits, Taken
    <3>2. CASE j # n - 1
      <4>1. k = {"read"} /\ j + 1 # n
        BY <1>1, <3>2
      <4> HIDE DEF k
      <4> QED
        BY <4>1, Phased, Pointed DEF Bits, Taken
    <3> QED
      BY <3>1, <3>2
  <2>2. /\ j \in 0 .. n /\ j + 1 \in 0 .. n /\ j # n /\ j + 1 # 0
        /\ a + j \in Addresses /\ a + (j + 1) - 1 = a + j /\ a + j # NoByte
    BY <1>1
  <2>3. (a + j) % MemSize = a + j /\ (a + j) + 1 = a + (j + 1)
    <3>1. (a + j) % MemSize = a + j
      BY <2>2, AddressFacts, Zenon
    <3> QED
      BY <1>1, <3>1
  <2>4. /\ R(j).phase = IF x \in Plugged THEN "read" ELSE "off"
        /\ R(j).pointer = IF x \in Plugged THEN a + j ELSE p
        /\ R(j).command = {} /\ R(j).sent = v
    BY <1>6, <2>2, <2>3
  <2>5. /\ B(j).phase = R(j).phase /\ B(j).pointer = R(j).pointer /\ B(j).command = k
        /\ B(j).sent = v
    BY DEF Known
  <2>6. R(j + 1) = Known(IF j + 1 = n THEN "off" ELSE R(j).phase,
                         IF x \in Plugged THEN (a + (j + 1)) % MemSize ELSE p, {}, v,
                         IF x \in Plugged THEN a + j ELSE Blank)
    <3>1. R(j + 1) = Known(IF j + 1 = n THEN "off" ELSE IF x \in Plugged THEN "read" ELSE "off",
                           IF x \in Plugged THEN (a + (j + 1)) % MemSize ELSE p, {}, v,
                           IF x \in Plugged THEN a + j ELSE Blank)
      BY <2>2 DEF Fetching
    <3> HIDE DEF R
    <3> QED
      BY <2>4, <3>1
  <2>7. R(j + 1).command = {} /\ R(j + 1).got = IF x \in Plugged THEN a + j ELSE Blank
    BY <1>6, <2>2
  <2>8. B(j) = Known(R(j).phase, R(j).pointer, k, v, R(j).got)
    OBVIOUS
  <2> HIDE DEF R, B, k
  <2>9. Proper(x, Put("CR", k), R(j)) /\ After(x, Put("CR", k), R(j)) = B(j)
    <3>1. Puts(x, Put("CR", k), R(j))
      <4>1. \E c0 \in (SUBSET Bits) \ {{}} : Put("CR", k) = Put("CR", c0)
        BY <2>1
      <4> QED
        BY <2>4, <4>1, Zenon DEF Puts
    <3>2. Put("CR", k).do = "put" /\ Put("CR", k).reg = "CR" /\ Put("CR", k).value = k
      BY DEF Put
    <3> QED
      BY <2>1, <2>4, <2>8, <3>1, <3>2 DEF Proper, After, AfterPut
  <2>10. Proper(x, Wait, B(j)) /\ After(x, Wait, B(j)) = R(j + 1)
    <3>1. Told(B(j)) /\ ~Stores(B(j)) /\ B(j).command # {}
      BY <2>1, <2>2, <2>4, <2>5 DEF Told, Stores
    <3>2. Over(x, B(j)) = R(j + 1)
      <4>1. NextPhase(x, k, v, R(j).phase) = IF j + 1 = n THEN "off" ELSE R(j).phase
        BY <2>1
      <4>2. NextPointer(k, v, R(j).phase, R(j).pointer)
              = IF x \in Plugged THEN (a + (j + 1)) % MemSize ELSE p
        <5>1. CASE x \in Plugged
          BY <2>1, <2>3, <2>4, <5>1
        <5>2. CASE x \notin Plugged
          <6>1. R(j).phase = "off" /\ R(j).pointer = p
            BY <2>4, <5>2
          <6>2. NextPointer(k, v, "off", p) = p
            BY DEF NextPointer
          <6> QED
            BY <5>2, <6>1, <6>2
        <5> QED
          BY <5>1, <5>2
      <4>3. Over(x, B(j)) = Known(NextPhase(x, k, v, R(j).phase),
                                  NextPointer(k, v, R(j).phase, R(j).pointer), {}, v,
                                  IF R(j).phase = "read" THEN R(j).pointer ELSE Blank)
        BY <2>1, <2>5 DEF Over
      <4> QED
        BY <2>4, <2>6, <4>1, <4>2, <4>3
    <3>3. Wait.do = "wait"
      BY DEF Wait
    <3> QED
      BY <3>1, <3>2, <3>3 DEF Proper, Waits, After
  <2>11. /\ Proper(x, Fetch(Access(x, a + j, FALSE, 0)), R(j + 1))
         /\ After(x, Fetch(Access(x, a + j, FALSE, 0)), R(j + 1)) = R(j + 1)
    <3>1. Fetches(x, Fetch(Access(x, a + j, FALSE, 0)), R(j + 1))
      BY <2>2, <2>7 DEF Fetches
    <3>2. Fetch(Access(x, a + j, FALSE, 0)).do = "fetch"
      BY DEF Fetch
    <3> QED
      BY <3>1, <3>2 DEF Proper, After
  <2> QED
    BY <2>9, <2>10, <2>11 DEF k
<1> HIDE DEF R, B, c
<1>8. \A i \in 1 .. 3 * n :
        Proper(x, ss[i], f[i]) /\ f[i + 1] = After(x, ss[i], f[i])
  <2> SUFFICES ASSUME NEW i \in 1 .. 3 * n
               PROVE  Proper(x, ss[i], f[i]) /\ f[i + 1] = After(x, ss[i], f[i])
    OBVIOUS
  <2>1. PICK j \in 0 .. n - 1 : i = 3 * j + 1 \/ i = 3 * j + 2 \/ i = 3 * j + 3
    <3>1. /\ (i - 1) \div 3 \in 0 .. n - 1
          /\ LET j == (i - 1) \div 3 IN i = 3 * j + 1 \/ i = 3 * j + 2 \/ i = 3 * j + 3
      BY <1>1
    <3> QED
      BY <3>1
  <2>2. CASE i = 3 * j + 1
    BY <1>3, <1>5, <1>7, <2>2
  <2>3. CASE i = 3 * j + 2
    BY <1>3, <1>5, <1>7, <2>3
  <2>4. CASE i = 3 * j + 3
    BY <1>3, <1>5, <1>7, <2>4
  <2> QED
    BY <2>1, <2>2, <2>3, <2>4
<1>9. Leads(x, ss, R(0), R(n))
  <2>1. \A i \in 1 .. 3 * n : ss[i] \in BusSteps(x)
    BY <1>8, ProperType
  <2>2. ss \in Seq(BusSteps(x)) /\ Len(ss) = 3 * n
    <3>1. 3 * n \in Nat
      BY <1>1
    <3>2. ss \in [1 .. 3 * n -> BusSteps(x)]
      BY <2>1 DEF ss
    <3> QED
      BY <3>1, <3>2
  <2>3. f[1] = R(0)
    <3>1. 0 \in 0 .. n - 1 /\ 3 * 0 + 1 = 1
      BY <1>1
    <3> QED
      BY <1>3, <3>1
  <2> QED
    BY <1>4, <1>8, <2>2, <2>3 DEF Leads
<1>10. PICK e : Leads(x, <<Put("CR", {"stop"})>>, R(n), e) /\ Free(e)
  <2> DEFINE s == Put("CR", {"stop"})
  <2>1. R(n).command = {}
    BY <1>1, <1>6
  <2>2. Puts(x, s, R(n))
    <3>1. \E c0 \in (SUBSET Bits) \ {{}} : s = Put("CR", c0)
      <4>1. {"stop"} \in (SUBSET Bits) \ {{}}
        BY DEF Bits
      <4> QED
        BY <4>1
    <3> HIDE DEF s
    <3> QED
      BY <2>1, <3>1, Zenon DEF Puts
  <2>3. s.do = "put" /\ s.reg = "CR" /\ s.value = {"stop"}
    BY DEF Put
  <2> HIDE DEF s
  <2>4. After(x, s, R(n)) = Known("free", R(n).pointer, {}, R(n).sent, R(n).got)
    BY <2>3 DEF After, AfterPut
  <2>5. Free(After(x, s, R(n)))
    BY <2>4 DEF Free, Known
  <2>6. Leads(x, <<s>>, R(n), After(x, s, R(n)))
    BY <2>2, LeadsOne DEF Proper
  <2> QED
    BY <2>5, <2>6 DEF s
<1>11. Leads(x, ss \o <<Put("CR", {"stop"})>>, R(0), e)
  BY <1>9, <1>10, LeadsOn
<1> QED
  BY <1>10, <1>11 DEF Receive, R, ss

(* A port that is not there: nothing is known, and nothing happens. *)
LEMMA LeadsRefused ==
  ASSUME NEW x, x \notin Ports, NEW n \in Nat, NEW ss \in [1 .. n -> {Refuse(a) : a \in AccessesTo(x)}],
         NEW b
  PROVE  Leads(x, ss, b, b)
<1> DEFINE f == [i \in 1 .. n + 1 |-> b]
<1>1. \A i \in 1 .. n : \E a \in AccessesTo(x) : ss[i] = Refuse(a)
  OBVIOUS
<1>2. \A i \in 1 .. n : Proper(x, ss[i], b)
  BY <1>1 DEF Proper, Refuses
<1>3. \A i \in 1 .. n : After(x, ss[i], b) = b
  <2>1. \A a : Refuse(a).do = "refuse"
    BY DEF Refuse
  <2> QED
    BY <1>1, <2>1 DEF After
<1>4. ss \in Seq(BusSteps(x)) /\ Len(ss) = n
  <2>1. \A i \in 1 .. n : ss[i] \in BusSteps(x)
    BY <1>2, ProperType
  <2>2. ss \in [1 .. n -> BusSteps(x)]
    BY <2>1
  <2> QED
    BY <2>2
<1>5. f[1] = b /\ f[n + 1] = b /\ \A i \in 1 .. n : f[i] = b /\ f[i + 1] = b
  OBVIOUS
<1> HIDE DEF f
<1> QED
  BY <1>2, <1>3, <1>4, <1>5 DEF Leads

(* n bytes are read. *)
LEMMA ReadFits ==
  ASSUME NEW x, NEW b, Free(b), NEW a \in Addresses, NEW n \in 1 .. MemSize - a
  PROVE  FitsCall(x, ReadBytes(x, a, n), b)
<1>1. CASE x \in Ports
  <2>1. PICK c : /\ Leads(x, GoTo(a), b, c) /\ c.command = {}
                 /\ x \in Plugged => c.phase = "write" /\ c.pointer = a
                 /\ x \notin Plugged => c.phase = "off"
    BY <1>1, LeadsGoTo
  <2>2. PICK p, v, g : Leads(x, Send(SlaveAddr + RD, {"start", "write"}), c, Fetching(x, a, p, v, g, n, 0))
    <3>1. n \in Nat \ {0}
      BY AddressFacts
    <3> QED
      BY <1>1, <2>1, <3>1, LeadsRead
  <2>3. PICK e : Leads(x, Receive(x, a, n), Fetching(x, a, p, v, g, n, 0), e) /\ Free(e)
    BY <1>1, LeadsReceive
  <2>4. Leads(x, (GoTo(a) \o Send(SlaveAddr + RD, {"start", "write"})) \o Receive(x, a, n), b, e)
    BY <2>1, <2>2, <2>3, LeadsOn
  <2> QED
    BY <1>1, <2>3, <2>4 DEF FitsCall, ReadBytes
<1>2. CASE x \notin Ports
  <2>1. n \in Nat /\ \A i \in 1 .. n : a + i - 1 \in Addresses
    BY AddressFacts
  <2>2. \A i \in 1 .. n : Access(x, a + i - 1, FALSE, 0) \in AccessesTo(x)
    BY <2>1 DEF Access, AccessesTo
  <2>3. [i \in 1 .. n |-> Refuse(Access(x, a + i - 1, FALSE, 0))]
          \in [1 .. n -> {Refuse(c) : c \in AccessesTo(x)}]
    BY <2>2
  <2>4. Leads(x, ReadBytes(x, a, n), b, b)
    BY <1>2, <2>1, <2>3, LeadsRefused DEF ReadBytes
  <2> QED
    BY <2>4 DEF FitsCall
<1> QED
  BY <1>1, <1>2

(* n bytes are read one by one. *)
LEMMA VendorFits ==
  ASSUME NEW x, NEW b, Free(b), NEW a \in Addresses, NEW n \in 1 .. MemSize - a
  PROVE  FitsCall(x, VendorId(x, a, n), b)
<1> DEFINE ss == [i \in 1 .. n |-> ReadBytes(x, a + i - 1, 1)]
           f == CHOOSE g : Flattened(ss, n, g)
           T == {m \in Nat : m \in 1 .. n => \E e : Leads(x, f[m], b, e) /\ Free(e)}
<1>1. /\ n \in Nat /\ n # 0 /\ Len(ss) = n /\ Flattened(ss, n, f)
      /\ \A i \in 1 .. n : ss[i] = ReadBytes(x, a + i - 1, 1)
      /\ \A i \in 1 .. n : a + i - 1 \in Addresses /\ 1 \in 1 .. MemSize - (a + i - 1)
  <2>1. n \in Nat /\ n # 0
    BY AddressFacts
  <2>2. \E g : Flattened(ss, n, g)
    <3> HIDE DEF ss
    <3> QED
      BY <2>1, FlattenedExists
  <2>3. Flattened(ss, n, f)
    <3> HIDE DEF ss
    <3> QED
      BY <2>2, Zenon DEF f
  <2>4. Len(ss) = n /\ \A i \in 1 .. n : ss[i] = ReadBytes(x, a + i - 1, 1)
    BY <2>1
  <2>5. \A i \in 1 .. n : a + i - 1 \in Addresses /\ 1 \in 1 .. MemSize - (a + i - 1)
    BY AddressFacts
  <2> QED
    BY <2>1, <2>3, <2>4, <2>5
<1>2. VendorId(x, a, n) = f[n]
  <2>1. FlattenSeq(ss) = IF n = 0 THEN ss ELSE f[n]
    <3>1. FlattenSeq(ss) = IF Len(ss) = 0 THEN ss ELSE (CHOOSE g : Flattened(ss, Len(ss), g))[Len(ss)]
      <4> HIDE DEF ss
      <4> QED
        BY DEF FlattenSeq, Flattened
    <3> QED
      BY <1>1, <3>1
  <2> QED
    BY <1>1, <2>1 DEF VendorId
<1> HIDE DEF ss, f
<1>3. \A i \in 1 .. n : (i = 1 => f[i] = ss[i]) /\ (i # 1 => f[i] = f[i - 1] \o ss[i])
  BY <1>1, FlattenedAt, Zenon
<1>4. \A i \in 1 .. n : \A c : Free(c) => \E e : Leads(x, ss[i], c, e) /\ Free(e)
  BY <1>1, ReadFits DEF FitsCall
<1>5. ASSUME NEW m \in Nat, m \in T PROVE m + 1 \in T
  <2> SUFFICES ASSUME m + 1 \in 1 .. n PROVE \E e : Leads(x, f[m + 1], b, e) /\ Free(e)
    OBVIOUS
  <2>1. CASE m = 0
    <3>1. m + 1 = 1 /\ m + 1 \in 1 .. n
      BY <2>1
    <3>2. f[m + 1] = ss[m + 1]
      BY <1>3, <3>1, Zenon
    <3> QED
      BY <1>4, <3>1, <3>2
  <2>2. CASE m # 0
    <3>1. m \in 1 .. n /\ m + 1 # 1 /\ (m + 1) - 1 = m
      BY <1>1, <2>2
    <3>2. PICK c : Leads(x, f[m], b, c) /\ Free(c)
      BY <1>5, <3>1
    <3>3. PICK e : Leads(x, ss[m + 1], c, e) /\ Free(e)
      BY <1>4, <3>2
    <3>4. f[m + 1] = f[m] \o ss[m + 1]
      BY <1>3, <3>1
    <3>5. Leads(x, f[m] \o ss[m + 1], b, e)
      BY <3>2, <3>3, LeadsOn
    <3> QED
      BY <3>3, <3>4, <3>5
  <2> QED
    BY <2>1, <2>2
<1>6. 0 .. n \subseteq T
  <2>1. 0 \in T
    OBVIOUS
  <2> HIDE DEF T
  <2> QED
    BY <1>1, <1>5, <2>1, UpTo
<1> QED
  BY <1>1, <1>2, <1>6 DEF FitsCall

(* The master of a port is set up. *)
LEMMA InitFits ==
  ASSUME NEW x \in Ports, NEW b, Free(b)
  PROVE  FitsCall(x, I2cInit, b)
<1>1. ASSUME NEW r \in Registers \ {"TXR"}, NEW v \in Byte
      PROVE  Proper(x, Put(r, v), b) /\ After(x, Put(r, v), b) = b
  <2>1. Puts(x, Put(r, v), b)
    BY DEF Puts, Free
  <2>2. Put(r, v).do = "put" /\ Put(r, v).reg = r
    BY DEF Put
  <2>3. r # "TXR" /\ r # "CR"
    BY DEF Registers
  <2> QED
    BY <2>1, <2>2, <2>3 DEF Proper, After, AfterPut
<1> DEFINE s1 == Put("CTR", 0)
           s2 == Put("PRER_LO", 199)
           s3 == Put("PRER_HI", 0)
           s4 == Put("CTR", 128)
           ss == <<s1, s2, s3, s4>>
           f == <<b, b, b, b, b>>
<1>2. \A s \in {s1, s2, s3, s4} : Proper(x, s, b) /\ After(x, s, b) = b
  <2>1. /\ "CTR" \in Registers \ {"TXR"} /\ "PRER_LO" \in Registers \ {"TXR"}
        /\ "PRER_HI" \in Registers \ {"TXR"}
        /\ 0 \in Byte /\ 199 \in Byte /\ 128 \in Byte
    BY DEF Registers, Byte
  <2> QED
    BY <1>1, <2>1
<1> HIDE DEF s1, s2, s3, s4
<1>3. /\ ss \in Seq({s1, s2, s3, s4}) /\ Len(ss) = 4
      /\ f[1] = b /\ f[5] = b /\ \A i \in 1 .. 4 : f[i] = b /\ f[i + 1] = b
  OBVIOUS
<1>4. \A i \in 1 .. 4 : ss[i] \in {s1, s2, s3, s4}
  BY <1>3
<1>5. ss \in Seq(BusSteps(x))
  <2>1. s1 \in BusSteps(x) /\ s2 \in BusSteps(x) /\ s3 \in BusSteps(x) /\ s4 \in BusSteps(x)
    BY <1>2, ProperType
  <2> QED
    BY <2>1
<1> HIDE DEF ss, f
<1>6. Leads(x, ss, b, b)
  <2>1. \A i \in 1 .. 4 : Proper(x, ss[i], f[i]) /\ f[i + 1] = After(x, ss[i], f[i])
    BY <1>2, <1>3, <1>4
  <2> QED
    BY <1>3, <1>5, <2>1 DEF Leads
<1> QED
  BY <1>6 DEF FitsCall, I2cInit, ss, s1, s2, s3, s4

(* Two bytes are written, the high one first. *)
LEMMA WriteFits ==
  ASSUME NEW x, NEW b, Free(b), NEW a \in 0 .. MemSize - 2, NEW hi \in Byte, NEW lo \in Byte
  PROVE  FitsCall(x, Write16(x, a, hi, lo), b)
<1>1. /\ a \in Addresses /\ a + 1 \in Addresses /\ (a + 1) % MemSize = a + 1
      /\ hi # NoByte /\ lo # NoByte /\ a # NoByte /\ a + 1 # NoByte
  <2>1. a \in Addresses /\ a + 1 \in Addresses
    BY AddressFacts
  <2>2. (a + 1) % MemSize = a + 1
    BY <2>1, AddressFacts, Zenon
  <2>3. hi # NoByte /\ lo # NoByte /\ a # NoByte /\ a + 1 # NoByte
    BY DEF Byte, NoByte
  <2> QED
    BY <2>1, <2>2, <2>3
<1>2. CASE x \in Ports
  <2> DEFINE c1 == {"write"}
             c2 == {"write", "stop"}
             w1 == WaitFor(Access(x, a, TRUE, hi))
             w2 == WaitFor(Access(x, a + 1, TRUE, lo))
  <2>1. PICK b0 : /\ Leads(x, GoTo(a), b, b0) /\ b0.command = {}
                  /\ x \in Plugged => b0.phase = "write" /\ b0.pointer = a
                  /\ x \notin Plugged => b0.phase = "off"
    BY <1>1, <1>2, LeadsGoTo
  <2> DEFINE d1 == Known(b0.phase, b0.pointer, c1, hi, b0.got)
             b1 == Over(x, d1)
             d2 == Known(b1.phase, b1.pointer, c2, lo, b1.got)
             b2 == Over(x, d2)
  <2>2. /\ c1 \in SUBSET Bits /\ c1 # {} /\ c1 # {"stop"} /\ Taken(c1)
        /\ c2 \in SUBSET Bits /\ c2 # {} /\ c2 # {"stop"} /\ Taken(c2)
    BY DEF Bits, Taken
  <2>3. /\ d1.phase = b0.phase /\ d1.pointer = b0.pointer /\ d1.command = c1 /\ d1.sent = hi
        /\ d2.phase = b1.phase /\ d2.pointer = b1.pointer /\ d2.command = c2 /\ d2.sent = lo
    BY DEF Known
  <2>4. Told(d1)
    BY <1>1, <2>1, <2>3 DEF Told
  <2>5. Leads(x, <<Put("TXR", hi), Put("CR", c1), w1>>, b0, b1)
    <3> HIDE DEF c1, b1
    <3>1. \E a0 \in Addresses : /\ w1 = WaitFor(Access(x, a0, TRUE, hi))
                                /\ x \in Plugged => b0.pointer = a0 /\ Taken(c1) /\ b0.phase = "write"
      BY <1>1, <2>1, <2>2
    <3> HIDE DEF w1
    <3> QED
      BY <1>2, <2>1, <2>2, <2>4, <3>1, LeadsSend DEF b1
  <2>6. /\ b1.command = {} /\ b1.phase = b0.phase
        /\ x \in Plugged => b1.pointer = a + 1
    <3>1. /\ b1.command = {} /\ b1.phase = NextPhase(x, c1, hi, b0.phase)
          /\ b1.pointer = NextPointer(c1, hi, b0.phase, b0.pointer)
      <4> HIDE DEF d1, c1
      <4> QED
        BY <2>3 DEF Over, Known
    <3> HIDE DEF b1
    <3>2. NextPhase(x, c1, hi, b0.phase) = IF b0.phase = "address" THEN "write" ELSE b0.phase
      BY Phased
    <3>3. NextPointer(c1, hi, "write", a) = a + 1
      BY <1>1, Pointed
    <3> QED
      BY <2>1, <3>1, <3>2, <3>3
  <2> HIDE DEF b1
  <2>7. Told(d2)
    BY <1>1, <2>1, <2>3, <2>6 DEF Told
  <2>8. Leads(x, <<Put("TXR", lo), Put("CR", c2), w2>>, b1, b2)
    <3> HIDE DEF c2, b2
    <3>1. \E a0 \in Addresses : /\ w2 = WaitFor(Access(x, a0, TRUE, lo))
                                /\ x \in Plugged => b1.pointer = a0 /\ Taken(c2) /\ b1.phase = "write"
      BY <1>1, <2>1, <2>2, <2>6
    <3> HIDE DEF w2
    <3> QED
      BY <1>2, <2>2, <2>6, <2>7, <3>1, LeadsSend DEF b2
  <2>9. Free(b2)
    <3>1. b2.command = {} /\ b2.phase = NextPhase(x, c2, lo, b1.phase)
      <4> HIDE DEF d2, c2
      <4> QED
        BY <2>3 DEF Over, Known
    <3> HIDE DEF b2
    <3>2. NextPhase(x, c2, lo, b1.phase) = "free"
      BY Phased
    <3> QED
      BY <3>1, <3>2 DEF Free
  <2> HIDE DEF b2, c1, c2, w1, w2
  <2> DEFINE p1 == Put("TXR", hi)
             p2 == Put("CR", c1)
             p3 == Put("TXR", lo)
             p4 == Put("CR", c2)
  <2>10. Leads(x, GoTo(a) \o (<<p1, p2, w1>> \o <<p3, p4, w2>>), b, b2)
    BY <2>1, <2>5, <2>8, LeadsOn
  <2>11. <<p1, p2, w1>> \o <<p3, p4, w2>> = <<p1, p2, w1, p3, p4, w2>>
    <3> HIDE DEF p1, p2, p3, p4
    <3>1. /\ <<p1, p2, w1>> \in Seq({p1, p2, w1, p3, p4, w2})
          /\ <<p3, p4, w2>> \in Seq({p1, p2, w1, p3, p4, w2})
          /\ <<p1, p2, w1, p3, p4, w2>> \in Seq({p1, p2, w1, p3, p4, w2})
      OBVIOUS
    <3> DEFINE u == <<p1, p2, w1>>
               t == <<p3, p4, w2>>
               ut == <<p1, p2, w1, p3, p4, w2>>
               S == {p1, p2, w1, p3, p4, w2}
    <3>2. /\ Len(u) = 3 /\ u[1] = p1 /\ u[2] = p2 /\ u[3] = w1
          /\ Len(t) = 3 /\ t[1] = p3 /\ t[2] = p4 /\ t[3] = w2
          /\ Len(ut) = 6 /\ ut[1] = p1 /\ ut[2] = p2 /\ ut[3] = w1
          /\ ut[4] = p3 /\ ut[5] = p4 /\ ut[6] = w2
      OBVIOUS
    <3> HIDE DEF u, t, ut, S
    <3>3. u \in Seq(S) /\ t \in Seq(S) /\ ut \in Seq(S)
      BY <3>1 DEF u, t, ut, S
    <3>4. /\ u \o t \in Seq(S) /\ Len(u \o t) = 6
          /\ \A i \in 1 .. 6 : (u \o t)[i] = IF i <= 3 THEN u[i] ELSE t[i - 3]
      <4>1. /\ u \o t \in Seq(S) /\ Len(u \o t) = Len(u) + Len(t)
            /\ \A i \in 1 .. Len(u) + Len(t) :
                 (u \o t)[i] = IF i <= Len(u) THEN u[i] ELSE t[i - Len(u)]
        BY <3>3, ConcatProperties
      <4> QED
        BY <3>2, <4>1
    <3>5. \A i \in 1 .. 6 : (u \o t)[i] = ut[i]
      <4>1. \A i \in 1 .. 6 : i = 1 \/ i = 2 \/ i = 3 \/ i = 4 \/ i = 5 \/ i = 6
        OBVIOUS
      <4> QED
        BY <3>2, <3>4, <4>1
    <3>6. u \o t = ut
      BY <3>2, <3>3, <3>4, <3>5, SeqEqual
    <3> QED
      BY <3>6 DEF u, t, ut
  <2>12. Write16(x, a, hi, lo) = GoTo(a) \o <<p1, p2, w1, p3, p4, w2>>
    BY <1>2 DEF Write16, c1, c2, w1, w2
  <2> QED
    BY <2>9, <2>10, <2>11, <2>12 DEF FitsCall
<1>3. CASE x \notin Ports
  <2> DEFINE r1 == Refuse(Access(x, a, TRUE, hi))
             r2 == Refuse(Access(x, a + 1, TRUE, lo))
             rr == {Refuse(c) : c \in AccessesTo(x)}
  <2>1. Access(x, a, TRUE, hi) \in AccessesTo(x) /\ Access(x, a + 1, TRUE, lo) \in AccessesTo(x)
    BY <1>1 DEF Access, AccessesTo
  <2>2. r1 \in rr /\ r2 \in rr
    BY <2>1
  <2> HIDE DEF r1, r2, rr
  <2>3. <<r1, r2>> \in [1 .. 2 -> rr]
    BY <2>2
  <2>4. Leads(x, <<r1, r2>>, b, b)
    BY <1>3, <2>3, LeadsRefused DEF rr
  <2> QED
    BY <1>3, <2>4 DEF FitsCall, Write16, r1, r2
<1> QED
  BY <1>2, <1>3

(* Every call of the library begins with a free bus and ends with one. *)
LEMMA CallFits ==
  ASSUME LibraryCalls, NEW c \in Calls, NEW b, Free(b)
  PROVE  FitsCall(c.port, c.steps, b)
<1>1. CASE c.port \in Ports /\ c.steps = I2cInit
  BY <1>1, InitFits
<1>2. ASSUME NEW a \in Addresses, NEW n \in 1 .. MemSize - a, c.steps = ReadBytes(c.port, a, n)
      PROVE  FitsCall(c.port, c.steps, b)
  <2>1. FitsCall(c.port, ReadBytes(c.port, a, n), b)
    BY ReadFits
  <2> QED
    BY <1>2, <2>1
<1>3. ASSUME NEW a \in Addresses, NEW n \in 1 .. MemSize - a, c.steps = VendorId(c.port, a, n)
      PROVE  FitsCall(c.port, c.steps, b)
  <2>1. FitsCall(c.port, VendorId(c.port, a, n), b)
    BY VendorFits
  <2> QED
    BY <1>3, <2>1
<1>4. ASSUME NEW a \in 0 .. MemSize - 2, NEW hi \in Byte, NEW lo \in Byte,
             c.steps = Write16(c.port, a, hi, lo)
      PROVE  FitsCall(c.port, c.steps, b)
  <2>1. FitsCall(c.port, Write16(c.port, a, hi, lo), b)
    BY WriteFits
  <2> QED
    BY <1>4, <2>1
<1>5. Byte = 0 .. 255
  BY DEF Byte
<1> QED
  BY <1>1, <1>2, <1>3, <1>4, <1>5 DEF LibraryCalls

-----------------------------------------------------------------------------
(* The inductive invariant. *)

Mapping(f, S) == f = [s \in S |-> f[s]]

Masters ==
  [Ports -> [CTR : Byte, PRER_LO : Byte, PRER_HI : Byte, TXR : Byte, RXR : Byte]]
BusType ==
  /\ Mapping(rest, Procs) /\ Mapping(port, Procs)
  /\ byte \in [Procs -> Byte \cup {NoByte}]
  /\ master \in Masters
  /\ command \in [Ports -> SUBSET Bits]
  /\ phase \in [Ports -> BusPhases]
  /\ pointer \in [Ports -> Addresses]
  /\ memory \in [Ports -> [Addresses -> Byte]]

(* No two calls use the same port. *)
BusApart ==
  \A p, q \in Procs : p # q /\ rest[p] # << >> /\ rest[q] # << >> => port[p] # port[q]

(* What is known is so. *)
Agrees(x, b) ==
  x \in Ports =>
    /\ b.phase = phase[x] /\ b.command = command[Master(x)]
    /\ b.pointer # NoByte => b.pointer = pointer[x]
    /\ b.sent # NoByte => b.sent = master[Master(x)].TXR
    /\ b.got \in Addresses => master[Master(x)].RXR = memory[x][b.got]
    /\ b.got = Blank => master[Master(x)].RXR = 255

(* A call whose remaining steps fit what it knows, or what it will know when   *)
(* the transfer it waits for, which is over already, has been noticed.         *)
Ended(x, ss, b) == ss # << >> /\ Head(ss).do = "wait" /\ Agrees(x, Over(x, b))
OnCall(x, ss) == \E b : FitsCall(x, ss, b) /\ (Agrees(x, b) \/ Ended(x, ss, b))

BusInv ==
  /\ BusType /\ BusApart /\ BusLeftFree
  /\ \A p \in Procs : rest[p] # << >> => OnCall(port[p], rest[p])

(* Masters and ports. *)
LEMMA MasterFacts ==
  /\ \A x \in Ports : Master(x) \in Ports /\ Wired(Master(x)) = x
  /\ \A m \in Ports : Wired(m) \in Ports /\ Master(Wired(m)) = m
  /\ \A x, y \in Ports : Master(x) = Master(y) => x = y
<1>1. \A x \in Ports : x = 0 \/ x = 1 \/ x = 2 \/ x = 3
  BY DEF Ports
<1>2. /\ Master(0) = 2 /\ Master(1) = 3 /\ Master(2) = 0 /\ Master(3) = 1
      /\ Wired(0) = 2 /\ Wired(1) = 3 /\ Wired(2) = 0 /\ Wired(3) = 1
  BY DEF Master, Wired
<1>3. 0 \in Ports /\ 1 \in Ports /\ 2 \in Ports /\ 3 \in Ports
  BY DEF Ports
<1> QED
  BY <1>1, <1>2, <1>3

(* What a step does tells where it comes. *)
LEMMA ProperKinds ==
  ASSUME NEW x, NEW s, NEW b, Proper(x, s, b)
  PROVE  /\ s.do \in {"put", "wait", "fetch", "refuse"}
         /\ s.do = "put" => Puts(x, s, b)
         /\ s.do = "wait" => Waits(x, s, b)
         /\ s.do = "fetch" => Fetches(x, s, b)
         /\ s.do = "refuse" => Refuses(x, s)
<1>1. Puts(x, s, b) => s.do = "put"
  BY DEF Puts, Put
<1>2. Waits(x, s, b) => s.do = "wait"
  <2>1. Wait.do = "wait" /\ \A a : WaitFor(a).do = "wait"
    BY DEF Wait, WaitFor
  <2> QED
    BY <2>1 DEF Waits
<1>3. Fetches(x, s, b) => s.do = "fetch"
  BY DEF Fetches, Fetch
<1>4. Refuses(x, s) => s.do = "refuse"
  BY DEF Refuses, Refuse
<1> QED
  BY <1>1, <1>2, <1>3, <1>4 DEF Proper

(* The first of the remaining steps of a call. *)
LEMMA FitsHead ==
  ASSUME NEW x, NEW ss, NEW b, FitsCall(x, ss, b), ss # << >>
  PROVE  Proper(x, Head(ss), b) /\ FitsCall(x, Tail(ss), After(x, Head(ss), b))
BY LeadsHead DEF FitsCall

(* Nothing of the buses but that of port x changes. *)
OnlyOn(x) ==
  \A y \in Ports \ {x} :
    /\ phase'[y] = phase[y] /\ pointer'[y] = pointer[y] /\ memory'[y] = memory[y]
    /\ command'[Master(y)] = command[Master(y)] /\ master'[Master(y)] = master[Master(y)]

(* What is known of other buses stays so. *)
LEMMA AgreesOn ==
  ASSUME NEW x, OnlyOn(x), NEW y, y # x, NEW b, Agrees(y, b)
  PROVE  Agrees(y, b)'
BY DEF Agrees, OnlyOn

(* A call on another port goes on knowing what it knows.                      *)
LEMMA OnCallOn ==
  ASSUME NEW x, OnlyOn(x), NEW y, y # x, NEW ss, OnCall(y, ss)
  PROVE  OnCall(y, ss)'
BY AgreesOn DEF OnCall, Ended

(* A process goes on to its next step. *)
LEMMA AdvanceKeeps ==
  ASSUME BusInv, NEW p \in Procs, NEW x, x = port[p], rest[p] # << >>, Advance(p), BusType',
         NEW b, FitsCall(x, Tail(rest[p]), b), Agrees(x, b)', OnlyOn(x)
  PROVE  BusInv'
<1>1. /\ port' = port /\ rest'[p] = Tail(rest[p])
      /\ \A q \in Procs : q # p => rest'[q] = rest[q]
  BY DEF Advance, BusInv, BusType, Mapping
<1>2. BusApart'
  BY <1>1 DEF BusInv, BusApart
<1>3. BusLeftFree'
  <2> SUFFICES ASSUME NEW y \in Ports, \A q \in Procs : rest'[q] # << >> => port'[q] # y
               PROVE  phase'[y] = "free" /\ command'[Master(y)] = {}
    BY DEF BusLeftFree
  <2>1. CASE y = x
    <3>1. Tail(rest[p]) = << >>
      BY <1>1, <2>1
    <3>2. Free(b)
      BY <3>1, LeadsNone DEF FitsCall
    <3>3. b.phase = phase'[x] /\ b.command = command'[Master(x)]
      BY <2>1 DEF Agrees
    <3> QED
      BY <2>1, <3>2, <3>3 DEF Free
  <2>2. CASE y # x
    <3>1. \A q \in Procs : rest[q] # << >> => port[q] # y
      BY <1>1, <2>2
    <3>2. phase[y] = "free" /\ command[Master(y)] = {}
      BY <3>1 DEF BusInv, BusLeftFree
    <3> QED
      BY <2>2, <3>2 DEF OnlyOn
  <2> QED
    BY <2>1, <2>2
<1>4. ASSUME NEW q \in Procs, rest'[q] # << >>
      PROVE  OnCall(port[q], rest[q])'
  <2>1. CASE q = p
    <3>1. PICK ss : ss = Tail(rest[p])
      OBVIOUS
    <3>2. OnCall(x, ss)'
      BY <3>1 DEF OnCall
    <3> QED
      BY <1>1, <2>1, <3>1, <3>2
  <2>2. CASE q # p
    <3>1. PICK y, ss : y = port[q] /\ ss = rest[q]
      OBVIOUS
    <3>2. rest'[q] = ss /\ port'[q] = y /\ y # x
      BY <1>1, <1>4, <2>2, <3>1 DEF BusInv, BusApart
    <3>3. OnCall(y, ss)
      BY <1>4, <3>1, <3>2 DEF BusInv
    <3>4. OnCall(y, ss)'
      BY <3>2, <3>3, OnCallOn
    <3> QED
      BY <3>2, <3>4
  <2> QED
    BY <2>1, <2>2
<1> QED
  BY <1>2, <1>3, <1>4 DEF BusInv

(* What the call of a process knows before its next step. *)
LEMMA BeforeStep ==
  ASSUME BusInv, NEW p \in Procs, NEW x, x = port[p], rest[p] # << >>, NEW s, s = Head(rest[p])
  PROVE  \E b : /\ FitsCall(x, rest[p], b) /\ Proper(x, s, b)
                /\ FitsCall(x, Tail(rest[p]), After(x, s, b))
                /\ Agrees(x, b) \/ (s.do = "wait" /\ Agrees(x, Over(x, b)))
<1>1. PICK b : FitsCall(x, rest[p], b) /\ (Agrees(x, b) \/ Ended(x, rest[p], b))
  BY DEF BusInv, OnCall
<1> QED
  BY <1>1, FitsHead DEF Ended

(* Process p does step s of its call on port x, knowing b. *)
Goes(p, x, s, b) ==
  /\ rest[p] # << >> /\ Advance(p) /\ BusType' /\ OnlyOn(x)
  /\ FitsCall(x, rest[p], b) /\ Proper(x, s, b)
  /\ FitsCall(x, Tail(rest[p]), After(x, s, b)) /\ Agrees(x, After(x, s, b))'

Assigned(f, m, r, v) == [f EXCEPT ![m][r] = v]

(* The registers of a master keep their types, and only one of them changes.   *)
LEMMA RegisterSet ==
  ASSUME NEW m \in Ports, NEW r \in Registers, NEW v \in Byte, NEW f \in Masters,
         NEW g, g = Assigned(f, m, r, v)
  PROVE  /\ g \in Masters
         /\ g[m].RXR = f[m].RXR /\ g[m].TXR = (IF r = "TXR" THEN v ELSE f[m].TXR)
         /\ \A k \in Ports : k # m => g[k] = f[k]
<1>1. CASE r = "CTR"
  BY <1>1 DEF Masters, Assigned
<1>2. CASE r = "PRER_LO"
  BY <1>2 DEF Masters, Assigned
<1>3. CASE r = "PRER_HI"
  BY <1>3 DEF Masters, Assigned
<1>4. CASE r = "TXR"
  BY <1>4 DEF Masters, Assigned
<1> QED
  BY <1>1, <1>2, <1>3, <1>4 DEF Registers

(* A write of another register of the master.                                 *)
LEMMA RegisterGoes ==
  ASSUME BusInv, NEW p \in Procs, WriteRegister(p), NEW x, x = port[p], NEW s, s = Head(rest[p])
  PROVE  \E b : Goes(p, x, s, b) /\ Agrees(x, b)
<1>1. rest[p] # << >> /\ s.do = "put" /\ s.reg # "CR" /\ Advance(p)
  BY DEF WriteRegister, At
<1>2. PICK b : /\ FitsCall(x, rest[p], b) /\ Proper(x, s, b) /\ FitsCall(x, Tail(rest[p]), After(x, s, b)) /\ Agrees(x, b)
  BY <1>1, BeforeStep
<1>3. Puts(x, s, b)
  BY <1>1, <1>2, ProperKinds
<1>4. PICK r \in Registers, v \in Byte : s = Put(r, v)
  <2>1. \A c : Put("CR", c).reg = "CR"
    BY DEF Put
  <2> QED
    BY <1>1, <1>3, <2>1 DEF Puts
<1>5. s.reg = r /\ s.value = v
  BY <1>4 DEF Put
<1>6. /\ x \in Ports /\ Master(x) \in Ports
      /\ \A y \in Ports \ {x} : Master(y) \in Ports /\ Master(y) # Master(x)
  BY <1>3, MasterFacts DEF Puts
<1>7. /\ master' = [master EXCEPT ![Master(x)][r] = v]
      /\ UNCHANGED <<byte, command, phase, pointer, memory>>
  BY <1>5 DEF WriteRegister, modules
<1>8. /\ master' \in Masters
      /\ master'[Master(x)].RXR = master[Master(x)].RXR
      /\ master'[Master(x)].TXR = (IF r = "TXR" THEN v ELSE master[Master(x)].TXR)
      /\ \A k \in Ports : k # Master(x) => master'[k] = master[k]
  <2>1. master \in Masters
    BY DEF BusInv, BusType
  <2>2. master' = Assigned(master, Master(x), r, v)
    BY <1>7 DEF Assigned
  <2> QED
    BY <1>6, <2>1, <2>2, RegisterSet
<1>9. BusType'
  BY <1>1, <1>7, <1>8 DEF BusInv, BusType, Advance, Mapping
<1>10. OnlyOn(x)
  BY <1>6, <1>7, <1>8 DEF OnlyOn
<1>11. Agrees(x, After(x, s, b))'
  <2>0. PICK e : e = After(x, s, b)
    OBVIOUS
  <2>1. CASE r = "TXR"
    <3>1. e = Known(b.phase, b.pointer, b.command, v, b.got)
      BY <2>0, <1>1, <1>5, <2>1 DEF After, AfterPut
    <3>2. /\ e.phase = b.phase /\ e.pointer = b.pointer /\ e.command = b.command
          /\ e.sent = v /\ e.got = b.got
      BY <3>1 DEF Known
    <3> QED
      BY <2>0, <1>2, <1>6, <1>7, <1>8, <2>1, <3>2 DEF Agrees
  <2>2. CASE r # "TXR"
    <3>1. e = b
      BY <2>0, <1>1, <1>5, <2>2 DEF After, AfterPut
    <3> QED
      BY <2>0, <1>2, <1>6, <1>7, <1>8, <2>2, <3>1 DEF Agrees
  <2> QED
    BY <2>1, <2>2
<1> QED
  BY <1>1, <1>2, <1>9, <1>10, <1>11 DEF Goes

(* A command to the master of a port.                                         *)
LEMMA CommandGoes ==
  ASSUME BusInv, NEW p \in Procs, WriteCommand(p), NEW x, x = port[p], NEW s, s = Head(rest[p])
  PROVE  \E b : Goes(p, x, s, b) /\ Agrees(x, b)
<1>1. rest[p] # << >> /\ s.do = "put" /\ s.reg = "CR" /\ Advance(p)
  BY DEF WriteCommand, At
<1>2. PICK b : /\ FitsCall(x, rest[p], b) /\ Proper(x, s, b) /\ FitsCall(x, Tail(rest[p]), After(x, s, b)) /\ Agrees(x, b)
  BY <1>1, BeforeStep
<1>3. Puts(x, s, b)
  BY <1>1, <1>2, ProperKinds
<1>4. PICK c \in SUBSET Bits : s = Put("CR", c)
  <2>1. \A r \in Registers : \A v : Put(r, v).reg # "CR"
    BY DEF Put, Registers
  <2> QED
    BY <1>1, <1>3, <2>1 DEF Puts
<1>5. s.value = c
  BY <1>4 DEF Put
<1>6. /\ x \in Ports /\ Master(x) \in Ports /\ Wired(Master(x)) = x
      /\ \A y \in Ports \ {x} : Master(y) \in Ports /\ Master(y) # Master(x)
  BY <1>3, MasterFacts DEF Puts
<1>7. /\ UNCHANGED <<byte, master, pointer, memory>>
      /\ IF c = {"stop"}
         THEN phase' = [phase EXCEPT ![x] = "free"] /\ command' = [command EXCEPT ![Master(x)] = {}]
         ELSE phase' = phase /\ command' = [command EXCEPT ![Master(x)] = c]
  BY <1>5, <1>6 DEF WriteCommand
<1>8. phase' \in [Ports -> BusPhases] /\ command' \in [Ports -> SUBSET Bits]
  BY <1>6, <1>7 DEF BusInv, BusType, BusPhases
<1>9. BusType'
  BY <1>1, <1>7, <1>8 DEF BusInv, BusType, Advance, Mapping
<1>10. OnlyOn(x)
  BY <1>6, <1>7 DEF OnlyOn, BusInv, BusType
<1>11. Agrees(x, After(x, s, b))'
  <2>0. PICK e : e = After(x, s, b)
    OBVIOUS
  <2>1. CASE c = {"stop"}
    <3>1. e = Known("free", b.pointer, {}, b.sent, b.got)
      BY <2>0, <1>1, <1>5, <2>1 DEF After, AfterPut
    <3>2. /\ e.phase = "free" /\ e.pointer = b.pointer /\ e.command = {}
          /\ e.sent = b.sent /\ e.got = b.got
      BY <3>1 DEF Known
    <3>3. phase'[x] = "free" /\ command'[Master(x)] = {}
      BY <1>6, <1>7, <2>1 DEF BusInv, BusType
    <3> QED
      BY <2>0, <1>2, <1>6, <1>7, <3>2, <3>3 DEF Agrees
  <2>2. CASE c # {"stop"}
    <3>1. e = Known(b.phase, b.pointer, c, b.sent, b.got)
      BY <2>0, <1>1, <1>5, <2>2 DEF After, AfterPut
    <3>2. /\ e.phase = b.phase /\ e.pointer = b.pointer /\ e.command = c
          /\ e.sent = b.sent /\ e.got = b.got
      BY <3>1 DEF Known
    <3>3. phase'[x] = phase[x] /\ command'[Master(x)] = c
      BY <1>6, <1>7, <2>2 DEF BusInv, BusType
    <3> QED
      BY <2>0, <1>2, <1>6, <1>7, <3>2, <3>3 DEF Agrees
  <2> QED
    BY <2>1, <2>2
<1> QED
  BY <1>1, <1>2, <1>9, <1>10, <1>11 DEF Goes

(* A wait that is over.                                                       *)
LEMMA WaitGoes ==
  ASSUME BusInv, NEW p \in Procs, WaitDone(p), NEW x, x = port[p], NEW s, s = Head(rest[p])
  PROVE  \E b : Goes(p, x, s, b) /\ Agrees(x, Over(x, b))
<1>1. rest[p] # << >> /\ s.do = "wait" /\ Advance(p) /\ command[Master(x)] = {}
  BY DEF WaitDone, At
<1>2. PICK b : /\ FitsCall(x, rest[p], b) /\ Proper(x, s, b) /\ FitsCall(x, Tail(rest[p]), After(x, s, b))
               /\ Agrees(x, b) \/ Agrees(x, Over(x, b))
  BY <1>1, BeforeStep
<1>3. Waits(x, s, b)
  BY <1>1, <1>2, ProperKinds
<1>4. Agrees(x, Over(x, b)) /\ After(x, s, b) = Over(x, b)
  BY <1>1, <1>2, <1>3 DEF Agrees, Waits, After
<1>5. UNCHANGED <<byte, master, command, phase, pointer, memory>>
  BY DEF WaitDone, modules
<1>6. BusType'
  BY <1>1, <1>5 DEF BusInv, BusType, Advance, Mapping
<1>7. OnlyOn(x) /\ Agrees(x, After(x, s, b))'
  BY <1>4, <1>5 DEF OnlyOn, Agrees
<1> QED
  BY <1>1, <1>2, <1>4, <1>6, <1>7 DEF Goes

(* A byte that is read from the master.                                       *)
LEMMA FetchGoes ==
  ASSUME BusInv, NEW p \in Procs, FetchByte(p), NEW x, x = port[p], NEW s, s = Head(rest[p])
  PROVE  \E b : Goes(p, x, s, b) /\ Agrees(x, b)
<1>1. rest[p] # << >> /\ s.do = "fetch" /\ Advance(p)
  BY DEF FetchByte, At
<1>2. PICK b : /\ FitsCall(x, rest[p], b) /\ Proper(x, s, b) /\ FitsCall(x, Tail(rest[p]), After(x, s, b)) /\ Agrees(x, b)
  BY <1>1, BeforeStep
<1>3. x \in Ports /\ Master(x) \in Ports /\ After(x, s, b) = b
  BY <1>1, <1>2, ProperKinds, MasterFacts DEF After, Fetches
<1>4. /\ byte' = [byte EXCEPT ![p] = master[Master(x)].RXR]
      /\ UNCHANGED <<master, command, phase, pointer, memory>>
  BY DEF FetchByte, modules
<1>5. byte' \in [Procs -> Byte \cup {NoByte}]
  <2>1. master[Master(x)].RXR \in Byte
    BY <1>3 DEF BusInv, BusType, Masters
  <2> QED
    BY <1>4, <2>1 DEF BusInv, BusType
<1>6. BusType'
  BY <1>1, <1>4, <1>5 DEF BusInv, BusType, Advance, Mapping
<1>7. OnlyOn(x) /\ Agrees(x, After(x, s, b))'
  BY <1>2, <1>3, <1>4 DEF OnlyOn, Agrees
<1> QED
  BY <1>1, <1>2, <1>6, <1>7 DEF Goes

(* An access to a port there is not.                                          *)
LEMMA RefuseGoes ==
  ASSUME BusInv, NEW p \in Procs, RefusePort(p), NEW x, x = port[p], NEW s, s = Head(rest[p])
  PROVE  \E b : Goes(p, x, s, b)
<1>1. rest[p] # << >> /\ s.do = "refuse" /\ Advance(p)
  BY DEF RefusePort, At
<1>2. PICK b : /\ FitsCall(x, rest[p], b) /\ Proper(x, s, b) /\ FitsCall(x, Tail(rest[p]), After(x, s, b))
  BY <1>1, BeforeStep
<1>3. x \notin Ports
  BY <1>1, <1>2, ProperKinds DEF Refuses
<1>4. UNCHANGED <<master, command, phase, pointer, memory>>
  BY DEF RefusePort, modules
<1>5. byte' \in [Procs -> Byte \cup {NoByte}]
  <2>1. PICK v \in {0, 255} : byte' = byte \/ byte' = [byte EXCEPT ![p] = v]
    BY DEF RefusePort
  <2>2. v \in Byte /\ byte \in [Procs -> Byte \cup {NoByte}]
    BY DEF Byte, BusInv, BusType
  <2> QED
    BY <2>1, <2>2
<1>6. BusType'
  BY <1>1, <1>4, <1>5 DEF BusInv, BusType, Advance, Mapping
<1>7. OnlyOn(x) /\ Agrees(x, After(x, s, b))'
  BY <1>3, <1>4 DEF OnlyOn, Agrees
<1> QED
  BY <1>1, <1>2, <1>6, <1>7 DEF Goes

(* A transfer that ends is the one that a call is waiting for. *)
LEMMA TransferAt ==
  ASSUME BusInv, NEW m \in Ports, command[m] # {}, NEW x, x = Wired(m)
  PROVE  \E p \in Procs : \E b :
           /\ rest[p] # << >> /\ port[p] = x /\ FitsCall(x, rest[p], b)
           /\ Waits(x, Head(rest[p]), b) /\ Agrees(x, b)
<1>1. x \in Ports /\ Master(x) = m
  BY MasterFacts
<1>2. PICK p \in Procs : rest[p] # << >> /\ port[p] = x
  BY <1>1 DEF BusInv, BusLeftFree
<1>3. PICK s : s = Head(rest[p])
  OBVIOUS
<1>4. PICK b : /\ FitsCall(x, rest[p], b) /\ Proper(x, s, b)
               /\ Agrees(x, b) \/ Agrees(x, Over(x, b))
  BY <1>2, <1>3, BeforeStep
<1>5. Over(x, b).command = {}
  BY DEF Over, Known
<1>6. Agrees(x, b) /\ b.command # {}
  BY <1>1, <1>4, <1>5 DEF Agrees
<1>7. Waits(x, s, b)
  BY <1>1, <1>4, <1>6 DEF Proper, Puts, Fetches, Refuses
<1> QED
  BY <1>2, <1>3, <1>4, <1>6, <1>7

(* The kinds of what a module does next, and what they depend on. *)
LEMMA PhaseFacts ==
  ASSUME NEW x, NEW c, NEW ph \in BusPhases
  PROVE  /\ \A v : NextPhase(x, c, v, ph) \in BusPhases
         /\ "start" \notin c => \A v, w : NextPhase(x, c, v, ph) = NextPhase(x, c, w, ph)
<1>1. \A v : NextPhase(x, c, v, ph) \in BusPhases
  BY DEF NextPhase, BusPhases
<1>2. ASSUME "start" \notin c, NEW v, NEW w
      PROVE  NextPhase(x, c, v, ph) = NextPhase(x, c, w, ph)
  BY <1>2 DEF NextPhase
<1> QED
  BY <1>1, <1>2

(* Where the memory address of a module goes next.                            *)
LEMMA PointerCases ==
  ASSUME NEW c, NEW v, NEW ph, NEW a
  PROVE  /\ Taken(c) /\ ph = "address" => NextPointer(c, v, ph, a) = v % MemSize
         /\ ph # "address" /\ ((Taken(c) /\ ph = "write") \/ ("read" \in c /\ ph = "read"))
              => NextPointer(c, v, ph, a) = (a + 1) % MemSize
         /\ ~(Taken(c) /\ ph = "address") /\ ~(Taken(c) /\ ph = "write") /\ ~("read" \in c /\ ph = "read")
              => NextPointer(c, v, ph, a) = a
<1>1. ASSUME Taken(c), ph = "address" PROVE NextPointer(c, v, ph, a) = v % MemSize
  BY <1>1 DEF NextPointer
<1>2. ASSUME ph # "address", (Taken(c) /\ ph = "write") \/ ("read" \in c /\ ph = "read")
      PROVE  NextPointer(c, v, ph, a) = (a + 1) % MemSize
  BY <1>2 DEF NextPointer
<1>3. ASSUME ~(Taken(c) /\ ph = "address"), ~(Taken(c) /\ ph = "write"), ~("read" \in c /\ ph = "read")
      PROVE  NextPointer(c, v, ph, a) = a
  BY <1>3 DEF NextPointer
<1> QED
  BY <1>1, <1>2, <1>3

(* What a transfer does to the bus of its port. *)
LEMMA TransferDoes ==
  ASSUME BusInv, NEW m \in Ports, Transfer(m), NEW x, x = Wired(m), NEW c, c = command[m],
         NEW v, v = master[m].TXR
  PROVE  /\ phase'[x] = NextPhase(x, c, v, phase[x]) /\ command'[m] = {}
         /\ pointer'[x] = NextPointer(c, v, phase[x], pointer[x])
         /\ master'[m].TXR = v
         /\ master'[m].RXR = IF "read" \in c
                             THEN IF phase[x] = "read" THEN memory[x][pointer[x]] ELSE 255
                             ELSE master[m].RXR
         /\ memory'[x] = IF Taken(c) /\ phase[x] = "write"
                         THEN [memory[x] EXCEPT ![pointer[x]] = v] ELSE memory[x]
         /\ OnlyOn(x) /\ BusType'
         /\ rest' = rest /\ port' = port /\ byte' = byte
<1>1. x \in Ports /\ \A y \in Ports \ {x} : Master(y) \in Ports /\ Master(y) # m
  BY MasterFacts
<1>2. /\ rest' = rest /\ port' = port /\ byte' = byte
      /\ command' = [command EXCEPT ![m] = {}]
      /\ phase' = [phase EXCEPT ![x] = NextPhase(x, c, v, @)]
      /\ pointer' = [pointer EXCEPT ![x] = NextPointer(c, v, phase[x], @)]
      /\ memory' = IF Taken(c) /\ phase[x] = "write"
                   THEN [memory EXCEPT ![x][pointer[x]] = v] ELSE memory
      /\ master' = IF "read" \in c
                   THEN [master EXCEPT ![m].RXR =
                           IF phase[x] = "read" THEN memory[x][pointer[x]] ELSE 255]
                   ELSE master
  BY DEF Transfer
<1>3. /\ phase[x] \in BusPhases /\ pointer[x] \in Addresses /\ v \in Byte /\ 255 \in Byte
      /\ memory[x] \in [Addresses -> Byte] /\ memory[x][pointer[x]] \in Byte
  <2>1. phase[x] \in BusPhases /\ pointer[x] \in Addresses /\ memory[x] \in [Addresses -> Byte]
    BY <1>1 DEF BusInv, BusType
  <2>2. v \in Byte
    BY DEF BusInv, BusType, Masters
  <2>3. 255 \in Byte
    BY DEF Byte
  <2> QED
    BY <2>1, <2>2, <2>3
<1>4. NextPhase(x, c, v, phase[x]) \in BusPhases
  BY <1>3, PhaseFacts
<1>5. NextPointer(c, v, phase[x], pointer[x]) \in Addresses
  <2>1. v \in Int /\ pointer[x] + 1 \in Int /\ \A a \in Int : a % MemSize \in Addresses
    <3>1. \A a \in Int : a % MemSize \in Addresses
      BY AddressFacts, Zenon
    <3>2. Addresses \subseteq Byte
      BY AddressFacts, Zenon
    <3>3. v \in Int /\ pointer[x] + 1 \in Int
      <4>1. v \in Byte /\ pointer[x] \in Byte
        BY <1>3, <3>2
      <4>2. \A i \in Byte : i \in Int /\ i + 1 \in Int
        BY DEF Byte
      <4> QED
        BY <4>1, <4>2
    <3> QED
      BY <3>1, <3>3
  <2> QED
    BY <1>3, <2>1, PointerCases
<1>6. /\ phase' \in [Ports -> BusPhases] /\ phase'[x] = NextPhase(x, c, v, phase[x])
      /\ \A y \in Ports \ {x} : phase'[y] = phase[y]
  BY <1>1, <1>2, <1>4 DEF BusInv, BusType
<1>7. /\ pointer' \in [Ports -> Addresses]
      /\ pointer'[x] = NextPointer(c, v, phase[x], pointer[x])
      /\ \A y \in Ports \ {x} : pointer'[y] = pointer[y]
  BY <1>1, <1>2, <1>5 DEF BusInv, BusType
<1>8. /\ command' \in [Ports -> SUBSET Bits] /\ command'[m] = {}
      /\ \A y \in Ports \ {x} : command'[Master(y)] = command[Master(y)]
  BY <1>1, <1>2 DEF BusInv, BusType
<1>9. /\ memory' \in [Ports -> [Addresses -> Byte]]
      /\ memory'[x] = IF Taken(c) /\ phase[x] = "write"
                      THEN [memory[x] EXCEPT ![pointer[x]] = v] ELSE memory[x]
      /\ \A y \in Ports \ {x} : memory'[y] = memory[y]
  BY <1>1, <1>2, <1>3 DEF BusInv, BusType
<1>10. /\ master' \in Masters /\ master'[m].TXR = v
       /\ master'[m].RXR = IF "read" \in c
                           THEN IF phase[x] = "read" THEN memory[x][pointer[x]] ELSE 255
                           ELSE master[m].RXR
       /\ \A y \in Ports \ {x} : master'[Master(y)] = master[Master(y)]
  <2>1. PICK w : w = IF phase[x] = "read" THEN memory[x][pointer[x]] ELSE 255
    OBVIOUS
  <2>2. w \in Byte /\ master \in Masters
    BY <1>3, <2>1 DEF BusInv, BusType
  <2>3. CASE "read" \in c
    <3>1. master' = [master EXCEPT ![m].RXR = w]
      BY <1>2, <2>1, <2>3
    <3>2. /\ master' \in Masters /\ master'[m].TXR = v /\ master'[m].RXR = w
          /\ \A y \in Ports \ {x} : master'[Master(y)] = master[Master(y)]
      BY <1>1, <2>2, <3>1 DEF Masters
    <3> QED
      BY <2>1, <2>3, <3>2
  <2>4. CASE "read" \notin c
    BY <1>2, <2>2, <2>4
  <2> QED
    BY <2>3, <2>4
<1>11. BusType'
  BY <1>2, <1>6, <1>7, <1>8, <1>9, <1>10 DEF BusInv, BusType, Mapping
<1>12. OnlyOn(x)
  BY <1>6, <1>7, <1>8, <1>9, <1>10 DEF OnlyOn
<1> QED
  BY <1>2, <1>6, <1>7, <1>8, <1>9, <1>10, <1>11, <1>12

(* What a call that waits for it will know is so when it is over. *)
LEMMA TransferOver ==
  ASSUME BusInv, NEW m \in Ports, Transfer(m), NEW x, x = Wired(m),
         NEW s, NEW b, Waits(x, s, b), Agrees(x, b)
  PROVE  Agrees(x, Over(x, b))'
<1>1. PICK c, v : c = command[m] /\ v = master[m].TXR
  OBVIOUS
<1>2. x \in Ports /\ Master(x) = m
  BY MasterFacts
<1>3. /\ b.phase = phase[x] /\ b.command = c
      /\ b.pointer # NoByte => b.pointer = pointer[x]
      /\ b.sent # NoByte => b.sent = v
      /\ b.got \in Addresses => master[m].RXR = memory[x][b.got]
      /\ b.got = Blank => master[m].RXR = 255
  BY <1>1, <1>2 DEF Agrees
<1>4. /\ phase'[x] = NextPhase(x, c, v, b.phase) /\ command'[m] = {}
      /\ pointer'[x] = NextPointer(c, v, b.phase, pointer[x])
      /\ master'[m].TXR = v
      /\ master'[m].RXR = IF "read" \in c
                          THEN IF b.phase = "read" THEN memory[x][pointer[x]] ELSE 255
                          ELSE master[m].RXR
      /\ (Taken(c) /\ b.phase = "write") \/ memory'[x] = memory[x]
  <2>1. /\ phase'[x] = NextPhase(x, c, v, phase[x]) /\ command'[m] = {}
        /\ pointer'[x] = NextPointer(c, v, phase[x], pointer[x])
        /\ master'[m].TXR = v
        /\ master'[m].RXR = IF "read" \in c
                            THEN IF phase[x] = "read" THEN memory[x][pointer[x]] ELSE 255
                            ELSE master[m].RXR
        /\ memory'[x] = IF Taken(c) /\ phase[x] = "write"
                        THEN [memory[x] EXCEPT ![pointer[x]] = v] ELSE memory[x]
    BY <1>1, TransferDoes
  <2> QED
    BY <1>3, <2>1
<1>5. b.phase \in BusPhases /\ pointer[x] \in Addresses
  BY <1>2, <1>3 DEF BusInv, BusType
<1>6. /\ "start" \in c \/ Taken(c) => b.sent = v
      /\ b.phase \in {"read", "write"} => b.pointer = pointer[x]
  BY <1>3 DEF Waits, Told
<1> DEFINE e == Over(x, b)
<1>7. /\ e.phase = NextPhase(x, c, b.sent, b.phase) /\ e.command = {}
      /\ e.pointer = NextPointer(c, b.sent, b.phase, b.pointer) /\ e.sent = b.sent
      /\ e.got = IF "read" \in c THEN IF b.phase = "read" THEN b.pointer ELSE Blank
                 ELSE IF Taken(c) /\ b.phase = "write" THEN NoByte ELSE b.got
  BY <1>3 DEF Over, Known
<1> HIDE DEF e
<1>8. e.phase = phase'[x]
  BY <1>4, <1>5, <1>6, <1>7, PhaseFacts
<1>9. e.pointer # NoByte => e.pointer = pointer'[x]
  <2>1. CASE Taken(c) /\ b.phase = "address"
    BY <1>4, <1>6, <1>7, <2>1, PointerCases
  <2>2. CASE b.phase # "address" /\ ((Taken(c) /\ b.phase = "write") \/ ("read" \in c /\ b.phase = "read"))
    BY <1>4, <1>6, <1>7, <2>2, PointerCases
  <2>3. CASE ~(Taken(c) /\ b.phase = "address") /\ ~(Taken(c) /\ b.phase = "write") /\ ~("read" \in c /\ b.phase = "read")
    BY <1>3, <1>4, <1>7, <2>3, PointerCases
  <2> QED
    BY <2>1, <2>2, <2>3
<1>10. e.got \in Addresses => master'[m].RXR = memory'[x][e.got]
  <2>1. Blank \notin Addresses /\ NoByte \notin Addresses
    BY AddressFacts
  <2>2. CASE "read" \in c
    BY <1>4, <1>6, <1>7, <2>1, <2>2
  <2>3. CASE "read" \notin c
    BY <1>3, <1>4, <1>7, <2>1, <2>3
  <2> QED
    BY <2>2, <2>3
<1>11. e.got = Blank => master'[m].RXR = 255
  <2>1. Blank \notin Addresses /\ NoByte # Blank
    BY AddressFacts
  <2>2. CASE "read" \in c
    BY <1>4, <1>5, <1>6, <1>7, <2>1, <2>2
  <2>3. CASE "read" \notin c
    BY <1>3, <1>4, <1>7, <2>1, <2>3
  <2> QED
    BY <2>2, <2>3
<1>12. Agrees(x, e)'
  BY <1>2, <1>3, <1>4, <1>7, <1>8, <1>9, <1>10, <1>11 DEF Agrees
<1> QED
  BY <1>12 DEF e

(* A transfer that ends keeps the invariant (Transfer).                       *)
LEMMA TransferKeeps == \A m \in Ports : BusInv /\ Transfer(m) => BusInv'
<1> SUFFICES ASSUME NEW m \in Ports, BusInv, Transfer(m)
             PROVE  BusInv'
  OBVIOUS
<1>1. PICK x : x = Wired(m)
  OBVIOUS
<1>2. x \in Ports /\ Master(x) = m
  BY <1>1, MasterFacts
<1>0. PICK p \in Procs :
        \E b : /\ rest[p] # << >> /\ port[p] = x /\ FitsCall(x, rest[p], b)
              /\ Waits(x, Head(rest[p]), b) /\ Agrees(x, b)
  <2>1. command[m] # {}
    BY DEF Transfer
  <2> QED
    BY <1>1, <2>1, TransferAt
<1>3. PICK b : /\ rest[p] # << >> /\ port[p] = x /\ FitsCall(x, rest[p], b)
               /\ Waits(x, Head(rest[p]), b) /\ Agrees(x, b)
  BY <1>0
<1>4. OnlyOn(x) /\ BusType' /\ rest' = rest /\ port' = port
  BY <1>1, TransferDoes
<1>5. PICK s : s = Head(rest[p])
  OBVIOUS
<1>6. Agrees(x, Over(x, b))' /\ s.do = "wait"
  <2>1. s.do = "wait"
    <3>1. Proper(x, s, b)
      BY <1>3, <1>5 DEF Proper
    <3>2. Wait.do = "wait" /\ \A a : WaitFor(a).do = "wait"
      BY DEF Wait, WaitFor
    <3> QED
      BY <1>3, <1>5, <3>2 DEF Waits
  <2> QED
    BY <1>1, <1>3, <2>1, TransferOver
<1>7. BusApart'
  BY <1>4 DEF BusInv, BusApart
<1>8. BusLeftFree'
  <2> SUFFICES ASSUME NEW y \in Ports, \A q \in Procs : rest[q] # << >> => port[q] # y
               PROVE  phase'[y] = "free" /\ command'[Master(y)] = {}
    BY <1>4 DEF BusLeftFree
  <2>1. y # x
    BY <1>3
  <2>2. phase[y] = "free" /\ command[Master(y)] = {}
    BY DEF BusInv, BusLeftFree
  <2> QED
    BY <1>4, <2>1, <2>2 DEF OnlyOn
<1>9. ASSUME NEW q \in Procs, rest'[q] # << >>
      PROVE  OnCall(port[q], rest[q])'
  <2>1. PICK y, ss : y = port[q] /\ ss = rest[q]
    OBVIOUS
  <2>2. y = port'[q] /\ ss = rest'[q] /\ ss # << >>
    BY <1>4, <1>9, <2>1
  <2>3. OnCall(y, ss)'
    <3>1. CASE q = p
      <4>1. y = x /\ FitsCall(x, ss, b) /\ Head(ss) = s
        BY <1>3, <1>5, <2>1, <3>1
      <4>2. Ended(x, ss, b)'
        BY <1>6, <2>2, <4>1 DEF Ended
      <4> QED
        BY <4>1, <4>2 DEF OnCall
    <3>2. CASE q # p
      <4>1. y # x
        BY <1>3, <2>1, <2>2, <3>2 DEF BusInv, BusApart
      <4>2. OnCall(y, ss)
        BY <2>1, <2>2 DEF BusInv
      <4> QED
        BY <1>4, <4>1, <4>2, OnCallOn
    <3> QED
      BY <3>1, <3>2
  <2> QED
    BY <2>2, <2>3
<1> QED
  BY <1>4, <1>7, <1>8, <1>9 DEF BusInv

(* The buses at first.                                                        *)
LEMMA BusBegin == BusInit => BusInv
<1> SUFFICES ASSUME BusInit PROVE BusInv
  OBVIOUS
<1>1. BusType
  <2>1. Mapping(rest, Procs) /\ Mapping(port, Procs)
    BY DEF BusInit, Mapping
  <2>2. byte \in [Procs -> Byte \cup {NoByte}]
    BY DEF BusInit
  <2>3. master \in Masters
    BY DEF BusInit, Masters, Byte
  <2>4. command \in [Ports -> SUBSET Bits] /\ phase \in [Ports -> BusPhases]
    BY DEF BusInit, BusPhases
  <2>5. pointer \in [Ports -> Addresses]
    <3>1. 0 \in Addresses
      BY AddressFacts
    <3> QED
      BY <3>1 DEF BusInit
  <2>6. memory \in [Ports -> [Addresses -> Byte]]
    <3>1. \A x \in Ports : \A a \in Addresses : 10 * x + a + 1 \in Byte
      BY I2cAssumption DEF Ports, Addresses, Byte
    <3> QED
      BY <3>1 DEF BusInit
  <2> QED
    BY <2>1, <2>2, <2>3, <2>4, <2>5, <2>6 DEF BusType
<1>2. \A p \in Procs : rest[p] = << >>
  BY DEF BusInit
<1>3. BusLeftFree
  BY MasterFacts DEF BusInit, BusLeftFree
<1> QED
  BY <1>1, <1>2, <1>3 DEF BusInv, BusApart

(* A step of a process. *)
LEMMA GoesKeeps ==
  ASSUME BusInv, NEW p \in Procs, NEW x, x = port[p], NEW s, s = Head(rest[p]), NEW b, Goes(p, x, s, b)
  PROVE  BusInv'
BY AdvanceKeeps DEF Goes

(* The steps of a call keep the invariant.                                    *)
LEMMA ProcessKeeps ==
  ASSUME BusInv, NEW p \in Procs,
         WriteRegister(p) \/ WriteCommand(p) \/ WaitDone(p) \/ FetchByte(p) \/ RefusePort(p)
  PROVE  BusInv'
<1>1. PICK x, s : x = port[p] /\ s = Head(rest[p])
  OBVIOUS
<1>2. PICK b : Goes(p, x, s, b)
  BY <1>1, RegisterGoes, CommandGoes, WaitGoes, FetchGoes, RefuseGoes
<1> QED
  BY <1>1, <1>2, GoesKeeps

(* A call that begins fits what little is known of the bus of its port.        *)
LEMMA BeginKnows ==
  ASSUME LibraryCalls, BusInv, NEW c \in Calls, NEW x, x = c.port,
         \A q \in Procs : rest[q] # << >> => port[q] # x
  PROVE  \E b : FitsCall(x, c.steps, b) /\ Agrees(x, b)
<1> DEFINE b == Known("free", NoByte, {}, NoByte, NoByte)
<1>1. /\ b.phase = "free" /\ b.command = {} /\ b.pointer = NoByte /\ b.sent = NoByte
      /\ b.got = NoByte
  BY DEF Known
<1> HIDE DEF b
<1>2. Free(b)
  BY <1>1 DEF Free
<1>3. FitsCall(x, c.steps, b)
  BY <1>2, CallFits
<1>4. x \in Ports => phase[x] = "free" /\ command[Master(x)] = {}
  BY DEF BusInv, BusLeftFree
<1>5. Agrees(x, b)
  BY <1>1, <1>4, AddressFacts DEF Agrees
<1> QED
  BY <1>3, <1>5

(* A process that calls a function keeps the invariant (Begin).               *)
LEMMA BeginKeeps == ASSUME LibraryCalls PROVE \A p \in Procs : BusInv /\ Begin(p) => BusInv'
<1> SUFFICES ASSUME NEW p \in Procs, BusInv, Begin(p)
             PROVE  BusInv'
  OBVIOUS
<1>1. PICK c \in Calls : /\ \A q \in Procs : rest[q] # << >> => port[q] # c.port
                         /\ rest' = [rest EXCEPT ![p] = c.steps]
                         /\ port' = [port EXCEPT ![p] = c.port]
  BY DEF Begin
<1>2. rest[p] = << >> /\ UNCHANGED <<byte, master, command, phase, pointer, memory>>
  BY DEF Begin, modules
<1>3. PICK x, ss : x = c.port /\ ss = c.steps
  OBVIOUS
<1>4. /\ rest'[p] = ss /\ port'[p] = x
      /\ \A q \in Procs \ {p} : rest'[q] = rest[q] /\ port'[q] = port[q]
  BY <1>1, <1>3 DEF BusInv, BusType, Mapping
<1>5. BusType'
  BY <1>1, <1>2 DEF BusInv, BusType, Mapping
<1>6. BusApart'
  BY <1>1, <1>3, <1>4 DEF BusInv, BusApart
<1>7. BusLeftFree'
  <2> SUFFICES ASSUME NEW y \in Ports, \A q \in Procs : rest'[q] # << >> => port'[q] # y
               PROVE  phase[y] = "free" /\ command[Master(y)] = {}
    BY <1>2 DEF BusLeftFree
  <2>1. \A q \in Procs : rest[q] # << >> => port[q] # y
    BY <1>2, <1>4
  <2> QED
    BY <2>1 DEF BusInv, BusLeftFree
<1>8. ASSUME NEW q \in Procs, rest'[q] # << >>
      PROVE  OnCall(port[q], rest[q])'
  <2>1. CASE q = p
    <3>1. PICK b : FitsCall(x, ss, b) /\ Agrees(x, b)
      BY <1>1, <1>3, BeginKnows
    <3>2. Agrees(x, b)'
      BY <1>2, <3>1 DEF Agrees
    <3>3. OnCall(x, ss)'
      BY <3>1, <3>2 DEF OnCall
    <3> QED
      BY <1>4, <2>1, <3>3
  <2>2. CASE q # p
    <3>1. PICK y, tt : y = port[q] /\ tt = rest[q]
      OBVIOUS
    <3>2. rest'[q] = tt /\ port'[q] = y
      BY <1>4, <2>2, <3>1
    <3>3. OnCall(y, tt)
      BY <1>8, <3>1, <3>2 DEF BusInv
    <3>4. OnCall(y, tt)'
      BY <1>2, <3>3 DEF OnCall, Ended, Agrees
    <3> QED
      BY <3>2, <3>4
  <2> QED
    BY <2>1, <2>2
<1> QED
  BY <1>5, <1>6, <1>7, <1>8 DEF BusInv

(* A step of something else keeps the invariant.                              *)
LEMMA BusStands == BusInv /\ UNCHANGED busVars => BusInv'
<1> SUFFICES ASSUME BusInv, UNCHANGED busVars PROVE BusInv'
  OBVIOUS
<1>1. UNCHANGED <<rest, port, byte, master, command, phase, pointer, memory>>
  BY DEF busVars, modules
<1>2. BusType' /\ BusApart' /\ BusLeftFree'
  BY <1>1 DEF BusInv, BusType, BusApart, BusLeftFree, Mapping
<1>3. ASSUME NEW q \in Procs, rest'[q] # << >>
      PROVE  OnCall(port[q], rest[q])'
  <2>1. PICK y, tt : y = port[q] /\ tt = rest[q]
    OBVIOUS
  <2>2. rest'[q] = tt /\ port'[q] = y
    BY <1>1, <2>1
  <2>3. OnCall(y, tt)
    BY <1>3, <2>1, <2>2 DEF BusInv
  <2>4. OnCall(y, tt)'
    BY <1>1, <2>3 DEF OnCall, Ended, Agrees
  <2> QED
    BY <2>2, <2>4
<1> QED
  BY <1>2, <1>3 DEF BusInv

(* BusInv is an invariant: no command comes while a transfer is under way, and  *)
(* what a call has been told of its bus is so (Begin, WriteCommand, Transfer).  *)
THEOREM BusInductive == ASSUME LibraryCalls PROVE BusSpec => []BusInv
<1>1. BusInv /\ [BusNext]_busVars => BusInv'
  BY BeginKeeps, ProcessKeeps, TransferKeeps, BusStands DEF BusNext
<1> QED
  BY <1>1, BusBegin, PTL DEF BusSpec

(* A function that has returned leaves the bus of its port free, with no        *)
(* transfer under way (nac_i2c_sequential_read, nac_i2c_random_write16).        *)
THEOREM BusFreed == ASSUME LibraryCalls PROVE BusSpec => []BusLeftFree
<1>1. BusInv => BusLeftFree
  BY DEF BusInv
<1> QED
  BY <1>1, BusInductive, PTL

-----------------------------------------------------------------------------
(* The memories of the modules. *)

MemoryStep == [File!Next]_<<Contents, Left, Answers>>

(* The accesses of a list of steps are those of the first and those of the     *)
(* others.                                                                     *)
LEMMA AccessesHead ==
  ASSUME NEW x, NEW ss \in Seq(BusSteps(x)), ss # << >>
  PROVE  /\ Accesses(ss) = Head(ss).accesses \o Accesses(Tail(ss))
         /\ Head(ss).accesses \in Seq(AccessesTo(x)) /\ Accesses(Tail(ss)) \in Seq(AccessesTo(x))
<1> DEFINE A == AccessesTo(x)
           aa(tt) == [i \in DOMAIN tt |-> tt[i].accesses]
<1>1. \A s \in BusSteps(x) : s.accesses \in Seq(A)
  <2> SUFFICES ASSUME NEW s \in BusSteps(x) PROVE s.accesses \in Seq(A)
    OBVIOUS
  <2>1. s.accesses \in {<< >>} \/ s.accesses \in Seq(A)
    BY DEF BusSteps
  <2>2. << >> \in Seq(A)
    OBVIOUS
  <2> QED
    BY <2>1, <2>2
<1>2. ASSUME NEW tt \in Seq(BusSteps(x))
      PROVE  aa(tt) \in Seq(Seq(A)) /\ Len(aa(tt)) = Len(tt)
  <2>1. \A i \in 1 .. Len(tt) : tt[i] \in BusSteps(x)
    BY ElementOfSeq
  <2>2. aa(tt) \in [1 .. Len(tt) -> Seq(A)]
    BY <1>1, <2>1
  <2> QED
    BY <2>2
<1>3. /\ Tail(ss) \in Seq(BusSteps(x)) /\ Len(ss) \in Nat \ {0} /\ Len(Tail(ss)) = Len(ss) - 1
      /\ \A i \in 1 .. Len(ss) - 1 : Tail(ss)[i] = ss[i + 1]
      /\ Head(ss) = ss[1]
  BY EmptySeq, HeadTailProperties
<1>4. Tail(aa(ss)) = aa(Tail(ss))
  <2>1. /\ aa(ss) \in Seq(Seq(A)) /\ aa(Tail(ss)) \in Seq(Seq(A))
        /\ Len(aa(ss)) = Len(ss) /\ Len(aa(Tail(ss))) = Len(ss) - 1
    BY <1>2, <1>3
  <2>2. \A i \in 1 .. Len(ss) : aa(ss)[i] = ss[i].accesses
    OBVIOUS
  <2>3. \A i \in 1 .. Len(ss) - 1 : aa(Tail(ss))[i] = ss[i + 1].accesses
    BY <1>3
  <2> HIDE DEF aa, A
  <2>4. /\ Tail(aa(ss)) \in Seq(Seq(A)) /\ Len(Tail(aa(ss))) = Len(ss) - 1
        /\ \A i \in 1 .. Len(ss) - 1 : Tail(aa(ss))[i] = aa(ss)[i + 1]
    BY <1>3, <2>1, EmptySeq, HeadTailProperties
  <2>5. \A i \in 1 .. Len(ss) - 1 : Tail(aa(ss))[i] = aa(Tail(ss))[i]
    BY <1>3, <2>2, <2>3, <2>4
  <2> QED
    BY <2>1, <2>4, <2>5, SeqEqual
<1>5. aa(ss)[1] = Head(ss).accesses /\ aa(ss) # << >>
  BY <1>2, <1>3
<1>6. aa(ss) \in Seq(Seq(A)) /\ aa(Tail(ss)) \in Seq(Seq(A))
  BY <1>2, <1>3
<1>7. Head(ss).accesses \in Seq(A)
  BY <1>1, <1>3
<1>8. FlattenSeq(aa(ss)) = Head(ss).accesses \o FlattenSeq(aa(Tail(ss)))
  <2> HIDE DEF aa, A
  <2> QED
    BY <1>4, <1>5, <1>6, FlattenHead
<1>9. FlattenSeq(aa(Tail(ss))) \in Seq(A)
  <2> HIDE DEF aa, A
  <2> QED
    BY <1>6, FlattenType
<1> QED
  BY <1>7, <1>8, <1>9 DEF Accesses

(* What a call has left to do for its caller. *)
LEMMA PendingNow ==
  ASSUME NEW p \in Procs, NEW x, x = port[p], NEW ss, ss = rest[p], NEW b, FitsCall(x, ss, b)
  PROVE  /\ Agrees(x, b) => Pending(p) = Accesses(ss)
         /\ Ended(x, ss, b) => Pending(p) = Accesses(Tail(ss))
<1>1. ASSUME Agrees(x, b) PROVE Pending(p) = Accesses(ss)
  <2>1. ASSUME ss # << >>, Head(ss).do = "wait" PROVE command[Master(x)] # {}
    <3>1. Waits(x, Head(ss), b)
      BY <2>1, FitsHead, ProperKinds
    <3> QED
      BY <1>1, <3>1 DEF Waits, Agrees
  <2> QED
    BY <2>1 DEF Pending, At
<1>2. ASSUME Ended(x, ss, b) PROVE Pending(p) = Accesses(Tail(ss))
  <2>1. x \in Ports
    BY <1>2, FitsHead, ProperKinds DEF Waits, Ended
  <2>2. command[Master(x)] = {}
    BY <1>2, <2>1 DEF Ended, Agrees, Over, Known
  <2> QED
    BY <1>2, <2>2 DEF Pending, At, Ended
<1> QED
  BY <1>1, <1>2

(* ... and after a step.                                                      *)
LEMMA PendingThen ==
  ASSUME NEW p \in Procs, NEW x, x = port'[p], NEW ss, ss = rest'[p], NEW b, FitsCall(x, ss, b)
  PROVE  /\ Agrees(x, b)' => Pending(p)' = Accesses(ss)
         /\ Ended(x, ss, b)' => Pending(p)' = Accesses(Tail(ss))
<1>1. ASSUME Agrees(x, b)' PROVE Pending(p)' = Accesses(ss)
  <2>1. ASSUME ss # << >>, Head(ss).do = "wait" PROVE command'[Master(x)] # {}
    <3>1. Waits(x, Head(ss), b)
      BY <2>1, FitsHead, ProperKinds
    <3> QED
      BY <1>1, <3>1 DEF Waits, Agrees
  <2> QED
    BY <2>1 DEF Pending, At
<1>2. ASSUME Ended(x, ss, b)' PROVE Pending(p)' = Accesses(Tail(ss))
  <2>1. x \in Ports
    BY <1>2, FitsHead, ProperKinds DEF Waits, Ended
  <2>2. command'[Master(x)] = {}
    BY <1>2, <2>1 DEF Ended, Agrees, Over, Known
  <2> QED
    BY <1>2, <2>2 DEF Pending, At, Ended
<1> QED
  BY <1>1, <1>2

(* Other processes have left what they had. *)
LEMMA PendingOther ==
  ASSUME BusInv, NEW x, OnlyOn(x), NEW q \in Procs, rest'[q] = rest[q], port'[q] = port[q],
         rest[q] # << >> => port[q] # x
  PROVE  Pending(q)' = Pending(q)
<1>1. CASE rest[q] = << >>
  BY <1>1 DEF Pending, At
<1>2. CASE rest[q] # << >>
  <2>1. PICK y, s : y = port[q] /\ s = Head(rest[q])
    OBVIOUS
  <2>2. CASE y \in Ports
    <3>1. command'[Master(y)] = command[Master(y)]
      BY <1>2, <2>1, <2>2 DEF OnlyOn
    <3> QED
      BY <2>1, <3>1 DEF Pending, At
  <2>3. CASE y \notin Ports
    <3>1. PICK b : Proper(y, s, b)
      BY <1>2, <2>1, BeforeStep
    <3>2. s.do # "wait"
      BY <2>3, <3>1, ProperKinds DEF Waits
    <3> QED
      BY <2>1, <3>2 DEF Pending, At
  <2> QED
    BY <2>2, <2>3
<1> QED
  BY <1>1, <1>2

(* A step of a bus that changes neither a memory nor an answer, and after      *)
(* which every process has left what it had.                                   *)
LEMMA NothingDone ==
  ASSUME memory' = memory, byte' = byte, \A q \in Procs : Pending(q)' = Pending(q)
  PROVE  MemoryStep
<1>1. Contents' = Contents
  BY DEF Contents
<1>2. Answers' = Answers
  BY DEF Answers
<1>3. Left' = Left
  BY DEF Left
<1> QED
  BY <1>1, <1>2, <1>3 DEF MemoryStep

(* What has been left to do, before and after a step of a process. *)
LEMMA GoesTodo ==
  ASSUME BusInv, NEW p \in Procs, NEW x, x = port[p], NEW s, s = Head(rest[p]),
         NEW t, t = Accesses(Tail(rest[p])), NEW b, Goes(p, x, s, b)
  PROVE  /\ t \in Seq(AccessesTo(x)) /\ s.accesses \in Seq(AccessesTo(x))
         /\ Pending(p)' = t
         /\ \A q \in Procs \ {p} : Pending(q)' = Pending(q)
         /\ Agrees(x, b) => Pending(p) = s.accesses \o t
         /\ s.do = "wait" /\ Agrees(x, Over(x, b)) => Pending(p) = t
<1>1. PICK ss : ss = rest[p]
  OBVIOUS
<1>2. /\ ss # << >> /\ s = Head(ss) /\ t = Accesses(Tail(ss)) /\ FitsCall(x, ss, b)
      /\ FitsCall(x, Tail(ss), After(x, s, b)) /\ Agrees(x, After(x, s, b))' /\ OnlyOn(x)
  BY <1>1 DEF Goes
<1>3. /\ port' = port /\ rest'[p] = Tail(ss)
      /\ \A q \in Procs \ {p} : rest'[q] = rest[q]
  BY <1>1 DEF Goes, Advance, BusInv, BusType, Mapping
<1>4. ss \in Seq(BusSteps(x))
  BY <1>2 DEF FitsCall, Leads
<1>5. Accesses(ss) = s.accesses \o t /\ s.accesses \in Seq(AccessesTo(x)) /\ t \in Seq(AccessesTo(x))
  BY <1>2, <1>4, AccessesHead
<1>6. Pending(p)' = t
  <2>1. PICK tt, e : tt = Tail(ss) /\ e = After(x, s, b)
    OBVIOUS
  <2>2. x = port'[p] /\ tt = rest'[p] /\ FitsCall(x, tt, e) /\ Agrees(x, e)'
    BY <1>2, <1>3, <2>1
  <2> QED
    BY <1>2, <2>1, <2>2, PendingThen
<1>7. ASSUME NEW q \in Procs \ {p} PROVE Pending(q)' = Pending(q)
  <2>1. /\ rest'[q] = rest[q] /\ port'[q] = port[q] /\ OnlyOn(x)
        /\ rest[q] # << >> => port[q] # x
    BY <1>1, <1>2, <1>3 DEF BusInv, BusApart
  <2> QED
    BY <2>1, PendingOther
<1>8. Agrees(x, b) => Pending(p) = s.accesses \o t
  BY <1>1, <1>2, <1>5, PendingNow
<1>9. s.do = "wait" /\ Agrees(x, Over(x, b)) => Pending(p) = t
  BY <1>1, <1>2, PendingNow DEF Ended
<1> QED
  BY <1>5, <1>6, <1>7, <1>8, <1>9

(* A step that settles no access. *)
LEMMA NothingSettled ==
  ASSUME NEW x, NEW t \in Seq(AccessesTo(x)) PROVE << >> \o t = t
BY ConcatEmptySeq

(* One that settles an access. *)
LEMMA OneSettled ==
  ASSUME NEW x, NEW a \in AccessesTo(x), NEW t \in Seq(AccessesTo(x))
  PROVE  <<a>> \o t # << >> /\ Head(<<a>> \o t) = a /\ Tail(<<a>> \o t) = t
<1>1. <<a>> \in Seq(AccessesTo(x)) /\ Len(<<a>>) = 1 /\ <<a>>[1] = a
  OBVIOUS
<1>2. PICK u : u = <<a>> \o t
  OBVIOUS
<1>3. /\ u \in Seq(AccessesTo(x)) /\ Len(u) = 1 + Len(t) /\ Len(t) \in Nat
      /\ \A i \in 1 .. 1 + Len(t) : u[i] = IF i <= 1 THEN <<a>>[i] ELSE t[i - 1]
  BY <1>1, <1>2, ConcatProperties
<1>4. u[1] = a /\ u # << >> /\ Head(u) = a
  BY <1>1, <1>3
<1>5. /\ Tail(u) \in Seq(AccessesTo(x)) /\ Len(Tail(u)) = Len(t)
      /\ \A i \in 1 .. Len(t) : Tail(u)[i] = u[i + 1]
  BY <1>3, <1>4, HeadTailProperties
<1>6. \A i \in 1 .. Len(t) : Tail(u)[i] = t[i]
  BY <1>3, <1>5
<1>7. Tail(u) = t
  BY <1>5, <1>6, SeqEqual
<1> QED
  BY <1>2, <1>4, <1>7

(* Access a of process p is settled, and the process is given w. *)
Settles(p, a) ==
  Left[p] # << >> /\ Head(Left[p]) = a /\ Left' = [Left EXCEPT ![p] = Tail(Left[p])]
Given(p, w) == Answers' = [Answers EXCEPT ![p] = w]

(* An access of process p is settled. *)
LEMMA TakesOne ==
  ASSUME NEW p \in Procs, NEW x, NEW a \in AccessesTo(x), NEW t \in Seq(AccessesTo(x)),
         Pending(p) = <<a>> \o t, Pending(p)' = t,
         \A q \in Procs \ {p} : Pending(q)' = Pending(q)
  PROVE  Settles(p, a)
<1>1. Left[p] = <<a>> \o t
  BY DEF Left
<1>2. Left[p] # << >> /\ Head(Left[p]) = a /\ Tail(Left[p]) = t
  BY <1>1, OneSettled
<1>3. Left' = [Left EXCEPT ![p] = t]
  BY DEF Left
<1> QED
  BY <1>2, <1>3 DEF Settles

(* The cell of an access. *)
LEMMA CellFacts ==
  ASSUME NEW x, NEW a \in AccessesTo(x)
  PROVE  /\ File!PlaceOf(a) = <<"i2c", x, a.reg>> /\ a.reg \in Addresses /\ a.space = "i2c"
         /\ x \in Plugged <=> File!PlaceOf(a) \in Cells
<1>1. a.space = "i2c" /\ a.port = x /\ a.reg \in Addresses
  BY DEF AccessesTo
<1>2. File!PlaceOf(a) = <<"i2c", x, a.reg>>
  BY <1>1 DEF File!PlaceOf
<1>3. x \in Plugged => <<"i2c", x, a.reg>> \in Cells
  BY <1>1 DEF Cells
<1>4. <<"i2c", x, a.reg>> \in Cells => x \in Plugged
  BY DEF Cells
<1> QED
  BY <1>1, <1>2, <1>3, <1>4

(* An access to a port without a module. *)
LEMMA RefusedStep ==
  ASSUME NEW p \in Procs, NEW x, NEW a \in AccessesTo(x), x \notin Plugged,
         Settles(p, a),
         Contents' = Contents,
         NEW w \in {{0}, {255}} \cup {Answers[p]}, Given(p, w)
  PROVE  MemoryStep
<1>1. File!PlaceOf(a) \notin Cells /\ a.space # "count"
  BY CellFacts
<1>2. File!Refuse(p)
  <2>1. \E v \in {{0}, {255}} \cup {Answers[p]} : Answers' = [Answers EXCEPT ![p] = v]
    BY DEF Given
  <2> QED
    BY <1>1, <2>1 DEF Settles, File!Refuse, File!Take
<1> QED
  BY <1>2 DEF MemoryStep, File!Next

(* A read of the memory of a module.                                          *)
LEMMA ReadStep ==
  ASSUME NEW p \in Procs, NEW x \in Plugged, NEW a \in AccessesTo(x), ~a.write,
         Settles(p, a),
         Contents' = Contents,
         Given(p, {memory[x][a.reg]})
  PROVE  MemoryStep
<1>1. File!PlaceOf(a) = <<"i2c", x, a.reg>> /\ File!PlaceOf(a) \in Cells
  BY CellFacts
<1>2. Contents[File!PlaceOf(a)] = {memory[x][a.reg]}
  <2>1. PICK c : c = <<"i2c", x, a.reg>>
    OBVIOUS
  <2>2. c \in Cells /\ c[2] = x /\ c[3] = a.reg
    BY <1>1, <2>1
  <2>3. Contents[c] = {memory[c[2]][c[3]]}
    BY <2>2 DEF Contents
  <2> QED
    BY <1>1, <2>1, <2>2, <2>3
<1>3. File!Read(p)
  BY <1>1, <1>2 DEF Settles, Given, File!Read, File!Take
<1> QED
  BY <1>3 DEF MemoryStep, File!Next

(* A write to the memory of a module.                                         *)
LEMMA WriteStep ==
  ASSUME NEW p \in Procs, NEW x \in Plugged, NEW a \in AccessesTo(x), a.write, a.keep = {},
         Settles(p, a),
         Contents' = [Contents EXCEPT ![<<"i2c", x, a.reg>>] = a.set], Answers' = Answers
  PROVE  MemoryStep
<1>1. File!PlaceOf(a) = <<"i2c", x, a.reg>> /\ File!PlaceOf(a) \in Cells
  BY CellFacts
<1>2. \A w : (w \cap a.keep) \cup a.set = a.set
  OBVIOUS
<1>3. Contents' = [Contents EXCEPT ![File!PlaceOf(a)] =
                     (Contents[File!PlaceOf(a)] \cap a.keep) \cup a.set]
  BY <1>1, <1>2
<1>4. File!Write(p)
  BY <1>1, <1>3 DEF Settles, File!Write, File!Take
<1> QED
  BY <1>4 DEF MemoryStep, File!Next

(* A step that gives the master a command or a byte, or notices that a         *)
(* transfer is over, settles nothing.                                          *)
LEMMA PutMemory ==
  ASSUME BusInv, NEW p \in Procs, WriteRegister(p) \/ WriteCommand(p) \/ WaitDone(p)
  PROVE  MemoryStep
<1>1. PICK x, s, t : x = port[p] /\ s = Head(rest[p]) /\ t = Accesses(Tail(rest[p]))
  OBVIOUS
<1>2. memory' = memory /\ byte' = byte
  BY DEF WriteRegister, WriteCommand, WaitDone, modules
<1>3. Pending(p) = t /\ Pending(p)' = t /\ \A q \in Procs \ {p} : Pending(q)' = Pending(q)
  <2>1. CASE WriteRegister(p) \/ WriteCommand(p)
    <3>1. PICK b : Goes(p, x, s, b) /\ Agrees(x, b)
      BY <1>1, <2>1, RegisterGoes, CommandGoes
    <3>2. s.do = "put"
      BY <1>1, <2>1 DEF WriteRegister, WriteCommand, At
    <3>3. Puts(x, s, b)
      BY <3>1, <3>2, ProperKinds DEF Goes
    <3>4. s.accesses = << >>
      BY <3>3 DEF Puts, Put
    <3>5. t \in Seq(AccessesTo(x)) /\ Pending(p) = << >> \o t /\ Pending(p)' = t
          /\ \A q \in Procs \ {p} : Pending(q)' = Pending(q)
      BY <1>1, <3>1, <3>4, GoesTodo
    <3> QED
      BY <3>5, NothingSettled
  <2>2. CASE WaitDone(p)
    <3>1. PICK b : Goes(p, x, s, b) /\ Agrees(x, Over(x, b))
      BY <1>1, <2>2, WaitGoes
    <3>2. s.do = "wait"
      BY <1>1, <2>2 DEF WaitDone, At
    <3> QED
      BY <1>1, <3>1, <3>2, GoesTodo
  <2> QED
    BY <2>1, <2>2
<1>4. \A q \in Procs : Pending(q)' = Pending(q)
  BY <1>3
<1> QED
  BY <1>2, <1>4, NothingDone

(* A byte that is fetched is the one in the memory, or 255 where there is no   *)
(* module.                                                                     *)
LEMMA FetchMemory ==
  ASSUME BusInv, NEW p \in Procs, FetchByte(p)
  PROVE  MemoryStep
<1>1. PICK x, s, t : x = port[p] /\ s = Head(rest[p]) /\ t = Accesses(Tail(rest[p]))
  OBVIOUS
<1>2. PICK b : Goes(p, x, s, b) /\ Agrees(x, b)
  BY <1>1, FetchGoes
<1>3. Fetches(x, s, b)
  <2>1. s.do = "fetch"
    BY <1>1 DEF FetchByte, At
  <2> QED
    BY <1>2, <2>1, ProperKinds DEF Goes
<1>4. PICK a \in Addresses : /\ s = Fetch(Access(x, a, FALSE, 0))
                             /\ b.got = IF x \in Plugged THEN a ELSE Blank
  BY <1>3 DEF Fetches
<1>5. PICK d : d = Access(x, a, FALSE, 0)
  OBVIOUS
<1>6. d \in AccessesTo(x) /\ d.reg = a /\ ~d.write /\ s.accesses = <<d>>
  BY <1>4, <1>5 DEF Access, AccessesTo, Fetch
<1>7. /\ t \in Seq(AccessesTo(x)) /\ Pending(p) = <<d>> \o t /\ Pending(p)' = t
      /\ \A q \in Procs \ {p} : Pending(q)' = Pending(q)
  BY <1>1, <1>2, <1>6, GoesTodo
<1>8. Settles(p, d)
  BY <1>6, <1>7, TakesOne
<1>9. memory' = memory /\ byte' = [byte EXCEPT ![p] = master[Master(x)].RXR]
  BY <1>1 DEF FetchByte, modules
<1>10. Contents' = Contents
  BY <1>9 DEF Contents
<1>11. Given(p, {master[Master(x)].RXR})
  <2>1. master[Master(x)].RXR # NoByte
    <3>1. x \in Ports /\ Master(x) \in Ports
      BY <1>3, MasterFacts DEF Fetches
    <3>2. master[Master(x)].RXR \in Byte
      BY <3>1 DEF BusInv, BusType, Masters
    <3> QED
      BY <3>2 DEF Byte, NoByte
  <2>2. byte \in [Procs -> Byte \cup {NoByte}]
    BY DEF BusInv, BusType
  <2> QED
    BY <1>9, <2>1, <2>2 DEF Answers, Given
<1>12. CASE x \in Plugged
  <2>1. master[Master(x)].RXR = memory[x][d.reg]
    BY <1>2, <1>3, <1>4, <1>6, <1>12 DEF Agrees, Fetches
  <2> QED
    BY <1>6, <1>8, <1>10, <1>11, <1>12, <2>1, ReadStep
<1>13. CASE x \notin Plugged
  <2>1. master[Master(x)].RXR = 255
    BY <1>2, <1>3, <1>4, <1>13 DEF Agrees, Fetches
  <2> QED
    BY <1>6, <1>8, <1>10, <1>11, <1>13, <2>1, RefusedStep
<1> QED
  BY <1>12, <1>13

(* A port there is not is refused. *)
LEMMA RefuseMemory ==
  ASSUME BusInv, NEW p \in Procs, RefusePort(p)
  PROVE  MemoryStep
<1>1. PICK x, s, t : x = port[p] /\ s = Head(rest[p]) /\ t = Accesses(Tail(rest[p]))
  OBVIOUS
<1>2. PICK b : Goes(p, x, s, b)
  BY <1>1, RefuseGoes
<1>3. Refuses(x, s)
  <2>1. s.do = "refuse"
    BY <1>1 DEF RefusePort, At
  <2> QED
    BY <1>2, <2>1, ProperKinds DEF Goes
<1>4. PICK d \in AccessesTo(x) : s = Refuse(d)
  BY <1>3 DEF Refuses
<1>5. s.accesses = <<d>> /\ Head(s.accesses) = d
  BY <1>4 DEF Refuse
<1>6. x \notin Plugged /\ Agrees(x, b)
  BY <1>3, I2cAssumption DEF Refuses, Agrees, Ports
<1>7. /\ t \in Seq(AccessesTo(x)) /\ Pending(p) = <<d>> \o t /\ Pending(p)' = t
      /\ \A q \in Procs \ {p} : Pending(q)' = Pending(q)
  BY <1>1, <1>2, <1>5, <1>6, GoesTodo
<1>8. Settles(p, d)
  BY <1>7, TakesOne
<1>9. memory' = memory
  BY DEF RefusePort, modules
<1>10. Contents' = Contents
  BY <1>9 DEF Contents
<1>11. PICK v \in {0, 255} : byte' = byte \/ byte' = [byte EXCEPT ![p] = v]
  BY DEF RefusePort
<1>12. PICK w \in {{0}, {255}} \cup {Answers[p]} : Given(p, w)
  <2>1. CASE byte' = byte
    <3>1. Answers' = [Answers EXCEPT ![p] = Answers[p]]
      BY <2>1 DEF Answers
    <3> QED
      BY <3>1 DEF Given
  <2>2. CASE byte' = [byte EXCEPT ![p] = v]
    <3>1. v # NoByte /\ byte \in [Procs -> Byte \cup {NoByte}]
      BY DEF NoByte, BusInv, BusType
    <3>2. {v} \ {NoByte} = {v} /\ byte'[p] = v /\ \A q \in Procs \ {p} : byte'[q] = byte[q]
      BY <2>2, <3>1
    <3>3. Answers' = [Answers EXCEPT ![p] = {v}]
      BY <3>2 DEF Answers
    <3> QED
      BY <1>11, <3>3 DEF Given
  <2> QED
    BY <1>11, <2>1, <2>2
<1> QED
  <2>1. d \in AccessesTo(x) /\ x \notin Plugged
    BY <1>4, <1>6
  <2> QED
    BY <1>8, <1>10, <1>12, <2>1, RefusedStep

(* A transfer that a call waits for to write a byte puts it into the memory    *)
(* where the access says; another settles nothing.                             *)
LEMMA TransferMemory ==
  ASSUME BusInv, NEW m \in Ports, Transfer(m)
  PROVE  MemoryStep
<1>1. PICK x, v : x = Wired(m) /\ v = master[m].TXR
  OBVIOUS
<1>2. x \in Ports /\ Master(x) = m
  BY <1>1, MasterFacts
<1>0. PICK p \in Procs :
        \E b : /\ rest[p] # << >> /\ port[p] = x /\ FitsCall(x, rest[p], b)
              /\ Waits(x, Head(rest[p]), b) /\ Agrees(x, b)
  <2>1. command[m] # {}
    BY DEF Transfer
  <2> QED
    BY <1>1, <2>1, TransferAt
<1>3. PICK b : /\ rest[p] # << >> /\ port[p] = x /\ FitsCall(x, rest[p], b)
               /\ Waits(x, Head(rest[p]), b) /\ Agrees(x, b)
  BY <1>0
<1>4. PICK ss, s, t : ss = rest[p] /\ s = Head(ss) /\ t = Accesses(Tail(ss))
  OBVIOUS
<1>5. OnlyOn(x) /\ rest' = rest /\ port' = port /\ byte' = byte
  BY <1>1, TransferDoes
<1>6. /\ ss # << >> /\ FitsCall(x, ss, b) /\ Waits(x, s, b) /\ Agrees(x, Over(x, b))'
      /\ ss \in Seq(BusSteps(x)) /\ s.do = "wait"
  <2>1. ss # << >> /\ FitsCall(x, ss, b) /\ Waits(x, s, b)
    BY <1>3, <1>4
  <2>2. Agrees(x, Over(x, b))'
    BY <1>1, <1>3, <2>1, TransferOver
  <2>3. s.do = "wait"
    <3>1. Wait.do = "wait" /\ \A a : WaitFor(a).do = "wait"
      BY DEF Wait, WaitFor
    <3> QED
      BY <2>1, <3>1 DEF Waits
  <2> QED
    BY <2>1, <2>2, <2>3 DEF FitsCall, Leads
<1>7. Pending(p) = s.accesses \o t /\ t \in Seq(AccessesTo(x))
  <2>1. Pending(p) = Accesses(ss)
    BY <1>3, <1>4, PendingNow
  <2> QED
    BY <1>4, <1>6, <2>1, AccessesHead
<1>8. Pending(p)' = t
  <2>1. x = port'[p] /\ ss = rest'[p]
    BY <1>3, <1>4, <1>5
  <2>2. Ended(x, ss, b)'
    BY <1>4, <1>6 DEF Ended
  <2> QED
    BY <1>4, <1>6, <2>1, <2>2, PendingThen
<1>9. ASSUME NEW q \in Procs \ {p} PROVE Pending(q)' = Pending(q)
  <2>1. /\ rest'[q] = rest[q] /\ port'[q] = port[q]
        /\ rest[q] # << >> => port[q] # x
    BY <1>3, <1>5 DEF BusInv, BusApart
  <2> QED
    BY <1>5, <2>1, PendingOther
<1>10. Answers' = Answers
  BY <1>5 DEF Answers
<1>11. /\ b.phase = phase[x] /\ b.command = command[m]
       /\ b.pointer # NoByte => b.pointer = pointer[x]
       /\ b.sent # NoByte => b.sent = v
  BY <1>1, <1>2, <1>3 DEF Agrees
<1>12. memory' = IF Stores(b) THEN [memory EXCEPT ![x][pointer[x]] = v] ELSE memory
  BY <1>1, <1>11 DEF Transfer, Stores
<1>13. CASE s = Wait /\ ~Stores(b)
  <2>1. s.accesses = << >>
    BY <1>13 DEF Wait
  <2>2. Pending(p) = t
    BY <1>7, <2>1, NothingSettled
  <2>3. \A q \in Procs : Pending(q)' = Pending(q)
    BY <1>8, <1>9, <2>2
  <2> QED
    BY <1>5, <1>12, <1>13, <2>3, NothingDone
<1>14. ASSUME NEW a \in Addresses, NEW w \in Byte, s = WaitFor(Access(x, a, TRUE, w)),
              b.sent = w, x \in Plugged => b.pointer = a /\ Stores(b)
       PROVE  MemoryStep
  <2>1. PICK d : d = Access(x, a, TRUE, w)
    OBVIOUS
  <2>2. /\ d \in AccessesTo(x) /\ d.reg = a /\ d.write /\ d.keep = {} /\ d.set = {w}
        /\ s.accesses = <<d>>
    BY <1>14, <2>1 DEF Access, AccessesTo, WaitFor
  <2>3. Settles(p, d)
    BY <1>7, <1>8, <1>9, <2>2, TakesOne
  <2>4. CASE x \in Plugged
    <3>1. a = pointer[x] /\ w = v
      BY <1>11, <1>14, <2>4 DEF NoByte, Addresses, Byte
    <3>2. memory' = [memory EXCEPT ![x][a] = w]
      BY <1>12, <1>14, <2>4, <3>1
    <3>3. Contents' = [Contents EXCEPT ![<<"i2c", x, a>>] = {w}]
      <4>1. memory \in [Ports -> [Addresses -> Byte]]
        BY DEF BusInv, BusType
      <4>2. \A q \in Cells : /\ q[2] \in Ports /\ q[3] \in Addresses
                             /\ q # <<"i2c", x, a>> => q[2] # x \/ q[3] # a
        BY I2cAssumption DEF Cells, Ports
      <4>3. \A q \in Cells : q # <<"i2c", x, a>> => memory'[q[2]][q[3]] = memory[q[2]][q[3]]
        BY <1>2, <3>2, <4>1, <4>2
      <4>4. memory'[x][a] = w
        BY <1>2, <3>2, <4>1
      <4>5. PICK c : c = <<"i2c", x, a>>
        OBVIOUS
      <4>6. c[2] = x /\ c[3] = a
        BY <4>5
      <4>7. Contents' = [Contents EXCEPT ![c] = {w}]
        BY <4>3, <4>4, <4>5, <4>6 DEF Contents
      <4> QED
        BY <4>5, <4>7
    <3> QED
      BY <1>10, <2>2, <2>3, <2>4, <3>3, WriteStep
  <2>5. CASE x \notin Plugged
    <3>1. Contents' = Contents
      <4>1. memory \in [Ports -> [Addresses -> Byte]]
        BY DEF BusInv, BusType
      <4>2. \A q \in Cells : q[2] \in Ports /\ q[2] # x
        BY <2>5, I2cAssumption DEF Cells, Ports
      <4>3. \A q \in Cells : memory'[q[2]] = memory[q[2]]
        BY <1>12, <4>1, <4>2
      <4> QED
        BY <4>3 DEF Contents
    <3>2. Given(p, Answers[p])
      BY <1>10 DEF Given, Answers
    <3> QED
      BY <2>2, <2>3, <2>5, <3>1, <3>2, RefusedStep
  <2> QED
    BY <2>4, <2>5
<1> QED
  BY <1>6, <1>13, <1>14 DEF Waits

(* Nothing is left of a call with no steps left. *)
LEMMA NoneLeft == Accesses(<< >>) = << >>
<1>1. [i \in DOMAIN << >> |-> << >>[i].accesses] = << >>
  OBVIOUS
<1>2. FlattenSeq(<< >>) = << >>
  BY DEF FlattenSeq
<1> QED
  BY <1>1, <1>2 DEF Accesses

(* A process that calls a function has its accesses before it.                 *)
LEMMA BeginMemory ==
  ASSUME LibraryCalls, BusInv, NEW p \in Procs, Begin(p)
  PROVE  MemoryStep
<1>1. PICK c \in Calls : /\ \A q \in Procs : rest[q] # << >> => port[q] # c.port
                         /\ rest' = [rest EXCEPT ![p] = c.steps]
                         /\ port' = [port EXCEPT ![p] = c.port]
  BY DEF Begin
<1>2. rest[p] = << >> /\ UNCHANGED <<byte, master, command, phase, pointer, memory>>
  BY DEF Begin, modules
<1>3. PICK x, ss : x = c.port /\ ss = c.steps
  OBVIOUS
<1>4. /\ rest'[p] = ss /\ port'[p] = x
      /\ \A q \in Procs \ {p} : rest'[q] = rest[q] /\ port'[q] = port[q]
  BY <1>1, <1>3 DEF BusInv, BusType, Mapping
<1>5. PICK b : FitsCall(x, ss, b) /\ Agrees(x, b)
  BY <1>1, <1>3, BeginKnows
<1>6. Agrees(x, b)'
  BY <1>2, <1>5 DEF Agrees
<1>7. Pending(p)' = Accesses(ss)
  BY <1>4, <1>5, <1>6, PendingThen
<1>8. \A q \in Procs \ {p} : Pending(q)' = Pending(q)
  BY <1>2, <1>4 DEF Pending, At
<1>9. Pending(p) = << >>
  BY <1>2, NoneLeft DEF Pending, At
<1>10. Left[p] = << >> /\ Left' = [Left EXCEPT ![p] = Accesses(ss)]
  BY <1>7, <1>8, <1>9 DEF Left
<1>11. Contents' = Contents /\ Answers' = Answers
  BY <1>2 DEF Contents, Answers
<1>12. Accesses(ss) \in CallJobs
  BY <1>3 DEF CallJobs
<1>13. File!Begin(p)
  BY <1>10, <1>11, <1>12 DEF File!Begin
<1> QED
  BY <1>13 DEF MemoryStep, File!Next

(* The memories at first. *)
LEMMA MemoryBegin == BusInit => File!Init
<1> SUFFICES ASSUME BusInit PROVE File!Init
  OBVIOUS
<1>1. Contents = [q \in Cells |-> {10 * q[2] + q[3] + 1}]
  <2>1. \A q \in Cells : q[2] \in Ports /\ q[3] \in Addresses
    BY I2cAssumption DEF Cells, Ports
  <2>2. \A q \in Cells : memory[q[2]][q[3]] = 10 * q[2] + q[3] + 1
    BY <2>1 DEF BusInit
  <2> QED
    BY <2>2 DEF Contents
<1>2. Left = [p \in Procs |-> << >>]
  <2>1. \A p \in Procs : Pending(p) = << >>
    BY NoneLeft DEF BusInit, Pending, At
  <2> QED
    BY <2>1 DEF Left
<1>3. Answers = [p \in Procs |-> {}]
  BY DEF BusInit, Answers
<1> QED
  BY <1>1, <1>2, <1>3 DEF File!Init

(* Byte by byte, the bus functions read and write the memory of the module in   *)
(* their port, the high byte of 16 bits first, and no other (RegisterFile).     *)
THEOREM MemoryImplemented == ASSUME LibraryCalls PROVE BusSpec => ImplementsMemory
<1>1. BusInv /\ UNCHANGED busVars => MemoryStep
  <2> SUFFICES ASSUME UNCHANGED busVars PROVE MemoryStep
    OBVIOUS
  <2>1. memory' = memory /\ byte' = byte /\ \A q \in Procs : Pending(q)' = Pending(q)
    BY DEF busVars, modules, Pending, At
  <2> QED
    BY <2>1, NothingDone
<1>2. BusInv /\ BusNext => MemoryStep
  <2> SUFFICES ASSUME BusInv, BusNext PROVE MemoryStep
    OBVIOUS
  <2>1. ASSUME NEW p \in Procs,
               \/ Begin(p) \/ WriteRegister(p) \/ WriteCommand(p)
               \/ WaitDone(p) \/ FetchByte(p) \/ RefusePort(p)
        PROVE  MemoryStep
    BY <2>1, BeginMemory, PutMemory, FetchMemory, RefuseMemory
  <2>2. ASSUME NEW m \in Ports, Transfer(m)
        PROVE  MemoryStep
    BY <2>2, TransferMemory
  <2> QED
    BY <2>1, <2>2 DEF BusNext
<1>3. BusInv /\ [BusNext]_busVars => [File!Next]_<<Contents, Left, Answers>>
  BY <1>1, <1>2 DEF MemoryStep
<1> QED
  BY <1>3, MemoryBegin, BusInductive, PTL DEF BusSpec, ImplementsMemory, File!Spec, File!vars
=============================================================================
