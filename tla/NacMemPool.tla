----------------------------- MODULE NacMemPool -----------------------------
(***************************************************************************)
(* The memory module of the driver (drv/nac_mem.c) from nac_mem_init() to  *)
(* nac_mem_exit(): it takes every piece of contiguous low memory the       *)
(* kernel has, sorts the pieces by address, carves one contiguous area per *)
(* card out of them, halving the size that is asked for until one is       *)
(* found, gives the other pieces back, and returns the areas at the end.   *)
(*                                                                         *)
(* Addresses and sizes count in units; a piece is PieceSize units long and *)
(* lies at a multiple of PieceSize.  Address 0 means "none", as in the C.  *)
(*                                                                         *)
(* Ghost state: held, the pieces the module has got from the kernel and    *)
(* not given back.                                                         *)
(***************************************************************************)
EXTENDS Integers, FiniteSets

CONSTANTS
  PieceSize,   \* psize: PAGE_SIZE << gfporder
  Slots,       \* PTABSIZE (1024)
  MaxPiece,    \* pieces of low memory the machine has (bounds the addresses)
  Alignment,   \* align, in units
  Request,     \* i_size: NAC_MEM_SIZE, divided by nnacs on 32-bit platforms
  MinSize,     \* NAC_MIN_SIZE
  CardCount    \* nnacs

ASSUME PoolAssumption ==
  /\ PieceSize \in Nat \ {0} /\ Alignment \in Nat \ {0}
  /\ Slots \in Nat \ {0} /\ MaxPiece \in Nat \ {0}
  /\ MinSize \in Nat /\ MinSize >= PieceSize
  /\ Request \in Nat /\ Request > MinSize
  /\ CardCount \in Nat \ {0}

VARIABLES
  pc,       \* phase of nac_mem_init
  ptable,   \* nac_mem_ptable, sorted in descending order
  cstart,   \* the static cstart of nac_mem_findcontig
  card,     \* loop variable nac of nac_mem()
  size,     \* size[]
  vaddr,    \* nac_mem_vaddr[]
  held      \* ghost: pieces taken from the kernel and not given back

vars == <<pc, ptable, cstart, card, size, vaddr, held>>

Cards == 0 .. CardCount - 1
Slot == 0 .. Slots - 1
Pieces == {PieceSize * k : k \in 1 .. MaxPiece}

(* The table nac_mem_alloc_ptable and nac_mem_sort_ptable leave: the pieces
   from the highest address down, then zeros. *)
Table(S) ==
  [i \in Slot |-> IF i < Cardinality(S)
                  THEN CHOOSE p \in S : Cardinality({q \in S : q > p}) = i
                  ELSE 0]

TablePieces == {ptable[i] : i \in Slot} \ {0}

-----------------------------------------------------------------------------
(* nac_mem_findcontig *)

(* The local cstart when the loop looks at slot i: where the last run of
   neighbouring pieces before i began. *)
RunStart(i) ==
  CHOOSE j \in cstart .. i - 1 :
    /\ j = cstart \/ ptable[j - 1] - ptable[j] # PieceSize
    /\ \A k \in j + 1 .. i - 1 : ptable[k - 1] - ptable[k] = PieceSize

(* Variant: a run of exactly the right length is passed over. *)
FitsStrict(i, c) ==
  (i - RunStart(i)) * PieceSize > c /\ ptable[i - 1] % Alignment = 0

(* The run that ends before slot i is long enough for c units and aligned. *)
Fits(i, c) ==
  (i - RunStart(i)) * PieceSize >= c /\ ptable[i - 1] % Alignment = 0

(* Where the loop stops: Slots if it runs to the end of the table. *)
Stop(c) ==
  LET stops == {i \in cstart + 1 .. Slots - 1 : Fits(i, c) \/ ptable[i] = 0}
  IN  IF stops = {} THEN Slots ELSE CHOOSE i \in stops : \A j \in stops : i <= j

(* Variant: one slot too few is taken out of the table. *)
TakenFromShort(i, c) == i - (c \div PieceSize) + 1

(* The slots taken for c units: whole pieces only, the fraction is dropped. *)
TakenFrom(i, c) == i - (c \div PieceSize)

-----------------------------------------------------------------------------
Init ==
  /\ pc = "load"
  /\ ptable = [i \in Slot |-> 0]
  /\ cstart = 0 /\ card = 0
  /\ size = [c \in Cards |-> Request]
  /\ vaddr = [c \in Cards |-> 0]
  /\ held = {}

(* nac_mem_alloc_ptable and nac_mem_sort_ptable; the kernel has at least one
   piece and has none left when it stops giving them. *)
LoadTable ==
  /\ pc = "load"
  /\ \E S \in SUBSET Pieces :
       /\ Cardinality(S) \in 1 .. Slots
       /\ ptable' = Table(S)
       /\ held' = S
  /\ pc' = "carve"
  /\ UNCHANGED <<cstart, card, size, vaddr>>

(* One call of nac_mem_findcontig by nac_mem() that succeeds. *)
CarveFound ==
  /\ pc = "carve" /\ card < CardCount
  /\ ptable[cstart] # 0
  /\ LET c == size[card]
         i == Stop(c)
     IN  /\ i < Slots /\ Fits(i, c)
         /\ vaddr' = [vaddr EXCEPT ![card] = ptable[i - 1]]
         /\ ptable' = [j \in Slot |-> IF TakenFrom(i, c) <= j /\ j < i
                                      THEN 0 ELSE ptable[j]]
         /\ cstart' = i
  /\ card' = card + 1
  /\ UNCHANGED <<pc, size, held>>

(* cstart after a call that fails. *)
CstartAfterFailure ==
  LET i == Stop(size[card])
  IN  CASE ptable[cstart] = 0 -> cstart
        [] ptable[cstart] # 0 /\ i < Slots -> 0
        [] ptable[cstart] # 0 /\ i = Slots -> RunStart(Slots)

(* One that fails: nac_mem() halves the size and gives up on this card and
   the ones after it when the size is too small. *)
CarveFailed ==
  /\ pc = "carve" /\ card < CardCount
  /\ \/ ptable[cstart] = 0
     \/ LET i == Stop(size[card]) IN i = Slots \/ ~Fits(i, size[card])
  /\ cstart' = CstartAfterFailure
  /\ size' = [size EXCEPT ![card] = @ \div 2]
  /\ pc' = IF size[card] \div 2 <= MinSize THEN "carved" ELSE "carve"
  /\ UNCHANGED <<ptable, card, vaddr, held>>

CarveDone ==
  /\ pc = "carve" /\ card = CardCount
  /\ pc' = "carved"
  /\ UNCHANGED <<ptable, cstart, card, size, vaddr, held>>

(* nac_mem_free_ptable; nac_mem_init returns. *)
FreeTable ==
  /\ pc = "carved"
  /\ held' = held \ TablePieces
  /\ ptable' = [i \in Slot |-> 0]
  /\ pc' = "ready"
  /\ UNCHANGED <<cstart, card, size, vaddr>>

(* Variant: the last piece of an area is forgotten. *)
AreaPiecesShort(c) ==
  IF vaddr[c] = 0 THEN {}
  ELSE {p \in Pieces : vaddr[c] <= p /\ p + PieceSize < vaddr[c] + size[c]}

(* The pieces nac_mem_freecontig gives back for an area. *)
AreaPieces(c) ==
  IF vaddr[c] = 0 THEN {}
  ELSE {p \in Pieces : vaddr[c] <= p /\ p < vaddr[c] + size[c]}

(* nac_mem_exit: nac_mem_cleanup. *)
Cleanup ==
  /\ pc = "ready"
  /\ held' = held \ UNION {AreaPieces(c) : c \in Cards}
  /\ pc' = "exited"
  /\ UNCHANGED <<ptable, cstart, card, size, vaddr>>

Next == LoadTable \/ CarveFound \/ CarveFailed \/ CarveDone \/ FreeTable \/ Cleanup

Spec == Init /\ [][Next]_vars

-----------------------------------------------------------------------------
(* Properties. *)

(* An area that is promised to a card is memory the module holds, over its
   whole length, and no other card's, from nac_mem() until the module is
   unloaded: carving takes the right slots, also after skipping pieces for the
   alignment and after several halvings, and nac_mem_free_ptable gives none of
   them back. *)
AreaHeld ==
  pc \in {"carve", "carved", "ready"} =>
    \A c \in Cards :
      /\ AreaPieces(c) \subseteq held \ TablePieces
      /\ \A d \in Cards \ {c} : AreaPieces(c) \cap AreaPieces(d) = {}

(* The unloaded module has given every piece back, none twice. *)
AllReturned == pc = "exited" => held = {}

(* A run of the table that would do for c units; the last slot never counts. *)
SomeRun(c) ==
  \E i \in 1 .. Slots - 1, j \in Slot :
    /\ j < i /\ (i - j) * PieceSize >= c
    /\ ptable[i - 1] # 0 /\ ptable[i - 1] % Alignment = 0
    /\ \A k \in j + 1 .. i - 1 : ptable[k - 1] - ptable[k] = PieceSize

(* The first card is refused a size only when no run of the table has it, as
   long as the table is not full to its last slot. *)
FirstCardServed ==
  [][CarveFailed /\ card = 0 /\ ptable[Slots - 1] = 0 => ~SomeRun(size[0])]_vars
=============================================================================
