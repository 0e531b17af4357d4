-------------------------- MODULE NacStreams_proofs --------------------------
(***************************************************************************)
(* Proofs about the life cycle of the streams, for every number of         *)
(* streams, handles and set-ups, every size of the memory and every mix of *)
(* the modes.                                                              *)
(*                                                                         *)
(* That a running stream uses its own memory relates the registers of the  *)
(* card, the record of the handle and what the callers agreed on, which    *)
(* were written by calls of different processes.  The inductive invariant  *)
(* StreamsInv says that they agree from the set-up on for every stream     *)
(* that is prepared, long before it is attached, and that one handle at    *)
(* most uses a stream.                                                     *)
(***************************************************************************)
EXTENDS NacStreams, TLAPS

Mode == division[1]

(* The size of every stream under the last set-up. *)
Size == IF Mode \in {"msu", "proc"} THEN StreamSize(division[2]) ELSE InlineSize(Mode)

(* The addresses of a stream are all set, except in overlap mode. *)
Exact(s) == s \in Rx \/ Mode # "overlap"

(* The block of DMA registers is that of the s-th part of the memory. *)
Divided(b) ==
  /\ block[b].lo = b * Size /\ block[b].hi = b * Size + Size
  /\ block[b].loaded = b * Size

StreamType == [pbm : Pbms, at : Streams \cup {None}, size : Nat,
               phyaddr : Nat \cup {None}, mapped : BOOLEAN,
               attached : BOOLEAN, started : BOOLEAN]

BlockType == [lo : Nat \cup {None}, hi : Nat \cup {None}, loaded : Nat \cup {None},
              limit : Nat \cup {None}, paused : BOOLEAN]

StreamsType ==
  /\ configured \in [Handles -> SUBSET (Rx \cup Tx)]
  /\ stream \in [Handles -> [Streams -> StreamType]]
  /\ block \in [Streams -> BlockType]
  /\ division \in {<<"none", 0>>} \cup ({"msu", "copy", "overlap", "proc"} \X Counts)
  /\ orphans \in SUBSET Rx

(* A stream that may be attached: its record and its registers agree. *)
PreparedInv ==
  \A h \in Handles, s \in Rx \cup Tx : s \in configured[h] =>
    /\ stream[h][s].pbm = "live" /\ stream[h][s].at = s /\ stream[h][s].size = Size
    /\ s \in Tx => Mode \in {"copy", "overlap"}
    /\ Exact(s) => Divided(s)

(* What nac_proc_init has left in the registers is what nac_proc_config relies
   on, in another process. *)
ProcInv == Mode = "proc" => \A b \in 0 .. division[2] - 1 : Divided(b)

(* A stream that is attached was prepared, and one that runs is attached. *)
AttachedInv ==
  \A h \in Handles, s \in Streams :
    /\ stream[h][s].started => stream[h][s].attached
    /\ stream[h][s].attached =>
         /\ s \in configured[h]
         /\ Exact(s) => /\ stream[h][s].mapped
                        /\ stream[h][s].phyaddr = s * Size
                        /\ s * Size + Size <= Area
    /\ stream[h][s].started /\ Exact(s) =>
         /\ ~block[s].paused
         /\ block[s].limit = IF s \in Tx THEN s * Size ELSE s * Size + Size

(* One handle at most uses a stream. *)
OneUser ==
  \A g, h \in Handles, s \in Streams :
    stream[g][s].attached /\ stream[h][s].attached => g = h

StreamsInv == StreamsType /\ PreparedInv /\ ProcInv /\ AttachedInv /\ OneUser

-----------------------------------------------------------------------------
(* Dividing the memory: the parts of nac_msu_configure and of the inline
   configuration are whole numbers of bytes. *)
LEMMA SizesNat ==
  /\ \A n \in 1 .. N : StreamSize(n) \in Nat
  /\ \A mode : InlineSize(mode) \in Nat
  /\ StreamsType => Size \in Nat \/ Mode = "none"
<1> USE MemoryAssumption
<1>1. ASSUME NEW n \in 1 .. N PROVE StreamSize(n) \in Nat
  <2>1. Area - Table \in Nat /\ n \in Nat \ {0}
    OBVIOUS
  <2>2. \A a \in Nat, d \in Nat \ {0} : a \div d \in Nat
    OBVIOUS
  <2> QED
    BY <2>1, <2>2 DEF StreamSize
<1>2. ASSUME NEW mode PROVE InlineSize(mode) \in Nat
  <2>1. \A a \in Nat, d \in Nat \ {0} : a \div d \in Nat
    OBVIOUS
  <2>2. 2 * N \in Nat \ {0}
    OBVIOUS
  <2> QED
    BY <2>1, <2>2 DEF InlineSize
<1>3. ASSUME StreamsType, Mode # "none" PROVE Size \in Nat
  <2>1. division[2] \in 1 .. N
    <3>1. division # <<"none", 0>>
      BY <1>3 DEF Mode
    <3>2. PICK m \in {"msu", "copy", "overlap", "proc"}, n \in Counts : division = <<m, n>>
      BY <1>3, <3>1 DEF StreamsType
    <3> QED
      BY <3>2, ProgramAssumption
  <2> QED
    BY <2>1, <1>1, <1>2 DEF Size
<1> QED
  BY <1>1, <1>2, <1>3

(* Before any process has opened the card. *)
LEMMA StreamsInit == Init => StreamsInv
<1> SUFFICES ASSUME Init PROVE StreamsInv
  OBVIOUS
<1>1. StreamsType
  BY DEF Init, StreamsType, StreamType, BlockType, ClearStream, Pbms
<1>2. PreparedInv /\ ProcInv /\ AttachedInv /\ OneUser
  BY DEF Init, PreparedInv, ProcInv, AttachedInv, OneUser, ClearStream, Mode
<1> QED
  BY <1>1, <1>2 DEF StreamsInv

(* When no stream is attached, a set-up of the whole card needs only to leave
   the streams it prepares as they are to be attached. *)
LEMMA SetUp ==
  ASSUME StreamsInv, CardIdle, StreamsType', PreparedInv', ProcInv',
         \A h \in Handles, s \in Streams :
           /\ stream'[h][s].attached = stream[h][s].attached
           /\ stream'[h][s].started = stream[h][s].started
  PROVE  StreamsInv'
<1>1. \A h \in Handles, s \in Streams : ~stream'[h][s].attached /\ ~stream'[h][s].started
  BY DEF StreamsInv, AttachedInv, CardIdle
<1>2. AttachedInv' /\ OneUser'
  BY <1>1 DEF AttachedInv, OneUser
<1> QED
  BY <1>2 DEF StreamsInv

-----------------------------------------------------------------------------
(* The record of a stream, as a pbm of z bytes at number b leaves it. *)
Holds(new, old, b, z) ==
  /\ new \in StreamType
  /\ new.pbm = "live" /\ new.at = b /\ new.size = z
  /\ new.attached = old.attached /\ new.started = old.started

(* What allocating a pbm leaves of the record of a stream. *)
LEMMA AllocatedFacts ==
  ASSUME NEW h, NEW s, NEW b \in Streams, NEW z \in Nat,
         stream[h][s] \in StreamType
  PROVE  Holds(Allocated(h, s, b, z), stream[h][s], b, z)
<1> DEFINE r == stream[h][s]
<1>1. r \in StreamType
  OBVIOUS
<1> HIDE DEF r
<1>2. Holds([r EXCEPT !.pbm = "live", !.at = b, !.size = z], r, b, z)
  BY <1>1 DEF Holds, StreamType, Pbms
<1> QED
  BY <1>2 DEF Allocated, r

(* What writing the addresses and addr_load leave in a block of registers. *)
LEMMA LoadedFacts ==
  ASSUME NEW b \in Streams, NEW lo \in Nat, NEW z \in Nat, block[b] \in BlockType
  PROVE  LET k == Loaded(b, lo, z) IN
         /\ k \in BlockType
         /\ k.lo = lo /\ k.hi = lo + z /\ k.loaded = lo /\ k.paused
         /\ k.limit = block[b].limit
<1>1. ASSUME NEW r \in BlockType, NEW hi \in Nat
      PROVE  LET k == [r EXCEPT !.lo = lo, !.hi = hi, !.loaded = lo, !.paused = TRUE] IN
             /\ k \in BlockType
             /\ k.lo = lo /\ k.hi = hi /\ k.loaded = lo /\ k.paused
             /\ k.limit = r.limit
  BY DEF BlockType
<1>2. lo + z \in Nat
  OBVIOUS
<1> QED
  BY <1>1, <1>2 DEF Loaded

(* The flow table's block. *)
LEMMA RftLoadedFacts ==
  ASSUME NEW lo \in Nat, block[Rft] \in BlockType
  PROVE  RftLoaded(lo) \in BlockType
<1>1. block[Rft].lo \in Nat \cup {None} /\ lo + Table \in Nat
  BY MemoryAssumption DEF BlockType
<1> QED
  BY <1>1 DEF RftLoaded, BlockType

-----------------------------------------------------------------------------
(* The calls that set up the whole card. *)
LEMMA MsuConfigureKeeps ==
  ASSUME StreamsInv, NEW h \in Handles, NEW n \in Counts, NEW done \in 0 .. n + 1,
         MsuConfigure(h, n, done)
  PROVE  StreamsInv'
<1> DEFINE z == StreamSize(n)
           set == 0 .. (IF done < n THEN done ELSE n) - 1
           all == done = n + 1
<1>0. StreamsType /\ CardIdle
  BY DEF StreamsInv, MsuConfigure
<1>1. /\ n \in 1 .. N /\ set \subseteq 0 .. n - 1 /\ set \subseteq Rx
      /\ n \in Streams /\ Rft \in Streams /\ n \notin set /\ Rft \notin set
      /\ ~all => done \notin set
  BY MemoryAssumption, ProgramAssumption DEF Rx, Streams, Rft
<1>2. z \in Nat /\ n * z \in Nat
  BY <1>1, SizesNat
<1>3. /\ stream' = [stream EXCEPT ![h] = [s \in Streams |->
                      CASE s \in set -> Allocated(h, s, s, z)
                        [] s = n /\ all -> Allocated(h, s, Rft, Table)
                        [] s = done /\ ~all -> [@[s] EXCEPT !.pbm = "null"]
                        [] OTHER -> @[s]]]
      /\ block' = [b \in Streams |->
                     CASE b \in set -> Loaded(b, b * z, z)
                       [] b = Rft /\ all -> RftLoaded(n * z)
                       [] OTHER -> block[b]]
      /\ configured' = [x \in Handles |-> IF x = h /\ all THEN set ELSE {}]
      /\ division' = <<"msu", n>>
      /\ orphans' = IF all THEN {} ELSE orphans
  BY DEF MsuConfigure, Configured
<1> HIDE DEF z, set, all
<1>4. /\ Mode' = "msu" /\ Size' = z
  BY <1>3 DEF Mode, Size, z
<1>5. \A b \in set : b \in Nat /\ b * z \in Nat /\ b \in Streams
  <2>1. \A b \in set : b \in Nat /\ b \in Streams
    BY <1>1, MemoryAssumption DEF Rx, Streams
  <2> QED
    BY <2>1, <1>2
<1>6. ASSUME NEW s \in Streams
      PROVE  /\ stream'[h][s] \in StreamType
             /\ stream'[h][s].attached = stream[h][s].attached
             /\ stream'[h][s].started = stream[h][s].started
             /\ s \in set => /\ stream'[h][s].pbm = "live" /\ stream'[h][s].at = s
                             /\ stream'[h][s].size = z
  <2>1. stream[h][s] \in StreamType
    BY <1>0 DEF StreamsType
  <2>2. stream'[h][s] =
          CASE s \in set -> Allocated(h, s, s, z)
            [] s = n /\ all -> Allocated(h, s, Rft, Table)
            [] s = done /\ ~all -> [stream[h][s] EXCEPT !.pbm = "null"]
            [] OTHER -> stream[h][s]
    BY <1>0, <1>3 DEF StreamsType
  <2>3. CASE s \in set
    <3>1. stream'[h][s] = Allocated(h, s, s, z)
      BY <2>2, <2>3, <1>1
    <3>2. z \in Nat
      BY <1>2
    <3>3. Holds(stream'[h][s], stream[h][s], s, z)
      BY <2>1, <3>1, <3>2, AllocatedFacts, Zenon
    <3> QED
      BY <3>3 DEF Holds
  <2>4. CASE s \notin set /\ s = n /\ all
    <3>1. stream'[h][s] = Allocated(h, s, Rft, Table)
      BY <2>2, <2>4, <1>1
    <3>2. Rft \in Streams /\ Table \in Nat
      BY MemoryAssumption DEF Rft, Streams
    <3>3. Holds(stream'[h][s], stream[h][s], Rft, Table)
      BY <2>1, <3>1, <3>2, AllocatedFacts, Zenon
    <3> QED
      BY <3>3, <2>4 DEF Holds
  <2>5. CASE s \notin set /\ s = done /\ ~all
    BY <2>1, <2>2, <2>5 DEF StreamType, Pbms
  <2>6. CASE s \notin set /\ ~(s = n /\ all) /\ ~(s = done /\ ~all)
    BY <2>1, <2>2, <2>6
  <2> QED
    BY <2>3, <2>4, <2>5, <2>6
<1>7. ASSUME NEW x \in Handles, x # h PROVE stream'[x] = stream[x]
  BY <1>0, <1>3, <1>7 DEF StreamsType
<1>8. ASSUME NEW b \in Streams
      PROVE  /\ block'[b] \in BlockType
             /\ b \in set => /\ block'[b].lo = b * z /\ block'[b].hi = b * z + z
                             /\ block'[b].loaded = b * z
  <2>1. block[b] \in BlockType /\ block[Rft] \in BlockType
    BY <1>0, <1>1 DEF StreamsType
  <2>2. block'[b] =
          CASE b \in set -> Loaded(b, b * z, z)
            [] b = Rft /\ all -> RftLoaded(n * z)
            [] OTHER -> block[b]
    BY <1>3
  <2>3. CASE b \in set
    <3> DEFINE lo == b * z
    <3>1. block'[b] = Loaded(b, lo, z)
      BY <2>2, <2>3, <1>1
    <3>2. lo \in Nat
      BY <2>3, <1>5
    <3> HIDE DEF lo
    <3>3. LET k == Loaded(b, lo, z) IN
          k \in BlockType /\ k.lo = lo /\ k.hi = lo + z /\ k.loaded = lo
      BY <3>2, <2>1, <1>2, LoadedFacts
    <3> QED
      BY <3>1, <3>3 DEF lo
  <2>4. CASE b \notin set /\ b = Rft /\ all
    <3>1. block'[b] = RftLoaded(n * z)
      BY <2>2, <2>4, <1>1
    <3> QED
      BY <3>1, <2>1, <2>4, <1>2, RftLoadedFacts
  <2>5. CASE b \notin set /\ ~(b = Rft /\ all)
    BY <2>1, <2>2, <2>5
  <2> QED
    BY <2>3, <2>4, <2>5
<1>9. StreamsType'
  <2>1. stream' \in [Handles -> [Streams -> StreamType]]
    <3>1. stream'[h] \in [Streams -> StreamType]
      <4>1. DOMAIN stream'[h] = Streams /\ stream'[h] = [s \in Streams |-> stream'[h][s]]
        BY <1>0, <1>3 DEF StreamsType
      <4> QED
        BY <4>1, <1>6
    <3> QED
      BY <3>1, <1>0, <1>3 DEF StreamsType
  <2>2. block' \in [Streams -> BlockType]
    <3>1. block' = [b \in Streams |-> block'[b]]
      BY <1>3
    <3> QED
      BY <3>1, <1>8
  <2>3. configured' \in [Handles -> SUBSET (Rx \cup Tx)]
    BY <1>1, <1>3
  <2> QED
    BY <2>1, <2>2, <2>3, <1>0, <1>3 DEF StreamsType
<1>10. PreparedInv'
  <2> SUFFICES ASSUME NEW x \in Handles, NEW s \in Rx \cup Tx, s \in configured'[x]
               PROVE  /\ stream'[x][s].pbm = "live" /\ stream'[x][s].at = s
                      /\ stream'[x][s].size = z
                      /\ s \in Rx
                      /\ Divided(s)'
    BY <1>4, MemoryAssumption DEF PreparedInv, Tx, Rx
  <2>1. x = h /\ s \in set /\ s \in Streams
    BY <1>3, <1>5
  <2> QED
    BY <2>1, <1>1, <1>4, <1>6, <1>8 DEF Divided
<1>11. ProcInv'
  BY <1>4 DEF ProcInv
<1> QED
  BY <1>0, <1>6, <1>7, <1>9, <1>10, <1>11, SetUp

(* nac_inline_msu_configure prepares as many transmit as receive streams, in
   memory of their own or, in overlap mode, in that of the receive streams. *)
LEMMA InlineConfigureKeeps ==
  ASSUME StreamsInv, NEW h \in Handles, NEW n \in Counts,
         NEW mode \in {"copy", "overlap"}, InlineConfigure(h, n, mode)
  PROVE  StreamsInv'
<1> DEFINE z == InlineSize(mode)
           rx == 0 .. n - 1
           tx == N .. N + n - 1
<1>0. StreamsType /\ CardIdle
  BY DEF StreamsInv, InlineConfigure
<1>1. /\ n \in 1 .. N /\ rx \subseteq Rx /\ tx \subseteq Tx
      /\ \A s \in Rx \cup Tx : s \in Nat /\ s \in Streams /\ ~(s \in Rx /\ s \in Tx)
      /\ \A s \in tx : s - N \in Nat
  BY MemoryAssumption, ProgramAssumption DEF Rx, Tx, Streams
<1>2. z \in Nat
  BY SizesNat
<1>3. /\ stream' = [stream EXCEPT ![h] = [s \in Streams |->
                      IF s \in rx \cup tx THEN Allocated(h, s, s, z) ELSE @[s]]]
      /\ block' = [b \in Streams |->
                     CASE b \in rx -> Loaded(b, b * z, z)
                       [] b \in tx /\ mode = "copy" -> Loaded(b, b * z, z)
                       [] b \in tx /\ mode = "overlap" ->
                            [Loaded(b, (b - N) * z, z) EXCEPT !.hi = block[b].hi]
                       [] OTHER -> block[b]]
      /\ configured' = [x \in Handles |-> IF x = h THEN rx \cup tx ELSE {}]
      /\ division' = <<mode, n>>
      /\ orphans' = {}
  BY DEF InlineConfigure, Configured
<1>4. Mode' = mode /\ Size' = z
  BY <1>3 DEF Mode, Size
<1> HIDE DEF z, rx, tx
<1>5. ASSUME NEW s \in Streams
      PROVE  /\ stream'[h][s] \in StreamType
             /\ stream'[h][s].attached = stream[h][s].attached
             /\ stream'[h][s].started = stream[h][s].started
             /\ s \in rx \cup tx => /\ stream'[h][s].pbm = "live" /\ stream'[h][s].at = s
                                    /\ stream'[h][s].size = z
  <2>1. stream[h][s] \in StreamType
    BY <1>0 DEF StreamsType
  <2>2. stream'[h][s] = IF s \in rx \cup tx THEN Allocated(h, s, s, z) ELSE stream[h][s]
    BY <1>0, <1>3 DEF StreamsType
  <2>3. CASE s \in rx \cup tx
    <3>1. stream'[h][s] = Allocated(h, s, s, z) /\ z \in Nat
      BY <2>2, <2>3, <1>2
    <3>2. Holds(stream'[h][s], stream[h][s], s, z)
      BY <2>1, <3>1, AllocatedFacts, Zenon
    <3> QED
      BY <3>2 DEF Holds
  <2>4. CASE s \notin rx \cup tx
    BY <2>1, <2>2, <2>4
  <2> QED
    BY <2>3, <2>4
<1>6. ASSUME NEW x \in Handles, x # h PROVE stream'[x] = stream[x]
  BY <1>0, <1>3, <1>6 DEF StreamsType
<1>7. ASSUME NEW b \in Streams
      PROVE  /\ block'[b] \in BlockType
             /\ b \in rx \cup tx /\ (b \in rx \/ mode = "copy") =>
                  /\ block'[b].lo = b * z /\ block'[b].hi = b * z + z
                  /\ block'[b].loaded = b * z
  <2>1. block[b] \in BlockType
    BY <1>0 DEF StreamsType
  <2>2. block'[b] =
          CASE b \in rx -> Loaded(b, b * z, z)
            [] b \in tx /\ mode = "copy" -> Loaded(b, b * z, z)
            [] b \in tx /\ mode = "overlap" ->
                 [Loaded(b, (b - N) * z, z) EXCEPT !.hi = block[b].hi]
            [] OTHER -> block[b]
    BY <1>3
  <2>3. ~(b \in rx /\ b \in tx)
    BY <1>1
  <2>4. CASE b \in rx \/ (b \in tx /\ mode = "copy")
    <3> DEFINE lo == b * z
    <3>1. block'[b] = Loaded(b, lo, z)
      BY <2>2, <2>3, <2>4
    <3>2. lo \in Nat
      BY <2>4, <1>1, <1>2
    <3> HIDE DEF lo
    <3>3. LET k == Loaded(b, lo, z) IN
          k \in BlockType /\ k.lo = lo /\ k.hi = lo + z /\ k.loaded = lo
      BY <3>2, <2>1, <1>2, LoadedFacts
    <3> QED
      BY <3>1, <3>3 DEF lo
  <2>5. CASE b \in tx /\ mode = "overlap"
    <3> DEFINE lo == (b - N) * z
    <3>1. block'[b] = [Loaded(b, lo, z) EXCEPT !.hi = block[b].hi]
      BY <2>2, <2>3, <2>5
    <3>2. lo \in Nat
      BY <2>5, <1>1, <1>2
    <3> HIDE DEF lo
    <3>3. Loaded(b, lo, z) \in BlockType /\ block[b].hi \in Nat \cup {None}
      BY <3>2, <2>1, <1>2, LoadedFacts DEF BlockType
    <3>4. \A r \in BlockType, v \in Nat \cup {None} : [r EXCEPT !.hi = v] \in BlockType
      BY DEF BlockType
    <3> QED
      BY <3>1, <3>3, <3>4, <2>3, <2>5
  <2>6. CASE b \notin rx \cup tx
    BY <2>1, <2>2, <2>6
  <2> QED
    BY <2>4, <2>5, <2>6
<1>8. StreamsType'
  <2>1. stream' \in [Handles -> [Streams -> StreamType]]
    <3>1. stream'[h] \in [Streams -> StreamType]
      <4>1. DOMAIN stream'[h] = Streams /\ stream'[h] = [s \in Streams |-> stream'[h][s]]
        BY <1>0, <1>3 DEF StreamsType
      <4> QED
        BY <4>1, <1>5
    <3> QED
      BY <3>1, <1>0, <1>3 DEF StreamsType
  <2>2. block' \in [Streams -> BlockType]
    <3>1. block' = [b \in Streams |-> block'[b]]
      BY <1>3
    <3> QED
      BY <3>1, <1>7
  <2>3. configured' \in [Handles -> SUBSET (Rx \cup Tx)]
    BY <1>1, <1>3
  <2> QED
    BY <2>1, <2>2, <2>3, <1>0, <1>3 DEF StreamsType
<1>9. PreparedInv'
  <2> SUFFICES ASSUME NEW x \in Handles, NEW s \in Rx \cup Tx, s \in configured'[x]
               PROVE  /\ stream'[x][s].pbm = "live" /\ stream'[x][s].at = s
                      /\ stream'[x][s].size = z
                      /\ Exact(s)' => Divided(s)'
    BY <1>4 DEF PreparedInv
  <2>1. x = h /\ s \in rx \cup tx /\ s \in Streams
    BY <1>1, <1>3
  <2>2. ASSUME Exact(s)' PROVE s \in rx \/ mode = "copy"
    BY <2>1, <2>2, <1>1, <1>4 DEF Exact
  <2> QED
    BY <2>1, <2>2, <1>4, <1>5, <1>7 DEF Divided
<1>10. ProcInv'
  BY <1>4 DEF ProcInv
<1> QED
  BY <1>0, <1>5, <1>6, <1>8, <1>9, <1>10, SetUp

(* nac_proc_init writes the registers only; what was prepared before is not used
   any more. *)
LEMMA ProcInitKeeps ==
  ASSUME StreamsInv, NEW h \in Handles, NEW n \in Counts, ProcInit(h, n)
  PROVE  StreamsInv'
<1> DEFINE z == StreamSize(n)
           set == 0 .. n - 1
<1>0. StreamsType /\ CardIdle
  BY DEF StreamsInv, ProcInit
<1>1. n \in 1 .. N /\ set \subseteq Streams /\ Rft \in Streams /\ Rft \notin set
  BY MemoryAssumption, ProgramAssumption DEF Streams, Rft
<1>2. z \in Nat /\ N * z \in Nat
  BY <1>1, SizesNat, MemoryAssumption
<1>3. /\ stream' = stream
      /\ block' = [b \in Streams |->
                     CASE b \in set -> Loaded(b, b * z, z)
                       [] b = Rft -> RftLoaded(N * z)
                       [] OTHER -> block[b]]
      /\ configured' = [x \in Handles |-> {}]
      /\ division' = <<"proc", n>>
      /\ orphans' = {}
  BY DEF ProcInit, Configured
<1>4. Mode' = "proc" /\ Size' = z /\ division'[2] = n
  BY <1>3 DEF Mode, Size
<1>5. \A b \in set : b \in Nat /\ b * z \in Nat
  BY <1>2
<1> HIDE DEF z, set
<1>7. ASSUME NEW b \in Streams
      PROVE  /\ block'[b] \in BlockType
             /\ b \in set => /\ block'[b].lo = b * z /\ block'[b].hi = b * z + z
                             /\ block'[b].loaded = b * z
  <2>1. block[b] \in BlockType /\ block[Rft] \in BlockType
    BY <1>0, <1>1 DEF StreamsType
  <2>2. block'[b] =
          CASE b \in set -> Loaded(b, b * z, z)
            [] b = Rft -> RftLoaded(N * z)
            [] OTHER -> block[b]
    BY <1>3
  <2>3. CASE b \in set
    <3> DEFINE lo == b * z
    <3>1. block'[b] = Loaded(b, lo, z)
      BY <2>2, <2>3, <1>1
    <3>2. lo \in Nat
      BY <2>3, <1>5
    <3> HIDE DEF lo
    <3>3. LET k == Loaded(b, lo, z) IN
          k \in BlockType /\ k.lo = lo /\ k.hi = lo + z /\ k.loaded = lo
      BY <3>2, <2>1, <1>2, LoadedFacts
    <3> QED
      BY <3>1, <3>3 DEF lo
  <2>4. CASE b \notin set /\ b = Rft
    <3>1. block'[b] = RftLoaded(N * z)
      BY <2>2, <2>4, <1>1
    <3> QED
      BY <3>1, <2>1, <2>4, <1>2, RftLoadedFacts
  <2>5. CASE b \notin set /\ b # Rft
    BY <2>1, <2>2, <2>5
  <2> QED
    BY <2>3, <2>4, <2>5
<1>8. StreamsType'
  <2>1. block' \in [Streams -> BlockType]
    <3>1. block' = [b \in Streams |-> block'[b]]
      BY <1>3
    <3> QED
      BY <3>1, <1>7
  <2> QED
    BY <2>1, <1>0, <1>3 DEF StreamsType
<1>9. PreparedInv'
  BY <1>3 DEF PreparedInv
<1>10. ProcInv'
  BY <1>1, <1>4, <1>7 DEF ProcInv, Divided, set
<1> QED
  BY <1>0, <1>3, <1>8, <1>9, <1>10, SetUp

-----------------------------------------------------------------------------
(* The calls on one stream.  They touch the block of their stream and no other,
   so it is enough that nobody else uses it. *)
LEMMA ProcConfigKeeps ==
  ASSUME StreamsInv, NEW h \in Handles, NEW s \in Rx, NEW n \in Counts,
         ProcConfig(h, s, n)
  PROVE  StreamsInv'
<1> DEFINE z == StreamSize(n)
<1>0. StreamsType /\ PreparedInv /\ ProcInv /\ AttachedInv /\ OneUser
  BY DEF StreamsInv
<1>1. /\ division = <<"proc", n>> /\ s < n
      /\ \A x \in Handles : s \notin configured[x]
      /\ stream' = [stream EXCEPT ![h][s] = Allocated(h, s, s, z)]
      /\ block' = [block EXCEPT ![s].loaded = block[s].lo, ![s].paused = TRUE]
      /\ configured' = [configured EXCEPT ![h] = @ \cup {s}]
      /\ UNCHANGED <<division, orphans>>
  BY DEF ProcConfig
<1>2. /\ Mode = "proc" /\ Size = z /\ division[2] = n
      /\ Mode' = Mode /\ Size' = Size
  BY <1>1 DEF Mode, Size
<1>3. z \in Nat /\ s \in Streams /\ s \in 0 .. n - 1 /\ s \in Nat
  BY <1>1, SizesNat, MemoryAssumption, ProgramAssumption DEF Rx, Streams
<1>4. Divided(s)
  BY <1>0, <1>2, <1>3 DEF ProcInv
<1> HIDE DEF z
<1>5. /\ stream'[h][s] \in StreamType
      /\ stream'[h][s].pbm = "live" /\ stream'[h][s].at = s /\ stream'[h][s].size = z
      /\ stream'[h][s].attached = stream[h][s].attached
      /\ stream'[h][s].started = stream[h][s].started
  <2>1. stream[h][s] \in StreamType
    BY <1>0, <1>3 DEF StreamsType
  <2>2. stream'[h][s] = Allocated(h, s, s, z)
    BY <1>0, <1>1, <1>3 DEF StreamsType
  <2>3. z \in Nat /\ s \in Streams
    BY <1>3
  <2>4. Holds(stream'[h][s], stream[h][s], s, z)
    BY <2>1, <2>2, <2>3, AllocatedFacts, Zenon
  <2> QED
    BY <2>4 DEF Holds
<1>6. ASSUME NEW x \in Handles, NEW t \in Streams, x # h \/ t # s
      PROVE  stream'[x][t] = stream[x][t]
  BY <1>0, <1>1, <1>6 DEF StreamsType
<1>7. /\ block'[s] \in BlockType
      /\ block'[s].lo = block[s].lo /\ block'[s].hi = block[s].hi
      /\ block'[s].loaded = block[s].lo
  <2>1. block[s] \in BlockType
    BY <1>0, <1>3 DEF StreamsType
  <2>2. block'[s] = [block[s] EXCEPT !.loaded = block[s].lo, !.paused = TRUE]
    BY <1>0, <1>1, <1>3 DEF StreamsType
  <2> QED
    BY <2>1, <2>2 DEF BlockType
<1>8. ASSUME NEW b \in Streams, b # s PROVE block'[b] = block[b]
  BY <1>0, <1>1, <1>8 DEF StreamsType
<1>9. StreamsType'
  <2>1. stream' \in [Handles -> [Streams -> StreamType]]
    BY <1>0, <1>1, <1>3, <1>5 DEF StreamsType
  <2>2. block' \in [Streams -> BlockType]
    BY <1>0, <1>1, <1>7, <1>8 DEF StreamsType
  <2>3. configured' \in [Handles -> SUBSET (Rx \cup Tx)]
    BY <1>0, <1>1 DEF StreamsType
  <2> QED
    BY <2>1, <2>2, <2>3, <1>0, <1>1 DEF StreamsType
<1>10. \A b \in Streams : Divided(b) => Divided(b)'
  BY <1>2, <1>4, <1>7, <1>8 DEF Divided
<1>11. \A t \in Rx \cup Tx : t \in Streams /\ (Exact(t)' <=> Exact(t))
  BY <1>2, MemoryAssumption DEF Rx, Tx, Streams, Exact
<1>12. PreparedInv'
  <2> SUFFICES ASSUME NEW x \in Handles, NEW t \in Rx \cup Tx, t \in configured'[x]
               PROVE  /\ stream'[x][t].pbm = "live" /\ stream'[x][t].at = t
                      /\ stream'[x][t].size = Size
                      /\ t \in Tx => Mode \in {"copy", "overlap"}
                      /\ Exact(t) => Divided(t)'
    BY <1>2, <1>11 DEF PreparedInv
  <2>1. CASE x = h /\ t = s
    <3>1. t \notin Tx
      BY <2>1, MemoryAssumption DEF Rx, Tx
    <3> QED
      BY <2>1, <3>1, <1>2, <1>3, <1>4, <1>5, <1>10
  <2>2. CASE x # h \/ t # s
    <3>1. t \in configured[x]
      BY <2>2, <1>0, <1>1 DEF StreamsType
    <3> QED
      BY <2>2, <3>1, <1>0, <1>6, <1>10, <1>11 DEF PreparedInv
  <2> QED
    BY <2>1, <2>2
<1>13. ProcInv'
  BY <1>0, <1>2, <1>3, <1>10, <1>1, MemoryAssumption, ProgramAssumption
     DEF ProcInv, Streams
<1>14. ASSUME NEW x \in Handles PROVE ~stream[x][s].attached /\ ~stream[x][s].started
  BY <1>0, <1>1, <1>3 DEF AttachedInv
<1>15. AttachedInv' /\ OneUser'
  <2>1. ASSUME NEW x \in Handles
        PROVE  ~stream'[x][s].attached /\ ~stream'[x][s].started
    BY <1>3, <1>5, <1>6, <1>14
  <2>2. ASSUME NEW x \in Handles, NEW t \in Streams, t # s
        PROVE  /\ stream'[x][t] = stream[x][t] /\ block'[t] = block[t]
               /\ t \in configured[x] => t \in configured'[x]
    BY <1>0, <1>1, <1>6, <1>8, <2>2 DEF StreamsType
  <2>3. \A t \in Streams : Exact(t)' <=> Exact(t)
    BY <1>2 DEF Exact
  <2>4. AttachedInv'
    BY <2>1, <2>2, <2>3, <1>0, <1>2 DEF AttachedInv
  <2>5. OneUser'
    BY <2>1, <2>2, <1>0 DEF OneUser
  <2> QED
    BY <2>4, <2>5
<1> QED
  BY <1>9, <1>12, <1>13, <1>15 DEF StreamsInv

(* A call that changes the record r of one stream, the limit and the pause bit
   of its block k, and nothing of any other stream. *)
LEMMA OneStream ==
  ASSUME StreamsInv, NEW h \in Handles, NEW s \in Rx \cup Tx,
         NEW r \in StreamType, NEW k \in BlockType,
         s \in configured[h], UNCHANGED <<division, orphans>>,
         \/ UNCHANGED configured
         \/ configured' = [configured EXCEPT ![h] = @ \ {s}],
         stream' = [stream EXCEPT ![h][s] = r],
         block' = [block EXCEPT ![s] = k],
         k.lo = block[s].lo, k.hi = block[s].hi, k.loaded = block[s].loaded,
         \A x \in Handles \ {h} : ~stream[x][s].attached,
         s \in configured'[h] => r.pbm = "live" /\ r.at = s /\ r.size = Size,
         r.started => r.attached,
         r.attached => /\ s \in configured'[h]
                       /\ Exact(s) => /\ r.mapped /\ r.phyaddr = s * Size
                                      /\ s * Size + Size <= Area,
         r.started /\ Exact(s) =>
           ~k.paused /\ k.limit = IF s \in Tx THEN s * Size ELSE s * Size + Size
  PROVE  StreamsInv'
<1>0. StreamsType /\ PreparedInv /\ ProcInv /\ AttachedInv /\ OneUser
  BY DEF StreamsInv
<1>1. s \in Streams
  BY MemoryAssumption DEF Rx, Tx, Streams
<1>2. Mode' = Mode /\ Size' = Size /\ (\A t : Exact(t)' <=> Exact(t))
  BY DEF Mode, Size, Exact
<1>3. stream'[h][s] = r /\ block'[s] = k
  BY <1>0, <1>1 DEF StreamsType
<1>4. ASSUME NEW x \in Handles, NEW t \in Streams, x # h \/ t # s
      PROVE  stream'[x][t] = stream[x][t]
  BY <1>0, <1>4 DEF StreamsType
<1>5. ASSUME NEW b \in Streams, b # s PROVE block'[b] = block[b]
  BY <1>0, <1>5 DEF StreamsType
<1>6. ASSUME NEW x \in Handles, NEW t, x # h \/ t # s
      PROVE  t \in configured'[x] <=> t \in configured[x]
  BY <1>0, <1>6 DEF StreamsType
<1>7. StreamsType'
  <2>1. stream' \in [Handles -> [Streams -> StreamType]]
    BY <1>0, <1>1 DEF StreamsType
  <2>2. block' \in [Streams -> BlockType]
    BY <1>0, <1>1 DEF StreamsType
  <2>3. configured' \in [Handles -> SUBSET (Rx \cup Tx)]
    BY <1>0 DEF StreamsType
  <2> QED
    BY <2>1, <2>2, <2>3, <1>0 DEF StreamsType
<1>8. \A b \in Streams : Divided(b) => Divided(b)'
  BY <1>2, <1>3, <1>5 DEF Divided
<1>9. PreparedInv'
  <2> SUFFICES ASSUME NEW x \in Handles, NEW t \in Rx \cup Tx, t \in configured'[x]
               PROVE  /\ stream'[x][t].pbm = "live" /\ stream'[x][t].at = t
                      /\ stream'[x][t].size = Size
                      /\ t \in Tx => Mode \in {"copy", "overlap"}
                      /\ Exact(t) => Divided(t)'
    BY <1>2 DEF PreparedInv
  <2>0. t \in Streams
    BY MemoryAssumption DEF Rx, Tx, Streams
  <2>1. CASE x = h /\ t = s
    BY <2>1, <1>0, <1>1, <1>3, <1>8 DEF PreparedInv
  <2>2. CASE x # h \/ t # s
    BY <2>0, <2>2, <1>0, <1>4, <1>6, <1>8 DEF PreparedInv
  <2> QED
    BY <2>1, <2>2
<1>10. ProcInv'
  <2> SUFFICES ASSUME Mode = "proc", NEW b \in 0 .. division[2] - 1
               PROVE  Divided(b)'
    BY <1>2 DEF ProcInv
  <2>1. PICK n \in Counts : division = <<"proc", n>>
    BY <1>0 DEF StreamsType, Mode
  <2>2. b \in Streams
    BY <2>1, MemoryAssumption, ProgramAssumption DEF Streams
  <2> QED
    BY <2>2, <1>0, <1>8 DEF ProcInv
<1>11. AttachedInv'
  <2> SUFFICES ASSUME NEW x \in Handles, NEW t \in Streams
               PROVE  /\ stream'[x][t].started => stream'[x][t].attached
                      /\ stream'[x][t].attached =>
                           /\ t \in configured'[x]
                           /\ Exact(t) => /\ stream'[x][t].mapped
                                          /\ stream'[x][t].phyaddr = t * Size
                                          /\ t * Size + Size <= Area
                      /\ stream'[x][t].started /\ Exact(t) =>
                           /\ ~block'[t].paused
                           /\ block'[t].limit = IF t \in Tx THEN t * Size ELSE t * Size + Size
    BY <1>2 DEF AttachedInv
  <2>1. CASE x = h /\ t = s
    BY <2>1, <1>3
  <2>2. CASE x # h /\ t = s
    BY <2>2, <1>0, <1>4 DEF AttachedInv
  <2>3. CASE t # s
    BY <2>3, <1>0, <1>4, <1>5, <1>6 DEF AttachedInv
  <2> QED
    BY <2>1, <2>2, <2>3
<1>12. OneUser'
  <2> SUFFICES ASSUME NEW x \in Handles, NEW g \in Handles, NEW t \in Streams,
                      stream'[x][t].attached, stream'[g][t].attached
               PROVE  x = g
    BY DEF OneUser
  <2>1. CASE t = s
    BY <2>1, <1>4
  <2>2. CASE t # s
    BY <2>2, <1>0, <1>4 DEF OneUser
  <2> QED
    BY <2>1, <2>2
<1> QED
  BY <1>7, <1>9, <1>10, <1>11, <1>12 DEF StreamsInv

(* What is known of a stream that is prepared, and of one that is attached. *)
LEMMA StreamFacts ==
  ASSUME StreamsInv, NEW h \in Handles, NEW s \in Rx \cup Tx
  PROVE  /\ s \in Streams /\ s \in Nat
         /\ stream[h][s] \in StreamType /\ block[s] \in BlockType
         /\ block = [block EXCEPT ![s] = block[s]]
         /\ s \in configured[h] =>
              /\ stream[h][s].pbm = "live" /\ stream[h][s].at = s
              /\ stream[h][s].size = Size /\ Size \in Nat
              /\ s \in Tx => Mode \in {"copy", "overlap"}
         /\ stream[h][s].attached =>
              /\ s \in configured[h]
              /\ \A x \in Handles \ {h} : ~stream[x][s].attached
         /\ stream[h][s].attached /\ Exact(s) =>
              /\ stream[h][s].mapped /\ stream[h][s].phyaddr = s * Size
              /\ s * Size + Size <= Area
<1>0. StreamsType /\ PreparedInv /\ AttachedInv /\ OneUser
  BY DEF StreamsInv
<1>1. s \in Streams /\ s \in Nat
  BY MemoryAssumption DEF Rx, Tx, Streams
<1>2. stream[h][s] \in StreamType /\ block[s] \in BlockType
  BY <1>0, <1>1 DEF StreamsType
<1>3. block = [block EXCEPT ![s] = block[s]]
  BY <1>0, <1>1 DEF StreamsType
<1>4. stream[h][s].size \in Nat
  BY <1>2 DEF StreamType
<1>5. s \in configured[h] =>
        /\ stream[h][s].pbm = "live" /\ stream[h][s].at = s
        /\ stream[h][s].size = Size /\ Size \in Nat
        /\ s \in Tx => Mode \in {"copy", "overlap"}
  BY <1>0, <1>4 DEF PreparedInv
<1>6. stream[h][s].attached =>
        /\ s \in configured[h]
        /\ \A x \in Handles \ {h} : ~stream[x][s].attached
  BY <1>0, <1>1 DEF AttachedInv, OneUser
<1>7. stream[h][s].attached /\ Exact(s) =>
        /\ stream[h][s].mapped /\ stream[h][s].phyaddr = s * Size
        /\ s * Size + Size <= Area
  BY <1>0, <1>1 DEF AttachedInv
<1> QED
  BY <1>1, <1>2, <1>3, <1>5, <1>6, <1>7

(* nac_attach_stream maps the part of the memory the set-up gave the stream. *)
LEMMA AttachKeeps ==
  ASSUME StreamsInv, NEW h \in Handles, NEW s \in Rx \cup Tx, MayAttach(h, s),
         Mappable(h, s), stream' = [stream EXCEPT ![h][s] = AtStart(h, s)],
         UNCHANGED <<configured, block, division, orphans>>
  PROVE  StreamsInv'
<1> DEFINE st == stream[h][s]
           lo == s * st.size
           r == AtStart(h, s)
<1>1. s \in configured[h] /\ (\A x \in Handles \ {h} : ~stream[x][s].attached)
  BY DEF MayAttach
<1>2. /\ st \in StreamType /\ block[s] \in BlockType
      /\ block = [block EXCEPT ![s] = block[s]]
      /\ st.pbm = "live" /\ st.at = s /\ st.size = Size /\ Size \in Nat /\ s \in Nat
  BY <1>1, StreamFacts
<1>3. lo \in Nat
  <2>1. \A a \in Nat, b \in Nat : a * b \in Nat
    OBVIOUS
  <2> QED
    BY <1>2, <2>1
<1>4. lo = s * Size /\ s * Size + Size <= Area
  <2>1. (s + 1) * Size <= Area
    BY <1>2 DEF Mappable
  <2>2. \A a \in Nat, b \in Nat : (a + 1) * b = a * b + b
    OBVIOUS
  <2> QED
    BY <2>1, <2>2, <1>2
<1>5. r = [st EXCEPT !.phyaddr = lo, !.mapped = TRUE, !.attached = TRUE, !.started = FALSE]
  BY DEF AtStart
<1> HIDE DEF st, lo, r
<1>6. /\ r \in StreamType /\ r.pbm = st.pbm /\ r.at = st.at /\ r.size = st.size
      /\ r.phyaddr = lo /\ r.mapped /\ ~r.started
  BY <1>2, <1>3, <1>5 DEF StreamType
<1> QED
  BY <1>1, <1>2, <1>4, <1>6, OneStream DEF r

(* In overlap mode nac_tx_attach_stream maps nothing and leaves the address of
   the stream as it was. *)
LEMMA OverlapAttachKeeps ==
  ASSUME StreamsInv, NEW h \in Handles, NEW s \in Tx, MayAttach(h, s), Mode = "overlap",
         stream' = [stream EXCEPT ![h][s] = [@ EXCEPT !.attached = TRUE, !.started = FALSE]],
         UNCHANGED <<configured, block, division, orphans>>
  PROVE  StreamsInv'
<1> DEFINE st == stream[h][s]
           r == [st EXCEPT !.attached = TRUE, !.started = FALSE]
<1>1. s \in configured[h] /\ (\A x \in Handles \ {h} : ~stream[x][s].attached)
  BY DEF MayAttach
<1>2. /\ st \in StreamType /\ block[s] \in BlockType
      /\ block = [block EXCEPT ![s] = block[s]]
      /\ st.pbm = "live" /\ st.at = s /\ st.size = Size
  BY <1>1, StreamFacts
<1>3. ~Exact(s)
  BY MemoryAssumption DEF Exact, Rx, Tx
<1>4. stream' = [stream EXCEPT ![h][s] = r]
  <2>1. DOMAIN stream = Handles /\ DOMAIN stream[h] = Streams /\ s \in Streams
    BY StreamFacts DEF StreamsInv, StreamsType
  <2> QED
    BY <2>1
<1> HIDE DEF st
<1>5. r \in StreamType /\ r.pbm = st.pbm /\ r.at = st.at /\ r.size = st.size /\ ~r.started
  BY <1>2 DEF StreamType
<1> HIDE DEF r
<1> QED
  BY <1>1, <1>2, <1>3, <1>4, <1>5, OneStream

(* nac_start_stream lets the card run on what the handle has mapped. *)
LEMMA StartKeeps ==
  ASSUME StreamsInv, NEW h \in Handles, NEW s \in Rx \cup Tx, Start(h, s)
  PROVE  StreamsInv'
<1> DEFINE st == stream[h][s]
           limit == CASE st.phyaddr = None -> None
                      [] s \in Tx -> st.phyaddr
                      [] OTHER -> st.phyaddr + st.size
           r == [st EXCEPT !.started = TRUE]
           k == [block[s] EXCEPT !.limit = limit, !.paused = FALSE]
<1>1. /\ st.attached
      /\ block' = [block EXCEPT ![st.at].limit = limit, ![st.at].paused = FALSE]
      /\ stream' = [stream EXCEPT ![h][s].started = TRUE]
      /\ UNCHANGED <<configured, division, orphans>>
  BY DEF Start, Call
<1>2. /\ st \in StreamType /\ block[s] \in BlockType /\ s \in Streams /\ s \in Nat
      /\ s \in configured[h] /\ (\A x \in Handles \ {h} : ~stream[x][s].attached)
      /\ st.pbm = "live" /\ st.at = s /\ st.size = Size /\ Size \in Nat
      /\ Exact(s) => st.mapped /\ st.phyaddr = s * Size /\ s * Size + Size <= Area
  BY <1>1, StreamFacts
<1>3. stream' = [stream EXCEPT ![h][s] = r] /\ block' = [block EXCEPT ![s] = k]
  <2>1. DOMAIN stream = Handles /\ DOMAIN stream[h] = Streams /\ DOMAIN block = Streams
    BY DEF StreamsInv, StreamsType
  <2> QED
    BY <2>1, <1>1, <1>2
<1>4. /\ limit \in Nat \cup {None}
      /\ Exact(s) => limit = IF s \in Tx THEN s * Size ELSE s * Size + Size
  <2>1. st.phyaddr \in Nat \cup {None} /\ st.size \in Nat
    BY <1>2 DEF StreamType
  <2>2. limit \in Nat \cup {None}
    <3> HIDE DEF st
    <3> QED
      BY <2>1
  <2>3. ASSUME Exact(s) PROVE limit = IF s \in Tx THEN s * Size ELSE s * Size + Size
    <3>1. \A a \in Nat, b \in Nat : a * b \in Nat
      OBVIOUS
    <3>2. s * Size \in 0 .. Area
      BY <2>3, <3>1, <1>2, MemoryAssumption
    <3>3. s * Size # None
      BY <3>2, ProgramAssumption
    <3> QED
      BY <2>3, <3>3, <1>2
  <2> QED
    BY <2>2, <2>3
<1> HIDE DEF st, limit
<1>5. /\ r \in StreamType /\ r.pbm = st.pbm /\ r.at = st.at /\ r.size = st.size
      /\ r.phyaddr = st.phyaddr /\ r.mapped = st.mapped /\ r.attached = st.attached
  BY <1>2 DEF StreamType
<1>6. /\ k \in BlockType /\ k.lo = block[s].lo /\ k.hi = block[s].hi
      /\ k.loaded = block[s].loaded /\ ~k.paused /\ k.limit = limit
  BY <1>2, <1>4 DEF BlockType
<1> HIDE DEF r, k
<1>7. /\ s \in configured[h] /\ UNCHANGED configured /\ UNCHANGED <<division, orphans>>
      /\ r \in StreamType /\ k \in BlockType
      /\ k.lo = block[s].lo /\ k.hi = block[s].hi /\ k.loaded = block[s].loaded
      /\ \A x \in Handles \ {h} : ~stream[x][s].attached
      /\ r.pbm = "live" /\ r.at = s /\ r.size = Size
      /\ r.attached
      /\ Exact(s) => r.mapped /\ r.phyaddr = s * Size /\ s * Size + Size <= Area
  BY <1>1, <1>2, <1>5, <1>6
<1>8. r.started /\ Exact(s) =>
         ~k.paused /\ k.limit = IF s \in Tx THEN s * Size ELSE s * Size + Size
  BY <1>4, <1>6
<1> QED
  BY <1>3, <1>7, <1>8, OneStream

(* nac_stop_stream pauses the card and keeps the attachment. *)
LEMMA StopKeeps ==
  ASSUME StreamsInv, NEW h \in Handles, NEW s \in Rx \cup Tx, Stop(h, s)
  PROVE  StreamsInv'
<1> DEFINE st == stream[h][s]
           r == [st EXCEPT !.started = FALSE]
           k == [block[s] EXCEPT !.paused = TRUE]
<1>1. /\ st.attached
      /\ block' = [block EXCEPT ![st.at].paused = TRUE]
      /\ stream' = [stream EXCEPT ![h][s].started = FALSE]
      /\ UNCHANGED <<configured, division, orphans>>
  BY DEF Stop, Call, StreamPaused
<1>2. /\ st \in StreamType /\ block[s] \in BlockType /\ s \in Streams
      /\ s \in configured[h] /\ (\A x \in Handles \ {h} : ~stream[x][s].attached)
      /\ st.pbm = "live" /\ st.at = s /\ st.size = Size
      /\ Exact(s) => st.mapped /\ st.phyaddr = s * Size /\ s * Size + Size <= Area
  BY <1>1, StreamFacts
<1>3. stream' = [stream EXCEPT ![h][s] = r] /\ block' = [block EXCEPT ![s] = k]
  <2>1. DOMAIN stream = Handles /\ DOMAIN stream[h] = Streams /\ DOMAIN block = Streams
    BY DEF StreamsInv, StreamsType
  <2> QED
    BY <2>1, <1>1, <1>2
<1> HIDE DEF st
<1>4. /\ r \in StreamType /\ r.pbm = st.pbm /\ r.at = st.at /\ r.size = st.size
      /\ r.phyaddr = st.phyaddr /\ r.mapped = st.mapped /\ r.attached = st.attached
      /\ ~r.started
  BY <1>2 DEF StreamType
<1>5. /\ k \in BlockType /\ k.lo = block[s].lo /\ k.hi = block[s].hi
      /\ k.loaded = block[s].loaded
  BY <1>2 DEF BlockType
<1> HIDE DEF r, k
<1>6. /\ s \in configured[h] /\ UNCHANGED configured /\ UNCHANGED <<division, orphans>>
      /\ r \in StreamType /\ k \in BlockType
      /\ k.lo = block[s].lo /\ k.hi = block[s].hi /\ k.loaded = block[s].loaded
      /\ \A x \in Handles \ {h} : ~stream[x][s].attached
      /\ r.pbm = "live" /\ r.at = s /\ r.size = Size
      /\ r.attached
      /\ Exact(s) => r.mapped /\ r.phyaddr = s * Size /\ s * Size + Size <= Area
  BY <1>1, <1>2, <1>4, <1>5
<1>7. r.started /\ Exact(s) =>
         ~k.paused /\ k.limit = IF s \in Tx THEN s * Size ELSE s * Size + Size
  BY <1>4
<1> QED
  BY <1>3, <1>6, <1>7, OneStream

(* nac_detach_stream pauses the card before it unmaps the memory, and frees pbm. *)
LEMMA DetachKeeps ==
  ASSUME StreamsInv, NEW h \in Handles, NEW s \in Rx \cup Tx, Detach(h, s)
  PROVE  StreamsInv'
<1> DEFINE st == stream[h][s]
           pbm == IF st.mapped THEN "freed" ELSE st.pbm
           r == [st EXCEPT !.pbm = pbm, !.attached = FALSE, !.started = FALSE]
           k == IF st.mapped THEN [block[s] EXCEPT !.paused = TRUE] ELSE block[s]
<1>1. /\ st.attached
      /\ block' = IF st.mapped THEN [block EXCEPT ![st.at].paused = TRUE] ELSE block
      /\ stream' = [stream EXCEPT ![h][s] = r]
      /\ configured' = [configured EXCEPT ![h] = @ \ {s}]
      /\ UNCHANGED <<division, orphans>>
  BY DEF Detach, Call, StreamPaused
<1>2. /\ st \in StreamType /\ block[s] \in BlockType /\ s \in Streams
      /\ s \in configured[h] /\ (\A x \in Handles \ {h} : ~stream[x][s].attached)
      /\ st.at = s /\ block = [block EXCEPT ![s] = block[s]]
  BY <1>1, StreamFacts
<1>3. stream' = [stream EXCEPT ![h][s] = r] /\ block' = [block EXCEPT ![s] = k]
  <2>1. DOMAIN stream = Handles /\ DOMAIN stream[h] = Streams /\ DOMAIN block = Streams
    BY DEF StreamsInv, StreamsType
  <2>2. stream' = [stream EXCEPT ![h][s] = r]
    BY <1>1
  <2>3. block' = [block EXCEPT ![s] = k]
    <3>1. CASE st.mapped
      BY <3>1, <2>1, <1>1, <1>2
    <3>2. CASE ~st.mapped
      BY <3>2, <1>1, <1>2
    <3> QED
      BY <3>1, <3>2
  <2> QED
    BY <2>2, <2>3
<1>4. s \notin configured'[h]
  BY <1>1 DEF StreamsInv, StreamsType
<1>5. pbm \in Pbms
  BY <1>2 DEF StreamType, Pbms
<1> HIDE DEF st, pbm
<1>6. r \in StreamType /\ ~r.attached /\ ~r.started
  BY <1>2, <1>5 DEF StreamType
<1>7. /\ k \in BlockType /\ k.lo = block[s].lo /\ k.hi = block[s].hi
      /\ k.loaded = block[s].loaded
  <2>1. CASE st.mapped
    BY <2>1, <1>2 DEF BlockType
  <2>2. CASE ~st.mapped
    BY <2>2, <1>2
  <2> QED
    BY <2>1, <2>2
<1> HIDE DEF r, k
<1> QED
  BY <1>1, <1>2, <1>3, <1>4, <1>6, <1>7, OneStream

-----------------------------------------------------------------------------
(* The end of a process and nac_open: what is left is less to agree on. *)
LEMMA CloseKeeps ==
  ASSUME StreamsInv, NEW h \in Handles, Close(h)
  PROVE  StreamsInv'
<1>0. StreamsType /\ PreparedInv /\ ProcInv /\ AttachedInv /\ OneUser
  BY DEF StreamsInv
<1>1. /\ configured' = [configured EXCEPT ![h] = {}]
      /\ stream' = [stream EXCEPT ![h] = [s \in Streams |-> ClearStream]]
      /\ orphans' = orphans \cup {s \in Rx : stream[h][s].started}
      /\ UNCHANGED <<block, division>>
  BY DEF Close
<1>2. /\ Mode' = Mode /\ Size' = Size
      /\ \A s : (Exact(s)' <=> Exact(s)) /\ (Divided(s)' <=> Divided(s))
  BY <1>1 DEF Mode, Size, Exact, Divided
<1>3. ClearStream \in StreamType /\ ~ClearStream.attached /\ ~ClearStream.started
  BY DEF ClearStream, StreamType, Pbms
<1>4. \A s \in Streams : stream'[h][s] = ClearStream
  BY <1>0, <1>1 DEF StreamsType
<1>5. configured'[h] = {}
  BY <1>0, <1>1 DEF StreamsType
<1>6. ASSUME NEW x \in Handles, x # h
      PROVE  stream'[x] = stream[x] /\ configured'[x] = configured[x]
  BY <1>0, <1>1, <1>6 DEF StreamsType
<1>7. StreamsType'
  <2>1. stream' \in [Handles -> [Streams -> StreamType]]
    BY <1>0, <1>1, <1>3 DEF StreamsType
  <2>2. configured' \in [Handles -> SUBSET (Rx \cup Tx)] /\ orphans' \in SUBSET Rx
    BY <1>0, <1>1 DEF StreamsType
  <2> QED
    BY <2>1, <2>2, <1>0, <1>1 DEF StreamsType
<1>8. PreparedInv'
  BY <1>0, <1>2, <1>5, <1>6 DEF PreparedInv
<1>9. ProcInv'
  BY <1>0, <1>1, <1>2 DEF ProcInv
<1>10. AttachedInv'
  BY <1>0, <1>1, <1>2, <1>3, <1>4, <1>6 DEF AttachedInv
<1>11. OneUser'
  BY <1>0, <1>3, <1>4, <1>6 DEF OneUser
<1> QED
  BY <1>7, <1>8, <1>9, <1>10, <1>11 DEF StreamsInv

(* A step that leaves the streams and the registers alone. *)
LEMMA SameKeeps ==
  ASSUME StreamsInv, UNCHANGED <<configured, stream, block, division, orphans>>
  PROVE  StreamsInv'
<1>1. StreamsType'
  BY DEF StreamsInv, StreamsType
<1>2. \A s : (Exact(s)' <=> Exact(s)) /\ (Divided(s)' <=> Divided(s))
  BY DEF Mode, Size, Exact, Divided
<1>3. PreparedInv' /\ ProcInv' /\ AttachedInv' /\ OneUser'
  BY <1>2 DEF StreamsInv, PreparedInv, ProcInv, AttachedInv, OneUser, Mode, Size
<1> QED
  BY <1>1, <1>3 DEF StreamsInv

(* Every call on a stream that its caller has prepared. *)
LEMMA UseKeeps ==
  ASSUME StreamsInv, NEW h \in Handles, Use(h)
  PROVE  StreamsInv'
<1>1. PICK s \in Rx \cup Tx :
        \/ Attach(h, s)
        \/ \E flags \in {"copy", "overlap"} : TxAttach(h, s, flags)
        \/ Start(h, s) \/ Stop(h, s) \/ Detach(h, s)
  BY DEF Use
<1>2. CASE Attach(h, s)
  BY <1>2, AttachKeeps DEF Attach
<1>3. ASSUME NEW flags \in {"copy", "overlap"}, TxAttach(h, s, flags)
      PROVE  StreamsInv'
  <2>1. MayAttach(h, s) /\ s \in Tx /\ Mode = flags
    BY <1>3 DEF TxAttach, Mode
  <2>2. UNCHANGED <<configured, block, division, orphans>>
    BY <1>3 DEF TxAttach
  <2>3. CASE flags = "overlap"
    <3>1. stream' = [stream EXCEPT ![h][s] = [@ EXCEPT !.attached = TRUE, !.started = FALSE]]
      BY <1>3, <2>3 DEF TxAttach
    <3> QED
      BY <2>1, <2>2, <2>3, <3>1, OverlapAttachKeeps
  <2>4. CASE flags = "copy"
    <3>1. stream' = [stream EXCEPT ![h][s] = AtStart(h, s)] /\ Mappable(h, s)
      BY <1>3, <2>4 DEF TxAttach
    <3> QED
      BY <2>1, <2>2, <3>1, AttachKeeps
  <2> QED
    BY <2>3, <2>4
<1>4. CASE Start(h, s)
  BY <1>4, StartKeeps
<1>5. CASE Stop(h, s)
  BY <1>5, StopKeeps
<1>6. CASE Detach(h, s)
  BY <1>6, DetachKeeps
<1> QED
  BY <1>1, <1>2, <1>3, <1>4, <1>5, <1>6

(* Every step. *)
LEMMA StreamsStep == StreamsInv /\ [Next]_vars => StreamsInv'
<1> SUFFICES ASSUME StreamsInv, [Next]_vars PROVE StreamsInv'
  OBVIOUS
<1>1. CASE UNCHANGED vars
  BY <1>1, SameKeeps DEF vars
<1>2. ASSUME NEW h \in Handles, Open(h) PROVE StreamsInv'
  BY <1>2, SameKeeps DEF Open
<1>3. ASSUME NEW h \in Handles, Close(h) PROVE StreamsInv'
  BY <1>3, CloseKeeps
<1>4. ASSUME NEW h \in Handles, Configure(h) PROVE StreamsInv'
  <2>1. PICK n \in Counts :
          \/ \E done \in 0 .. n + 1 : MsuConfigure(h, n, done)
          \/ \E mode \in {"copy", "overlap"} : InlineConfigure(h, n, mode)
          \/ ProcInit(h, n)
          \/ \E s \in Rx : ProcConfig(h, s, n)
    BY <1>4 DEF Configure
  <2>2. ASSUME NEW done \in 0 .. n + 1, MsuConfigure(h, n, done) PROVE StreamsInv'
    BY <2>2, MsuConfigureKeeps
  <2>3. ASSUME NEW mode \in {"copy", "overlap"}, InlineConfigure(h, n, mode)
        PROVE  StreamsInv'
    BY <2>3, InlineConfigureKeeps
  <2>4. CASE ProcInit(h, n)
    BY <2>4, ProcInitKeeps
  <2>5. ASSUME NEW s \in Rx, ProcConfig(h, s, n) PROVE StreamsInv'
    BY <2>5, ProcConfigKeeps
  <2> QED
    BY <2>1, <2>2, <2>3, <2>4, <2>5
<1>5. ASSUME NEW h \in Handles, Use(h) PROVE StreamsInv'
  BY <1>5, UseKeeps
<1> QED
  BY <1>1, <1>2, <1>3, <1>4, <1>5 DEF Next

(* From the first nac_open on, across every end of a process, the records of
   the handles and the card's registers agree on every prepared stream. *)
THEOREM StreamsInductive == Spec => []StreamsInv
  BY StreamsInit, StreamsStep, PTL DEF Spec

-----------------------------------------------------------------------------
(* A stream that nac_attach_stream or nac_tx_attach_stream has attached has a
   pbm that the other calls can follow, of its own block. *)
THEOREM Usable == Spec => []AttachedUsable
<1>1. ASSUME StreamsInv PROVE AttachedUsable
  <2> SUFFICES ASSUME NEW h \in Handles, NEW s \in Streams, stream[h][s].attached
               PROVE  stream[h][s].pbm = "live" /\ stream[h][s].at = s
    BY DEF AttachedUsable
  <2>1. s \in configured[h]
    BY <1>1 DEF StreamsInv, AttachedInv
  <2>2. s \in Rx \cup Tx
    BY <1>1, <2>1 DEF StreamsInv, StreamsType
  <2> QED
    BY <1>1, <2>1, <2>2 DEF StreamsInv, PreparedInv
<1> QED
  BY <1>1, StreamsInductive, PTL

(* A stream that nac_start_stream or nac_tx_start_stream has started runs over
   exactly the memory that its process has mapped, from its start, with its
   limit inside, except for transmit streams in overlap mode. *)
THEOREM OwnMemory == Spec => []RunsWhatItMaps
<1>1. ASSUME StreamsInv PROVE RunsWhatItMaps
  <2> SUFFICES ASSUME NEW h \in Handles, NEW s \in Streams, stream[h][s].started,
                      s \in Tx => Mode # "overlap"
               PROVE  LET st == stream[h][s]
                          b  == block[st.at]
                      IN  /\ st.mapped /\ ~b.paused
                          /\ b.lo = st.phyaddr /\ b.hi = st.phyaddr + st.size
                          /\ b.loaded = b.lo
                          /\ b.limit # None /\ b.limit \in b.lo .. b.hi
    BY DEF RunsWhatItMaps, Mode
  <2>1. stream[h][s].attached /\ s \in configured[h]
    BY <1>1 DEF StreamsInv, AttachedInv
  <2>2. s \in Rx \cup Tx
    BY <1>1, <2>1 DEF StreamsInv, StreamsType
  <2>3. Exact(s)
    BY <2>2 DEF Exact
  <2>4. /\ stream[h][s].at = s /\ stream[h][s].size = Size /\ Size \in Nat /\ s \in Nat
        /\ stream[h][s].mapped /\ stream[h][s].phyaddr = s * Size
        /\ s * Size + Size <= Area
    BY <1>1, <2>1, <2>2, <2>3, StreamFacts
  <2>5. /\ ~block[s].paused
        /\ block[s].limit = IF s \in Tx THEN s * Size ELSE s * Size + Size
    BY <1>1, <2>3 DEF StreamsInv, AttachedInv
  <2>6. Divided(s)
    BY <1>1, <2>1, <2>2, <2>3 DEF StreamsInv, PreparedInv
  <2> DEFINE lo == s * Size
  <2>7. lo \in Nat
    <3>1. \A a \in Nat, b \in Nat : a * b \in Nat
      OBVIOUS
    <3> QED
      BY <2>4, <3>1
  <2>8. /\ block[s].lo = lo /\ block[s].hi = lo + Size /\ block[s].loaded = lo
        /\ block[s].limit = IF s \in Tx THEN lo ELSE lo + Size
        /\ stream[h][s].phyaddr = lo /\ lo + Size <= Area
    BY <2>4, <2>5, <2>6 DEF Divided
  <2> HIDE DEF lo
  <2>9. block[s].limit \in lo .. lo + Size /\ block[s].limit \in 0 .. Area
    BY <2>4, <2>7, <2>8, MemoryAssumption
  <2>10. block[s].limit # None
    BY <2>9, ProgramAssumption
  <2> QED
    BY <2>4, <2>5, <2>8, <2>9, <2>10
<1> QED
  BY <1>1, StreamsInductive, PTL

-----------------------------------------------------------------------------
(* No block begins to write by itself: one that writes after a call either wrote
   before it, for somebody who still runs it, or has a stream that is started. *)
LEMMA WritersKept ==
  ASSUME OnlyStartedWrite, orphans \subseteq orphans',
         \A b \in Rx : ~block'[b].paused =>
           \/ \E x \in Handles : stream'[x][b].started
           \/ /\ ~block[b].paused
              /\ \A x \in Handles :
                   stream[x][b].started => stream'[x][b].started \/ b \in orphans'
  PROVE  OnlyStartedWrite'
<1> SUFFICES ASSUME NEW b \in Rx, ~block'[b].paused, b \notin orphans'
             PROVE  \E x \in Handles : stream'[x][b].started
  BY DEF OnlyStartedWrite, Writers, Started
<1>1. CASE \E x \in Handles : stream'[x][b].started
  BY <1>1
<1>2. CASE ~ \E x \in Handles : stream'[x][b].started
  <2>1. /\ ~block[b].paused
        /\ \A x \in Handles :
             stream[x][b].started => stream'[x][b].started \/ b \in orphans'
    BY <1>2
  <2>2. b \in Started \cup orphans
    BY <2>1 DEF OnlyStartedWrite, Writers
  <2>3. PICK x \in Handles : stream[x][b].started
    BY <2>2 DEF Started
  <2> QED
    BY <2>1, <2>3
<1> QED
  BY <1>1, <1>2

(* A call that pauses the blocks of all receive streams. *)
LEMMA AllPaused ==
  ASSUME \A b \in Rx : block'[b].paused PROVE OnlyStartedWrite'
  BY DEF OnlyStartedWrite, Writers

(* Each of the calls of Configure keeps the writers to the started streams, when
   programs configure as many streams as the card has. *)
LEMMA ConfigureWriters ==
  ASSUME Counts \subseteq {N}, StreamsInv, OnlyStartedWrite,
         NEW h \in Handles, Configure(h)
  PROVE  OnlyStartedWrite'
<1>0. StreamsType /\ (\A b \in Rx : b \in Streams /\ b \in 0 .. N - 1 /\ b \notin Tx /\ b # Rft)
  BY MemoryAssumption DEF StreamsInv, Rx, Tx, Streams, Rft
<1>1. \A b \in Rx : \A lo, z : Loaded(b, lo, z).paused
  BY <1>0 DEF StreamsType, BlockType, Loaded
<1>2. PICK n \in Counts :
        \/ \E done \in 0 .. n + 1 : MsuConfigure(h, n, done)
        \/ \E mode \in {"copy", "overlap"} : InlineConfigure(h, n, mode)
        \/ ProcInit(h, n)
        \/ \E s \in Rx : ProcConfig(h, s, n)
  BY DEF Configure
<1>3. n = N
  OBVIOUS
<1>4. ASSUME NEW done \in 0 .. n + 1, MsuConfigure(h, n, done) PROVE OnlyStartedWrite'
  <2> DEFINE set == 0 .. (IF done < n THEN done ELSE n) - 1
             all == done = n + 1
             z == StreamSize(n)
  <2>1. /\ block' = [b \in Streams |->
                       CASE b \in set -> Loaded(b, b * z, z)
                         [] b = Rft /\ all -> RftLoaded(n * z)
                         [] OTHER -> block[b]]
        /\ stream' = [stream EXCEPT ![h] = [s \in Streams |->
                        CASE s \in set -> Allocated(h, s, s, z)
                          [] s = n /\ all -> Allocated(h, s, Rft, Table)
                          [] s = done /\ ~all -> [@[s] EXCEPT !.pbm = "null"]
                          [] OTHER -> @[s]]]
        /\ orphans' = IF all THEN {} ELSE orphans
    BY <1>4 DEF MsuConfigure
  <2>2. ASSUME NEW b \in Rx, ~block'[b].paused PROVE b \notin set /\ ~block[b].paused
    <3>1. block'[b] = IF b \in set THEN Loaded(b, b * z, z) ELSE block[b]
      BY <1>0, <2>1
    <3> HIDE DEF set, z
    <3> QED
      BY <1>1, <2>2, <3>1
  <2>3. CASE all
    <3>1. set = Rx
      BY <1>3, <2>3, MemoryAssumption DEF Rx
    <3> HIDE DEF set
    <3>2. \A b \in Rx : block'[b].paused
      BY <2>2, <3>1
    <3> QED
      BY <3>2, AllPaused
  <2>4. CASE ~all
    <3>1. ASSUME NEW b \in Rx, b \notin set
          PROVE  \A x \in Handles : stream'[x][b].started = stream[x][b].started
      <4>1. stream[h][b] \in StreamType /\ b \in Streams
        BY <1>0 DEF StreamsType
      <4>2. stream'[h][b] = IF b = done THEN [stream[h][b] EXCEPT !.pbm = "null"]
                            ELSE stream[h][b]
        BY <1>0, <2>1, <2>4, <3>1, <4>1 DEF StreamsType
      <4>3. stream'[h][b].started = stream[h][b].started
        BY <4>1, <4>2 DEF StreamType
      <4>4. ASSUME NEW x \in Handles, x # h PROVE stream'[x] = stream[x]
        BY <1>0, <2>1, <4>4 DEF StreamsType
      <4> QED
        BY <4>3, <4>4
    <3>2. orphans' = orphans
      BY <2>1, <2>4
    <3> HIDE DEF set, all
    <3> QED
      BY <2>2, <3>1, <3>2, WritersKept
  <2> QED
    BY <2>3, <2>4
<1>5. ASSUME NEW mode \in {"copy", "overlap"}, InlineConfigure(h, n, mode)
      PROVE  OnlyStartedWrite'
  <2> DEFINE z == InlineSize(mode)
  <2>1. \A b \in Rx : block'[b] = Loaded(b, b * z, z)
    <3>1. block' = [b \in Streams |->
                     CASE b \in 0 .. n - 1 -> Loaded(b, b * z, z)
                       [] b \in N .. N + n - 1 /\ mode = "copy" -> Loaded(b, b * z, z)
                       [] b \in N .. N + n - 1 /\ mode = "overlap" ->
                            [Loaded(b, (b - N) * z, z) EXCEPT !.hi = block[b].hi]
                       [] OTHER -> block[b]]
      BY <1>5 DEF InlineConfigure
    <3>2. \A b \in Rx : b \in 0 .. n - 1 /\ b \notin N .. N + n - 1 /\ b \in Streams
      BY <1>0, <1>3, MemoryAssumption
    <3> HIDE DEF z
    <3> QED
      BY <3>1, <3>2
  <2> HIDE DEF z
  <2> QED
    BY <1>1, <2>1, AllPaused
<1>6. ASSUME ProcInit(h, n) PROVE OnlyStartedWrite'
  <2> DEFINE z == StreamSize(n)
  <2>1. \A b \in Rx : block'[b] = Loaded(b, b * z, z)
    BY <1>0, <1>3, <1>6 DEF ProcInit
  <2> HIDE DEF z
  <2> QED
    BY <1>1, <2>1, AllPaused
<1>7. ASSUME NEW s \in Rx, ProcConfig(h, s, n) PROVE OnlyStartedWrite'
  <2>1. /\ stream' = [stream EXCEPT ![h][s] = Allocated(h, s, s, StreamSize(n))]
        /\ block' = [block EXCEPT ![s].loaded = block[s].lo, ![s].paused = TRUE]
        /\ orphans' = orphans
    BY <1>7 DEF ProcConfig
  <2>2. block'[s].paused
    BY <1>0, <2>1 DEF StreamsType, BlockType
  <2>3. ASSUME NEW b \in Rx, b # s
        PROVE  block'[b] = block[b] /\ (\A x \in Handles : stream'[x][b] = stream[x][b])
    BY <1>0, <2>1, <2>3 DEF StreamsType
  <2> QED
    BY <2>1, <2>2, <2>3, WritersKept
<1> QED
  BY <1>2, <1>4, <1>5, <1>6, <1>7

(* The same for the calls on one stream. *)
LEMMA UseWriters ==
  ASSUME StreamsInv, OnlyStartedWrite, NEW h \in Handles, NEW s \in Rx \cup Tx,
         \/ Attach(h, s)
         \/ \E flags \in {"copy", "overlap"} : TxAttach(h, s, flags)
         \/ Start(h, s) \/ Stop(h, s) \/ Detach(h, s)
  PROVE  OnlyStartedWrite'
<1>0. StreamsType /\ s \in Streams /\ (\A b \in Rx : b \in Streams /\ b \notin Tx)
  BY MemoryAssumption DEF StreamsInv, Rx, Tx, Streams
<1>1. stream[h][s].attached => stream[h][s].at = s
  BY StreamFacts
<1>2. \A b \in Streams : block[b] \in BlockType
  BY <1>0 DEF StreamsType
<1>3. \A x \in Handles, b \in Streams : stream[x][b] \in StreamType
  BY <1>0 DEF StreamsType
<1>4. ASSUME MayAttach(h, s), UNCHANGED <<block, orphans>>,
             NEW r, stream' = [stream EXCEPT ![h][s] = r]
      PROVE  OnlyStartedWrite'
  <2>1. \A x \in Handles : ~stream[x][s].started
    BY <1>0, <1>4 DEF MayAttach, StreamsInv, AttachedInv
  <2>2. \A b \in Rx, x \in Handles : stream[x][b].started => stream'[x][b].started
    BY <1>0, <1>4, <2>1 DEF StreamsType
  <2> QED
    BY <1>4, <2>2, WritersKept
<1>5. CASE Attach(h, s)
  BY <1>4, <1>5 DEF Attach
<1>6. ASSUME NEW flags \in {"copy", "overlap"}, TxAttach(h, s, flags)
      PROVE  OnlyStartedWrite'
  <2>1. MayAttach(h, s) /\ UNCHANGED <<block, orphans>>
    BY <1>6 DEF TxAttach
  <2>2. \E r : stream' = [stream EXCEPT ![h][s] = r]
    <3>1. CASE flags = "overlap"
      <4>1. stream' = [stream EXCEPT ![h][s] =
                         [stream[h][s] EXCEPT !.attached = TRUE, !.started = FALSE]]
        BY <1>0, <1>6, <3>1 DEF TxAttach, StreamsType
      <4> QED
        BY <4>1
    <3>2. CASE flags # "overlap"
      <4>1. stream' = [stream EXCEPT ![h][s] = AtStart(h, s)]
        BY <1>6, <3>2 DEF TxAttach
      <4> QED
        BY <4>1
    <3> QED
      BY <3>1, <3>2
  <2> QED
    BY <2>1, <2>2, <1>4
<1>7. CASE Start(h, s)
  <2>1. /\ stream[h][s].attached /\ orphans' = orphans
        /\ stream' = [stream EXCEPT ![h][s].started = TRUE]
        /\ \E limit : block' = [block EXCEPT ![stream[h][s].at].limit = limit,
                                             ![stream[h][s].at].paused = FALSE]
    BY <1>7 DEF Start, Call
  <2>2. \A b \in Streams : b # s => block'[b] = block[b]
    BY <1>0, <1>1, <2>1 DEF StreamsType
  <2>3. stream'[h][s].started
    BY <1>0, <1>3, <2>1 DEF StreamsType, StreamType
  <2>4. \A x \in Handles, b \in Streams : b # s => stream'[x][b] = stream[x][b]
    BY <1>0, <2>1 DEF StreamsType
  <2> QED
    BY <1>0, <2>1, <2>2, <2>3, <2>4, WritersKept
<1>8. CASE Stop(h, s) \/ Detach(h, s)
  <2>1. /\ orphans' = orphans
        /\ \E r : stream' = [stream EXCEPT ![h][s] = r]
        /\ s \in Rx => block' = [block EXCEPT ![s].paused = TRUE]
    <3>1. CASE Stop(h, s)
      <4>1. /\ stream[h][s].attached /\ orphans' = orphans
            /\ stream' = [stream EXCEPT ![h][s].started = FALSE]
            /\ block' = StreamPaused(h, s)
        BY <3>1 DEF Stop, Call
      <4>2. stream' = [stream EXCEPT ![h][s] = [stream[h][s] EXCEPT !.started = FALSE]]
        BY <1>0, <4>1 DEF StreamsType
      <4> QED
        BY <1>1, <4>1, <4>2 DEF StreamPaused
    <3>2. CASE Detach(h, s)
      <4>1. /\ stream[h][s].attached /\ orphans' = orphans
            /\ block' = IF stream[h][s].mapped THEN StreamPaused(h, s) ELSE block
            /\ \E r : stream' = [stream EXCEPT ![h][s] = r]
        BY <3>2 DEF Detach, Call
      <4>2. s \in Rx => stream[h][s].mapped
        BY <4>1, StreamFacts DEF Exact
      <4> QED
        BY <1>1, <4>1, <4>2 DEF StreamPaused
    <3> QED
      BY <1>8, <3>1, <3>2
  <2>2. s \in Rx => block'[s].paused
    BY <1>0, <1>2, <2>1 DEF StreamsType, BlockType
  <2>3. \A b \in Rx : b # s => block'[b] = block[b]
    <3>1. CASE s \in Rx
      BY <1>0, <2>1, <3>1 DEF StreamsType
    <3>2. CASE s \in Tx
      <4>1. \E k : block' = [block EXCEPT ![s] = k]
        <5>1. block' = [block EXCEPT ![s] = [block[s] EXCEPT !.paused = TRUE]]
              \/ block' = [block EXCEPT ![s] = block[s]]
          <6>1. DOMAIN block = Streams
            BY <1>0 DEF StreamsType
          <6>2. stream[h][s].attached
            BY <1>8 DEF Stop, Detach, Call
          <6>3. block' = [block EXCEPT ![s].paused = TRUE] \/ block' = block
            BY <1>1, <1>8, <6>2 DEF Stop, Detach, StreamPaused
          <6>4. block = [block EXCEPT ![s] = block[s]]
            BY StreamFacts
          <6> QED
            BY <1>0, <6>1, <6>3, <6>4
        <5> QED
          BY <5>1
      <4> QED
        BY <1>0, <3>2, <4>1 DEF StreamsType
    <3> QED
      BY <3>1, <3>2
  <2>4. \A x \in Handles, b \in Streams : b # s => stream'[x][b] = stream[x][b]
    BY <1>0, <2>1 DEF StreamsType
  <2> QED
    BY <1>0, <2>1, <2>2, <2>3, <2>4, WritersKept
<1> QED
  BY <1>5, <1>6, <1>7, <1>8

(* The end of a process: what it ran has an orphan. *)
LEMMA CloseWriters ==
  ASSUME StreamsInv, OnlyStartedWrite, NEW h \in Handles, Close(h)
  PROVE  OnlyStartedWrite'
<1>1. /\ stream' = [stream EXCEPT ![h] = [s \in Streams |-> ClearStream]]
      /\ orphans' = orphans \cup {s \in Rx : stream[h][s].started}
      /\ block' = block
  BY DEF Close
<1>2. \A x \in Handles : x # h => stream'[x] = stream[x]
  BY <1>1 DEF StreamsInv, StreamsType
<1>3. \A b \in Rx, x \in Handles :
         stream[x][b].started => stream'[x][b].started \/ b \in orphans'
  BY <1>1, <1>2
<1> QED
  BY <1>1, <1>3, WritersKept

(* Only started streams write, after every program has configured the card for
   all of its streams: one that configures fewer leaves the others of the program
   before it running (the run streams_fewer), whatever the comment says. *)
THEOREM WritersStarted == Counts \subseteq {N} /\ Spec => []OnlyStartedWrite
<1> SUFFICES ASSUME Counts \subseteq {N} PROVE Spec => []OnlyStartedWrite
  OBVIOUS
<1>1. Init => OnlyStartedWrite
  BY MemoryAssumption DEF Init, OnlyStartedWrite, Writers, Rx, Streams
<1>2. StreamsInv /\ OnlyStartedWrite /\ [Next]_vars => OnlyStartedWrite'
  <2> SUFFICES ASSUME StreamsInv, OnlyStartedWrite, [Next]_vars PROVE OnlyStartedWrite'
    OBVIOUS
  <2>1. ASSUME UNCHANGED <<block, stream, orphans>> PROVE OnlyStartedWrite'
    BY <2>1 DEF OnlyStartedWrite, Writers, Started
  <2>2. CASE UNCHANGED vars
    BY <2>1, <2>2 DEF vars
  <2>3. ASSUME NEW h \in Handles, Open(h) PROVE OnlyStartedWrite'
    BY <2>1, <2>3 DEF Open
  <2>4. ASSUME NEW h \in Handles, Close(h) PROVE OnlyStartedWrite'
    BY <2>4, CloseWriters
  <2>5. ASSUME NEW h \in Handles, Configure(h) PROVE OnlyStartedWrite'
    BY <2>5, ConfigureWriters
  <2>6. ASSUME NEW h \in Handles, Use(h) PROVE OnlyStartedWrite'
    BY <2>6, UseWriters DEF Use
  <2> QED
    BY <2>2, <2>3, <2>4, <2>5, <2>6 DEF Next
<1> QED
  BY <1>1, <1>2, StreamsInductive, PTL DEF Spec
=============================================================================
