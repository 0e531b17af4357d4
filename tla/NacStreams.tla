------------------------------ MODULE NacStreams ------------------------------
(***************************************************************************)
(* The life cycle of the streams of one card: opening the card, dividing   *)
(* its memory among the streams, and attaching, starting, stopping and     *)
(* detaching each of them (lib/nacapi.c, lib/nac_stream.c).                *)
(*                                                                         *)
(* Every open descriptor, a handle here, has a record of its own in herd,  *)
(* in the memory of its process; the registers belong to the card and are  *)
(* what all handles share and what survives a process.  A process may end  *)
(* between any two calls; neither that nor nac_close() writes a register.  *)
(* What the rings do while they run is NacRxRing's and NacTxRing's part.   *)
(*                                                                         *)
(* Streams 0 .. N-1 receive, N .. 2N-1 transmit, 2N is the flow table; so  *)
(* are the blocks of DMA registers.  Addresses are offsets into the card's *)
(* memory.                                                                 *)
(*                                                                         *)
(* Any DMA that is not paused may transfer: capture_start() switches all   *)
(* streams on, however many are configured.                                *)
(*                                                                         *)
(* State of the callers: configured and division.  Ghost state: orphans.   *)
(***************************************************************************)
EXTENDS Integers, FiniteSets

CONSTANTS
  N,         \* NUM_STREAM (8)
  Area,      \* info->buf_size
  Table,     \* RFT_SIZE
  Handles,   \* descriptors of the card
  Counts,    \* numbers of streams the programs configure
  Modes,     \* how: some of "msu", "copy", "overlap" and "proc"
  MaxSetups, \* bound: how often the card is set up as a whole
  None       \* no pointer, or an address that is not in the card's memory

ASSUME MemoryAssumption ==
  /\ N \in Nat \ {0}
  /\ Table \in Nat \ {0}
  /\ Area \in Nat /\ Area > Table
  /\ (Area - Table) % (2 * N) = 0

ASSUME ProgramAssumption ==
  /\ Counts \subseteq 1 .. N
  /\ MaxSetups \in Nat
  /\ Modes \subseteq {"msu", "copy", "overlap", "proc"}
  /\ None \notin 0 .. Area

VARIABLES
  opened,    \* herd[h].opened
  configured,\* the streams the caller of h has prepared and may attach
  stream,    \* herd[h].stream[]
  block,     \* the DMA registers of the card
  division,  \* what the callers agreed on: the last set-up, <<mode, count>>
  setups,    \* how often that has been done, up to MaxSetups
  orphans    \* ghost: streams that ran when their process ended, until a
             \* program has configured the card again

vars == <<opened, configured, stream, block, division, setups, orphans>>

Rx == 0 .. N - 1
Tx == N .. 2 * N - 1
Rft == 2 * N
Streams == 0 .. 2 * N

Pbms == {"null", "live", "freed"}

(* A stream of a handle; pbm also tells which block it addresses, and mapped
   that buf is not null. *)
ClearStream == [pbm |-> "null", at |-> None, size |-> 0, phyaddr |-> None,
                mapped |-> FALSE, attached |-> FALSE, started |-> FALSE]

(* Bytes of a receive stream when there are n of them, the flow table apart. *)
StreamSize(n) == (Area - Table) \div n

(* Bytes of a stream for inline forwarding. *)
InlineSize(mode) == IF mode = "overlap" THEN Area \div N ELSE Area \div (2 * N)

-----------------------------------------------------------------------------
(* Register writes. *)

(* Variants: a DMA that was not stopped the last time is left as it is; the
   address is loaded before it is written. *)
LoadedRunning(b, lo, size) ==
  [block[b] EXCEPT !.lo = lo, !.hi = lo + size, !.loaded = lo]

LoadedEarly(b, lo, size) ==
  [block[b] EXCEPT !.lo = lo, !.hi = lo + size, !.loaded = block[b].lo, !.paused = TRUE]

(* The start and end address are written, and dma_ctl_reg with addr_load and
   dma_pause_n = 0: the record pointer is set to the start. *)
Loaded(b, lo, size) ==
  [block[b] EXCEPT !.lo = lo, !.hi = lo + size, !.loaded = lo, !.paused = TRUE]

(* The block of the flow table: here addr_load comes before the addresses, so
   that the record pointer is set to the old start; then the DMA is started. *)
RftLoaded(lo) ==
  [lo |-> lo, hi |-> lo + Table, loaded |-> block[Rft].lo, limit |-> lo,
   paused |-> FALSE]

(* Variant: a pbm that is there already is taken again. *)
AllocatedOnce(h, s, b, size) ==
  [stream[h][s] EXCEPT !.pbm = IF @ = "null" THEN "live" ELSE @,
                       !.at = b, !.size = size]

(* malloc of a pbm, filled in for block b, and the size of the stream. *)
Allocated(h, s, b, size) ==
  [stream[h][s] EXCEPT !.pbm = "live", !.at = b, !.size = size]

-----------------------------------------------------------------------------
Init ==
  /\ opened = [h \in Handles |-> FALSE]
  /\ configured = [h \in Handles |-> {}]
  /\ stream = [h \in Handles |-> [s \in Streams |-> ClearStream]]
  /\ block = [b \in Streams |-> [lo |-> None, hi |-> None, loaded |-> None,
                                 limit |-> None, paused |-> TRUE]]
  /\ division = <<"none", 0>> /\ setups = 0
  /\ orphans = {}

(* nac_open *)
Open(h) ==
  /\ ~opened[h]
  /\ opened' = [opened EXCEPT ![h] = TRUE]
  /\ UNCHANGED <<configured, stream, block, division, setups, orphans>>

(* nac_close, nac_proc_close or the end of the process: the record of the
   handle goes, no register is written. *)
Close(h) ==
  /\ opened[h]
  /\ opened' = [opened EXCEPT ![h] = FALSE]
  /\ configured' = [configured EXCEPT ![h] = {}]
  /\ stream' = [stream EXCEPT ![h] = [s \in Streams |-> ClearStream]]
  /\ orphans' = orphans \cup {s \in Rx : stream[h][s].started}
  /\ UNCHANGED <<block, division, setups>>

(* What the callers keep to: the calls that set up all streams are made when
   no stream of the card is attached. *)
CardIdle == \A h \in Handles, s \in Streams : ~stream[h][s].attached

(* What was prepared before another set-up of the card is not used any more. *)
Configured(h, set, mode, n) ==
  /\ configured' = [x \in Handles |-> IF x = h THEN set ELSE {}]
  /\ division' = <<mode, n>>
  /\ setups < MaxSetups /\ setups' = setups + 1

(* nac_msu_configure: n receive streams and the flow table, whose pbm goes to
   the entry after theirs.  malloc may fail: done streams have been set up. *)
MsuConfigure(h, n, done) ==
  LET size == StreamSize(n)
      set  == 0 .. (IF done < n THEN done ELSE n) - 1
      all  == done = n + 1
  IN
  /\ opened[h] /\ CardIdle /\ n # 3 /\ "msu" \in Modes
  /\ stream' = [stream EXCEPT ![h] = [s \in Streams |->
                  CASE s \in set -> Allocated(h, s, s, size)
                    [] s = n /\ all -> Allocated(h, s, Rft, Table)
                    [] s = done /\ ~all -> [@[s] EXCEPT !.pbm = "null"]
                    [] OTHER -> @[s]]]
  /\ block' = [b \in Streams |->
                 CASE b \in set -> Loaded(b, b * size, size)
                   [] b = Rft /\ all -> RftLoaded(n * size)
                   [] OTHER -> block[b]]
  /\ Configured(h, IF all THEN set ELSE {}, "msu", n)
  /\ orphans' = IF all THEN {} ELSE orphans
  /\ UNCHANGED <<opened>>

(* nac_inline_msu_configure: n receive and n transmit streams; when malloc
   fails the program exits.  In overlap mode the end address of a transmit
   stream is written to the register of the receive stream (line 575). *)
InlineConfigure(h, n, mode) ==
  LET size == InlineSize(mode)
      rx   == 0 .. n - 1
      tx   == N .. N + n - 1
  IN
  /\ opened[h] /\ CardIdle /\ mode \in Modes
  /\ stream' = [stream EXCEPT ![h] = [s \in Streams |->
                  IF s \in rx \cup tx THEN Allocated(h, s, s, size) ELSE @[s]]]
  /\ block' = [b \in Streams |->
                 CASE b \in rx -> Loaded(b, b * size, size)
                   [] b \in tx /\ mode = "copy" -> Loaded(b, b * size, size)
                   [] b \in tx /\ mode = "overlap" ->
                        [Loaded(b, (b - N) * size, size) EXCEPT !.hi = block[b].hi]
                   [] OTHER -> block[b]]
  /\ Configured(h, rx \cup tx, mode, n)
  /\ orphans' = {}
  /\ UNCHANGED <<opened>>

(* nac_proc_init, in a process of its own: the registers only.  The flow table
   lies behind NUM_STREAM streams, however many there are. *)
ProcInit(h, n) ==
  /\ opened[h] /\ CardIdle /\ n # 3 /\ "proc" \in Modes
  /\ block' = [b \in Streams |->
                 CASE b \in 0 .. n - 1 -> Loaded(b, b * StreamSize(n), StreamSize(n))
                   [] b = Rft -> RftLoaded(N * StreamSize(n))
                   [] OTHER -> block[b]]
  /\ Configured(h, {}, "proc", n)
  /\ orphans' = {}
  /\ UNCHANGED <<opened, stream>>

(* nac_proc_config: one stream of a process of its own, in a card divided by
   nac_proc_init.  The addresses are those that are in the registers.  (When
   malloc fails it leaves a null pbm and returns -1; not modelled.) *)
ProcConfig(h, s, n) ==
  /\ opened[h] /\ division = <<"proc", n>> /\ s < n
  /\ \A x \in Handles : s \notin configured[x]
  /\ stream' = [stream EXCEPT ![h][s] = Allocated(h, s, s, StreamSize(n))]
  /\ block' = [block EXCEPT ![s].loaded = block[s].lo, ![s].paused = TRUE]
  /\ configured' = [configured EXCEPT ![h] = @ \cup {s}]
  /\ UNCHANGED <<opened, division, setups, orphans>>

-----------------------------------------------------------------------------
(* Attaching.  The kernel maps whole ranges of the card's memory only. *)

Mappable(h, s) ==
  stream[h][s].size > 0 /\ (s + 1) * stream[h][s].size <= Area

(* No other descriptor uses the stream, and its caller has prepared it. *)
MayAttach(h, s) ==
  /\ opened[h]
  /\ s \in configured[h]
  /\ \A x \in Handles : ~stream[x][s].attached

AtStart(h, s) ==
  [stream[h][s] EXCEPT !.phyaddr = s * stream[h][s].size, !.mapped = TRUE,
                       !.attached = TRUE, !.started = FALSE]

(* nac_attach_stream *)
Attach(h, s) ==
  /\ MayAttach(h, s) /\ s \in Rx
  /\ Mappable(h, s)
  /\ stream' = [stream EXCEPT ![h][s] = AtStart(h, s)]
  /\ UNCHANGED <<opened, configured, block, division, setups, orphans>>

(* nac_tx_attach_stream: in overlap mode phyaddr and buf are assigned to
   themselves. *)
TxAttach(h, s, flags) ==
  /\ MayAttach(h, s) /\ s \in Tx
  /\ flags = division[1]
  /\ stream' = [stream EXCEPT ![h][s] =
                  IF flags = "overlap"
                  THEN [@ EXCEPT !.attached = TRUE, !.started = FALSE]
                  ELSE AtStart(h, s)]
  /\ flags = "overlap" \/ Mappable(h, s)
  /\ UNCHANGED <<opened, configured, block, division, setups, orphans>>

-----------------------------------------------------------------------------
(* Calls on attached streams.  Each follows pbm, most before they check that the
   stream is attached; what happens when it does not point to one is left open. *)

Call(h, s) == opened[h] /\ stream[h][s].attached

(* The card's registers after dma_pause_n = 0 for the stream. *)
StreamPaused(h, s) == [block EXCEPT ![stream[h][s].at].paused = TRUE]

(* nac_start_stream and nac_tx_start_stream: the limit is the end of a receive
   stream's memory and the start of a transmit stream's. *)
Start(h, s) ==
  LET st == stream[h][s]
      limit == CASE st.phyaddr = None -> None
                 [] s \in Tx -> st.phyaddr
                 [] OTHER -> st.phyaddr + st.size
  IN
  /\ Call(h, s) /\ st.pbm = "live"
  /\ ~st.started
  /\ block' = [block EXCEPT ![st.at].limit = limit, ![st.at].paused = FALSE]
  /\ stream' = [stream EXCEPT ![h][s].started = TRUE]
  /\ UNCHANGED <<opened, configured, division, setups, orphans>>

(* nac_stop_stream and nac_tx_stop_stream; the latter waits first. *)
Stop(h, s) ==
  /\ Call(h, s) /\ stream[h][s].pbm = "live"
  /\ stream[h][s].started
  /\ block' = StreamPaused(h, s)
  /\ stream' = [stream EXCEPT ![h][s].started = FALSE]
  /\ UNCHANGED <<opened, configured, division, setups, orphans>>

(* nac_detach_stream and nac_tx_detach_stream, which may be called on a stream
   that runs.  pbm and buf keep their values: the former is freed. *)
Detach(h, s) ==
  LET st == stream[h][s] IN
  /\ Call(h, s)
  /\ st.mapped => st.pbm = "live"
  /\ block' = IF st.mapped THEN StreamPaused(h, s) ELSE block
  /\ stream' = [stream EXCEPT ![h][s] =
                  [st EXCEPT !.pbm = IF st.mapped THEN "freed" ELSE st.pbm,
                             !.attached = FALSE, !.started = FALSE]]
  /\ configured' = [configured EXCEPT ![h] = @ \ {s}]
  /\ UNCHANGED <<opened, division, setups, orphans>>

-----------------------------------------------------------------------------
Configure(h) ==
  \E n \in Counts :
    \/ \E done \in 0 .. n + 1 : MsuConfigure(h, n, done)
    \/ \E mode \in {"copy", "overlap"} : InlineConfigure(h, n, mode)
    \/ ProcInit(h, n)
    \/ \E s \in Rx : ProcConfig(h, s, n)

Use(h) ==
  \E s \in Rx \cup Tx :
    \/ Attach(h, s)
    \/ \E flags \in {"copy", "overlap"} : TxAttach(h, s, flags)
    \/ Start(h, s) \/ Stop(h, s) \/ Detach(h, s)

Next ==
  \E h \in Handles : Open(h) \/ Close(h) \/ Configure(h) \/ Use(h)

Spec == Init /\ [][Next]_vars

-----------------------------------------------------------------------------
(* Properties. *)

Addresses == 0 .. Area \cup {None}

(* "If we arrive this point, all has been successful" (lib/nac_stream.c:704): a
   stream that is attached has a pbm the other calls can follow, none that is
   null or was freed by an earlier detach, as long as the caller configures
   every stream again before attaching it again. *)
AttachedUsable ==
  \A h \in Handles, s \in Streams :
    stream[h][s].attached => stream[h][s].pbm = "live" /\ stream[h][s].at = s

Writers == {b \in Rx : ~block[b].paused}
Started == {s \in Rx : \E h \in Handles : stream[h][s].started}

(* "dma stop: in case not stop last time" (lib/nac_stream.c:68): once the card
   has been set up it writes to the memory of started streams only, whatever
   the program before has left behind; streams still run for nobody between
   the end of their process and the next set-up. *)
OnlyStartedWrite == Writers \subseteq Started \cup orphans

(* A stream that is started runs, over exactly the memory its handle has
   mapped, from its start, with the limit in it.  A transmit stream of overlap
   mode is excepted: its phyaddr and end address are never set. *)
RunsWhatItMaps ==
  \A h \in Handles, s \in Streams :
    stream[h][s].started /\ (s \in Tx => division[1] # "overlap") =>
      LET st == stream[h][s]
          b  == block[st.at]
      IN  /\ st.mapped /\ ~b.paused
          /\ b.lo = st.phyaddr /\ b.hi = st.phyaddr + st.size
          /\ b.loaded = b.lo
          /\ b.limit # None /\ b.limit \in b.lo .. b.hi
=============================================================================
