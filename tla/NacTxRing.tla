------------------------------ MODULE NacTxRing ------------------------------
(***************************************************************************)
(* One transmit stream of the NAC card: the DMA ring, the card that sends  *)
(* from it, the thread that fills it, through nac_tx_get_stream_space()    *)
(* and nac_tx_stream_commit_bytes() or through nac_tx_stream_copy_bytes(), *)
(* and the thread that stops it with nac_tx_stop_stream()                  *)
(* (lib/nac_stream.c).                                                     *)
(*                                                                         *)
(* The card owns the record pointer and sends the byte there until it      *)
(* meets the limit pointer, which the writer moves to commit bytes.  The   *)
(* writer caches how much space it knows to be free in free_space and only *)
(* reads the registers again when that is not enough.                      *)
(*                                                                         *)
(* The card is not in the repository; as in NacRxRing it stops at the      *)
(* limit, its record register reads Size at the end of the buffer until it *)
(* has to go on, and it does nothing while paused.                         *)
(*                                                                         *)
(* Ghost state: backlog, seq, owed, room and lapped, and what mem holds.    *)
(***************************************************************************)
EXTENDS Integers

CONSTANTS
  Size,        \* stream->size, bytes of the ring
  Window,      \* SAFETY_WINDOW (128), kept free by nac_tx_stream_copy_bytes
  Slack,       \* the 2048 bytes kept free by nac_tx_get_stream_space
  MaxRequest,  \* longest request the application makes
  Uses,        \* the sets of interfaces, out of "space" and "copy", that an
               \* application may use on one stream
  TagCount     \* committed bytes are numbered modulo TagCount (bounds seq)

ASSUME RingAssumption ==
  /\ Size \in Nat \ {0}
  /\ Window \in 1 .. Size
  /\ Slack \in 1 .. Size

ASSUME CallerAssumption ==
  /\ MaxRequest \in 1 .. Size
  /\ Uses \subseteq SUBSET {"space", "copy"}
  /\ TagCount \in Nat \ {0}

VARIABLES
  record,     \* record pointer register minus phyaddr: next byte to send
  limit,      \* limit pointer register minus phyaddr
  paused,     \* dma_pause_n = 0
  using,      \* the interfaces this application uses on the stream
  mem,        \* the buffer: which byte each cell holds
  pc,         \* where the writer is
  offset,     \* stream->offset: where the next byte is written
  freeSpace,  \* stream->free_space
  lastBottom, \* stream->last_bus_bottom minus phyaddr
  need,       \* the size argument of the call in progress
  stopPc,     \* where the thread in nac_tx_stop_stream is
  stopRecord, \* its local rcd
  stopLimit,  \* its local limit
  backlog,    \* ghost: bytes committed and not yet sent
  seq,        \* ghost: number of the next byte to be committed
  owed,       \* ghost: bytes of the backlog the stopping thread waits for
  room,       \* ghost: bytes the writer may commit before limit has come round
              \* to stopRecord, while the stopping thread is between its reads
  lapped      \* ghost: it has come round, or further, between the two reads

cardVars == <<record, paused>>
stopVars == <<stopPc, stopRecord, stopLimit, owed, room, lapped>>
vars == <<record, limit, paused, using, mem, pc, offset, freeSpace, lastBottom, need,
          stopPc, stopRecord, stopLimit, backlog, seq, owed, room, lapped>>

Tags == 0 .. TagCount - 1
Blank == TagCount          \* a cell nothing has been written to

-----------------------------------------------------------------------------
(* The pointer arithmetic. *)

(* Variant: equal pointers taken for a full ring. *)
SpaceFreeFull(rec, bot) == IF rec - bot < 0 THEN rec - bot + Size ELSE rec - bot

(* nac_tx_get_stream_space: everything but the backlog; equal pointers mean
   that the ring is empty. *)
SpaceFree(rec, bot) == IF rec - bot <= 0 THEN rec - bot + Size ELSE rec - bot

(* Variant: no safety window, as in nac_tx_get_stream_space. *)
CopyFreeWhole(rec, lim) == SpaceFree(rec, lim)

(* nac_tx_stream_copy_bytes: the same less SAFETY_WINDOW. *)
CopyFree(rec, lim) ==
  IF rec - (lim + Window) < 0 THEN rec - (lim + Window) + Size
                              ELSE rec - (lim + Window)

(* Variant: the offset is never taken back into the buffer. *)
OffsetUnwrapped(o) == o

(* nac_tx_stream_commit_bytes lets the offset rest on the end of the buffer. *)
CommitOffset(o) == IF o > Size THEN o - Size ELSE o

(* nac_tx_stream_copy_bytes does not. *)
CopyOffset(o) == IF o >= Size THEN o - Size ELSE o

(* Variant: the bytes that do not fit before the end are not put at its start. *)
FilledUnsplit(n) ==
  [c \in 0 .. Size - 1 |->
     IF c \in offset .. offset + n - 1 THEN (seq + c - offset) % TagCount ELSE mem[c]]

(* n bytes with the next numbers, written from offset on; the second mapping
   or the split memcpy puts what does not fit at the start of the buffer. *)
Filled(n) ==
  [c \in 0 .. Size - 1 |->
     LET i == (c - offset) % Size
     IN  IF i < n THEN (seq + i) % TagCount ELSE mem[c]]

-----------------------------------------------------------------------------
(* nac_tx_attach_stream and nac_tx_start_stream: limit is the start of the
   buffer, where addr_load has put record. *)
Init ==
  /\ record = 0 /\ limit = 0 /\ paused = FALSE
  /\ using \in Uses
  /\ mem = [c \in 0 .. Size - 1 |-> Blank]
  /\ pc = "idle" /\ offset = 0 /\ freeSpace = 0 /\ lastBottom = 0 /\ need = 0
  /\ stopPc = "running" /\ stopRecord = 0 /\ stopLimit = 0 /\ owed = 0
  /\ room = 0 /\ lapped = FALSE
  /\ backlog = 0 /\ seq = 0

(* nac_tx_get_stream_space: limit is read once, before the loop. *)
GetSpace(n) ==
  /\ pc = "idle"
  /\ "space" \in using
  /\ need' = n
  /\ lastBottom' = limit
  /\ pc' = "space"
  /\ UNCHANGED <<using, cardVars, limit, mem, offset, freeSpace, stopVars,
                 backlog, seq>>

SpacePoll ==
  /\ pc = "space"
  /\ freeSpace < need + Slack
  /\ freeSpace' = SpaceFree(record, lastBottom)
  /\ UNCHANGED <<using, cardVars, limit, mem, pc, offset, lastBottom, need,
                 stopVars, backlog, seq>>

(* Variant: the grant is not charged to the cached free space. *)
SpaceReturnUncharged ==
  /\ pc = "space"
  /\ freeSpace >= need + Slack
  /\ pc' = "granted"
  /\ UNCHANGED <<using, cardVars, limit, mem, offset, freeSpace, lastBottom,
                 need, stopVars, backlog, seq>>

SpaceReturn ==
  /\ pc = "space"
  /\ freeSpace >= need + Slack
  /\ freeSpace' = freeSpace - need
  /\ pc' = "granted"
  /\ UNCHANGED <<using, cardVars, limit, mem, offset, lastBottom, need,
                 stopVars, backlog, seq>>

(* The application writes its records at the pointer it was given. *)
Fill ==
  /\ pc = "granted"
  /\ mem' = Filled(need)
  /\ pc' = "filled"
  /\ UNCHANGED <<using, cardVars, limit, offset, freeSpace, lastBottom, need,
                 stopVars, backlog, seq>>

(* A commit of n bytes while the stopping thread is between its two reads. *)
Passed(n) == IF n < room THEN room - n ELSE 0

(* Variant: the limit register is written before the offset is advanced. *)
CommitBytesEarly(n) ==
  /\ pc = "filled"
  /\ n <= need
  /\ offset' = CommitOffset(offset + n)
  /\ lastBottom' = CommitOffset(offset + n)
  /\ limit' = offset
  /\ backlog' = backlog + n
  /\ seq' = (seq + n) % TagCount
  /\ room' = Passed(n)
  /\ pc' = "idle" /\ need' = 0
  /\ UNCHANGED <<using, cardVars, mem, freeSpace, stopPc, stopRecord, stopLimit, owed,
                 lapped>>

(* nac_tx_stream_commit_bytes, for what was written or the first part of it. *)
CommitBytes(n) ==
  /\ pc = "filled"
  /\ n <= need
  /\ offset' = CommitOffset(offset + n)
  /\ lastBottom' = CommitOffset(offset + n)
  /\ limit' = CommitOffset(offset + n)
  /\ backlog' = backlog + n
  /\ seq' = (seq + n) % TagCount
  /\ room' = Passed(n)
  /\ pc' = "idle" /\ need' = 0
  /\ UNCHANGED <<using, cardVars, mem, freeSpace, stopPc, stopRecord, stopLimit, owed,
                 lapped>>

(* nac_tx_stream_copy_bytes *)
CopyBytes(n) ==
  /\ pc = "idle"
  /\ "copy" \in using
  /\ need' = n
  /\ pc' = "copy"
  /\ UNCHANGED <<using, cardVars, limit, mem, offset, freeSpace, lastBottom,
                 stopVars, backlog, seq>>

CopyPoll ==
  /\ pc = "copy"
  /\ freeSpace < need
  /\ lastBottom' = limit
  /\ freeSpace' = CopyFree(record, limit)
  /\ UNCHANGED <<using, cardVars, limit, mem, pc, offset, need, stopVars,
                 backlog, seq>>

CopyFill ==
  /\ pc = "copy"
  /\ freeSpace >= need
  /\ freeSpace' = freeSpace - need
  /\ mem' = Filled(need)
  /\ pc' = "copied"
  /\ UNCHANGED <<using, cardVars, limit, offset, lastBottom, need, stopVars,
                 backlog, seq>>

CopyCommit ==
  /\ pc = "copied"
  /\ offset' = CopyOffset(offset + need)
  /\ lastBottom' = CopyOffset(offset + need)
  /\ limit' = CopyOffset(offset + need)
  /\ backlog' = backlog + need
  /\ seq' = (seq + need) % TagCount
  /\ room' = Passed(need)
  /\ pc' = "idle" /\ need' = 0
  /\ UNCHANGED <<using, cardVars, mem, freeSpace, stopPc, stopRecord, stopLimit, owed,
                 lapped>>

(* run_tx leaves its loop once shutdownInProgress is set. *)
Quit ==
  /\ pc = "idle"
  /\ pc' = "quit"
  /\ UNCHANGED <<using, cardVars, limit, mem, offset, freeSpace, lastBottom,
                 need, stopVars, backlog, seq>>

(* nac_tx_stop_stream: record is read once before limit, and again and again
   in the loop; the first test compares what was read before limit. *)
StopBegin ==
  /\ stopPc = "running"
  /\ stopRecord' = record
  /\ room' = Size - backlog
  /\ stopPc' = "limit"
  /\ UNCHANGED <<using, cardVars, limit, mem, pc, offset, freeSpace,
                 lastBottom, need, stopLimit, backlog, seq, owed, lapped>>

StopLimit ==
  /\ stopPc = "limit"
  /\ stopLimit' = limit
  /\ owed' = backlog
  /\ room' = 0 /\ lapped' = (room = 0)
  /\ stopPc' = "draining"
  /\ UNCHANGED <<using, cardVars, limit, mem, pc, offset, freeSpace,
                 lastBottom, need, stopRecord, backlog, seq>>

StopPoll ==
  /\ stopPc = "draining"
  /\ stopRecord # stopLimit
  /\ stopRecord' = record
  /\ UNCHANGED <<using, cardVars, limit, mem, pc, offset, freeSpace,
                 lastBottom, need, stopPc, stopLimit, backlog, seq, owed, room,
                 lapped>>

(* Variant: the DMA is paused without waiting. *)
StopEndAtOnce ==
  /\ stopPc = "draining"
  /\ paused' = TRUE
  /\ stopPc' = "stopped"
  /\ UNCHANGED <<using, record, limit, mem, pc, offset, freeSpace, lastBottom,
                 need, stopRecord, stopLimit, owed, room, lapped, backlog, seq>>

(* Variant: a limit on the end of the buffer is taken for one at its start. *)
StopEndWrapped ==
  /\ stopPc = "draining"
  /\ stopRecord = stopLimit % Size
  /\ paused' = TRUE
  /\ stopPc' = "stopped"
  /\ UNCHANGED <<using, record, limit, mem, pc, offset, freeSpace, lastBottom,
                 need, stopRecord, stopLimit, owed, room, lapped, backlog, seq>>

StopEnd ==
  /\ stopPc = "draining"
  /\ stopRecord = stopLimit
  /\ paused' = TRUE
  /\ stopPc' = "stopped"
  /\ UNCHANGED <<using, record, limit, mem, pc, offset, freeSpace, lastBottom,
                 need, stopRecord, stopLimit, owed, room, lapped, backlog, seq>>

(* External: the card sends the byte at record. *)
CardSend ==
  /\ ~paused
  /\ record # limit /\ record < Size
  /\ record' = record + 1
  /\ backlog' = backlog - 1
  /\ owed' = IF owed > 0 THEN owed - 1 ELSE 0
  /\ UNCHANGED <<using, limit, paused, mem, pc, offset, freeSpace, lastBottom,
                 need, stopPc, stopRecord, stopLimit, room, lapped, seq>>

(* External: the card goes on at the start of the buffer. *)
CardWrap ==
  /\ ~paused
  /\ record # limit /\ record = Size
  /\ record' = 0
  /\ UNCHANGED <<using, limit, paused, mem, pc, offset, freeSpace, lastBottom,
                 need, stopVars, backlog, seq>>

Writer ==
  \/ \E n \in 1 .. MaxRequest : GetSpace(n) \/ CommitBytes(n) \/ CopyBytes(n)
  \/ SpacePoll \/ SpaceReturn \/ Fill
  \/ CopyPoll \/ CopyFill \/ CopyCommit

Stopping == StopLimit \/ StopPoll \/ StopEnd
Stopper == StopBegin \/ Stopping
Card == CardSend \/ CardWrap

Next == Writer \/ Quit \/ Stopper \/ Card

Spec == Init /\ [][Next]_vars

(* The threads keep running and the link keeps sending; the application may
   quit or ask for a stop, or not. *)
FairSpec == Spec /\ WF_vars(Writer) /\ WF_vars(Stopping) /\ WF_vars(Card)

-----------------------------------------------------------------------------
(* Properties. *)

(* Every variable stays in its range; both pointers stay in the buffer. *)
TypeOK ==
  /\ record \in 0 .. Size /\ limit \in 0 .. Size
  /\ offset \in 0 .. Size /\ lastBottom \in 0 .. Size
  /\ stopRecord \in 0 .. Size /\ stopLimit \in 0 .. Size
  /\ paused \in BOOLEAN
  /\ using \in Uses
  /\ mem \in [0 .. Size - 1 -> Tags \cup {Blank}]
  /\ pc \in {"idle", "space", "granted", "filled", "copy", "copied", "quit"}
  /\ stopPc \in {"running", "limit", "draining", "stopped"}
  /\ freeSpace \in 0 .. Size
  /\ need \in 0 .. MaxRequest
  /\ backlog \in 0 .. Size /\ owed \in 0 .. Size /\ room \in 0 .. Size
  /\ lapped \in BOOLEAN
  /\ seq \in Tags

(* Bytes the writer has been granted and not committed. *)
Reserved == IF pc \in {"granted", "filled", "copied"} THEN need ELSE 0

(* The free space the library believes in was computed from a record pointer
   that has moved on since and is charged request by request; together with
   the grant in progress and the backlog it never reaches the size of the
   ring.  A ring that is completely full looks empty to the card and to the
   library. *)
NeverFull == freeSpace + Reserved + backlog <= Size /\ Reserved + backlog < Size

(* Number of the byte the card sends next. *)
HeadTag == (seq - backlog) % TagCount

(* From record on the ring holds exactly the committed bytes, in order: no
   write of the application, granted or copied, across the end of the buffer
   or not, has touched a byte that is still to be sent. *)
UnsentIntact ==
  \A i \in 0 .. backlog - 1 : mem[(record + i) % Size] = (HeadTag + i) % TagCount

(* The stream implements a bounded FIFO whose contents are read out of the
   memory of the ring, as the card will. *)
Fifo == INSTANCE TransmitFifo WITH
  Capacity <- Size,
  queue    <- [i \in 1 .. backlog |-> mem[(record + i - 1) % Size]]

ImplementsFifo == Fifo!TransmitSpec

(* nac_tx_stop_stream pauses the DMA only when everything committed before it
   has read the limit pointer has been sent, also while the writer goes on
   committing, as long as the writer has not taken the limit round the ring
   since the record pointer was read: the first test compares the two reads,
   and where limit has come round to the old record nothing is waited for. *)
StopDrains == [][StopEnd /\ ~lapped => owed = 0]_vars

(* "Wait until space is available" (lib/nac_stream.c:1410): a request that is
   accepted is served, unless another thread stops the stream. *)
RequestServed == pc \in {"space", "copy"} ~> (pc \in {"granted", "copied"} \/ paused)

(* A committed byte is sent, unless the stream is stopped. *)
CommittedSent ==
  \A t \in Tags : (backlog > 0 /\ HeadTag = t) ~> (HeadTag # t \/ paused)

(* A stop comes to an end once the writer has left its loop without having
   committed anything behind the limit the stop has read: a limit that rests
   on the end of the buffer is met there. *)
StopReturns ==
  (stopPc = "draining" /\ pc = "quit" /\ stopLimit = limit) ~> stopPc = "stopped"
=============================================================================
