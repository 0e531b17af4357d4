------------------------------ MODULE NacRxRing ------------------------------
(***************************************************************************)
(* One receive stream of the NAC card: the DMA ring, the card that fills   *)
(* it, and the thread that drains it with nac_advance_stream()             *)
(* (lib/nac_stream.c).                                                     *)
(*                                                                         *)
(* The card owns the record pointer and writes captured bytes at it until  *)
(* it meets the limit pointer; the library owns the limit pointer.  Both   *)
(* are registers, so every access is a step of its own and the card runs   *)
(* between any two of them.  The ring is mapped twice in a row into the    *)
(* application (nac_attach_stream), so bottom and top are offsets into     *)
(* 0 .. Size + ExtraWindow and byte x of the view is byte x % Size of the  *)
(* buffer.                                                                 *)
(*                                                                         *)
(* The card is not in the repository.  What is assumed of it is what the   *)
(* library relies on: it stops when record = limit, it does not write      *)
(* while paused, and at the end of the buffer the record register reads    *)
(* Size until the card has to go on (nac_rft_start and nac_tx_stop_stream  *)
(* both wait for record to become equal to a limit that may be the end of  *)
(* the buffer).                                                            *)
(*                                                                         *)
(* Ghost state: pending and seq, and the values put in mem, exist to state *)
(* properties; no action is guarded by them.                               *)
(***************************************************************************)
EXTENDS Integers

CONSTANTS
  Size,         \* stream->size, bytes of the ring
  Window,       \* SAFETY_WINDOW, also the alignment mask 0x7f + 1 (128)
  ExtraWindow,  \* stream->extra_window_size, bytes mapped a second time
  MaxRecord,    \* longest record (rlen) the application takes at once
  MinDataChoices,  \* values of mindata the application asks for
  DefaultMinData,  \* nac_record_size, which nac_attach_stream sets
  TagCount      \* captured bytes are numbered modulo TagCount (bounds seq)

ASSUME RingAssumption ==
  /\ Window \in Nat \ {0}
  /\ Size \in Nat \ {0}
  /\ Size % Window = 0
  /\ ExtraWindow \in 1 .. Size

ASSUME CallerAssumption ==
  /\ MaxRecord \in Nat \ {0}
  /\ MinDataChoices \subseteq Nat
  /\ DefaultMinData \in MinDataChoices
  /\ TagCount \in Nat \ {0}

VARIABLES
  record,   \* record pointer register minus phyaddr: next byte the card writes
  limit,    \* limit pointer register minus phyaddr
  paused,   \* dma_pause_n = 0
  mindata,  \* stream->mindata
  maxwait,  \* timerisset(&stream->maxwait)
  mem,      \* the buffer: which captured byte each cell holds
  pc,       \* where the draining thread is
  bottom,   \* the application's bottom pointer minus buf
  top,      \* what the last nac_advance_stream() returned, minus buf
  offset,   \* the local of that name, minus buf: record as last read
  late,     \* the time of day has passed expire
  now,      \* the last gettimeofday() saw it passed
  pending,  \* ghost: bytes captured and not yet consumed
  seq       \* ghost: number of the next byte to be captured

cardVars == <<record, mem, seq>>
clockVars == <<late, now>>
pollVars == <<mindata, maxwait>>
vars == <<record, limit, paused, mindata, maxwait, mem, pc, bottom, top, offset,
          late, now, pending, seq>>

Tags == 0 .. TagCount - 1
Blank == TagCount          \* a cell the card has not written in this session

-----------------------------------------------------------------------------
(* The pointer arithmetic of nac_advance_stream. *)

(* bottom & 0x7f..80: the start of the window-sized block x lies in. *)
Align(x) == x - (x % Window)

(* Variants a bug would produce, which the runs must tell from the code:
   stopping one window above the reader, and keeping two windows. *)
WrsafeAhead(x) == IF x + Window >= Size THEN Size ELSE x + Window
WrsafeDouble(x) == IF x - 2 * Window <= 0 THEN Size - Window ELSE x - 2 * Window

(* WRSAFE: one window below x, the end of the buffer when there is none. *)
Wrsafe(x) == IF x - Window <= 0 THEN Size ELSE x - Window

(* Variant: a bottom pointer that is never taken back. *)
NormaliseNot(x) == x

(* A bottom that has run into the second mapping is taken back, but Size
   itself is not. *)
Normalise(x) == IF x > Size THEN x - Size ELSE x

(* Bytes between the aligned bottom b and the record position o. *)
Available(o, b) == IF o >= b THEN o - b ELSE Size - b + o

(* Variants of TopOf: equal pointers taken for a full ring; always keeping two
   windows back. *)
TopOfEmptyFull(o, b) ==
  LET unwrapped == IF o <= b THEN o + Size ELSE o
      clamped   == IF unwrapped > Size + ExtraWindow
                   THEN Size + ExtraWindow ELSE unwrapped
  IN  IF clamped - b >= Window THEN clamped - Window ELSE clamped
TopOfTimid(o, b) ==
  LET unwrapped == IF o < b THEN o + Size ELSE o
  IN  IF unwrapped - b >= 2 * Window THEN unwrapped - 2 * Window ELSE b

(* The pointer returned to the application: the record position seen from b,
   kept inside the double mapping, less one window when there is one. *)
TopOf(o, b) ==
  LET unwrapped == IF o < b THEN o + Size ELSE o
      clamped   == IF unwrapped > Size + ExtraWindow
                   THEN Size + ExtraWindow ELSE unwrapped
  IN  IF clamped - b >= Window THEN clamped - Window ELSE clamped

-----------------------------------------------------------------------------
(* nac_msu_configure loads the start address and leaves the DMA paused;
   nac_attach_stream maps the ring.  It does not write the limit register. *)
Init ==
  /\ record = 0 /\ limit \in {0, Size} /\ paused = TRUE
  /\ mindata = DefaultMinData /\ maxwait = FALSE
  /\ mem = [i \in 0 .. Size - 1 |-> Blank]
  /\ pc = "attached"
  /\ bottom = 0 /\ top = 0 /\ offset = 0
  /\ late = FALSE /\ now = FALSE
  /\ pending = 0 /\ seq = 0

(* nac_set_stream_poll, between attach and start as in run_rx. *)
SetStreamPoll(m, w) ==
  /\ pc = "attached"
  /\ mindata' = m
  /\ maxwait' = w
  /\ UNCHANGED <<cardVars, limit, paused, pc, bottom, top, offset, clockVars, pending>>

(* nac_start_stream *)
StartStream ==
  /\ pc = "attached"
  /\ limit' = Size
  /\ paused' = FALSE
  /\ pc' = "idle"
  /\ UNCHANGED <<pollVars, cardVars, bottom, top, offset, clockVars, pending>>

(* nac_stop_stream, called by the application between two advances. *)
StopStream ==
  /\ pc = "idle"
  /\ paused' = TRUE
  /\ pc' = "stopped"
  /\ UNCHANGED <<pollVars, cardVars, limit, bottom, top, offset, clockVars, pending>>

(* nac_advance_stream up to the first read of the record pointer.  The
   application calls it when it may no longer hold a whole record (run_rx
   leaves its inner loop when less than rlen is left). *)
AdvanceBegin ==
  /\ pc = "idle"
  /\ top - bottom < MaxRecord
  /\ bottom' = Normalise(bottom)
  /\ offset' = record
  /\ late' = FALSE /\ now' = FALSE
  /\ pc' = "snapshot"
  /\ UNCHANGED <<pollVars, cardVars, limit, paused, top, pending>>

PauseDma ==
  /\ pc = "snapshot"
  /\ paused' = TRUE
  /\ pc' = "paused"
  /\ UNCHANGED <<pollVars, cardVars, limit, bottom, top, offset, clockVars, pending>>

WriteLimit ==
  /\ pc = "paused"
  /\ limit' = Wrsafe(Align(bottom))
  /\ pc' = "limited"
  /\ UNCHANGED <<pollVars, cardVars, paused, bottom, top, offset, clockVars, pending>>

ResumeDma ==
  /\ pc = "limited"
  /\ paused' = FALSE
  /\ pc' = "wait"
  /\ UNCHANGED <<pollVars, cardVars, limit, bottom, top, offset, clockVars, pending>>

(* The waiting loop goes round: sleep, read record again, read the clock. *)
TimedOut == maxwait /\ now

Poll ==
  /\ pc = "wait"
  /\ Available(offset, Align(bottom)) < mindata
  /\ ~TimedOut
  /\ offset' = record
  /\ now' = IF maxwait THEN late ELSE now
  /\ UNCHANGED <<pollVars, cardVars, limit, paused, pc, bottom, top, late, pending>>

(* The waiting loop ends and the function returns. *)
AdvanceReturn ==
  /\ pc = "wait"
  /\ Available(offset, Align(bottom)) >= mindata \/ TimedOut
  /\ top' = TopOf(offset, Align(bottom))
  /\ pc' = "idle"
  /\ UNCHANGED <<pollVars, cardVars, limit, paused, bottom, offset, clockVars, pending>>

(* The application moves its bottom pointer over a record of n bytes that
   lies inside the window it was given. *)
Consume(n) ==
  /\ pc = "idle"
  /\ bottom + n <= top
  /\ bottom' = bottom + n
  /\ pending' = pending - n
  /\ UNCHANGED <<pollVars, cardVars, limit, paused, pc, top, offset, clockVars>>

(* The wall clock reaches expire while the thread is inside the call. *)
TimePasses ==
  /\ pc \in {"snapshot", "paused", "limited", "wait"}
  /\ maxwait /\ ~late
  /\ late' = TRUE
  /\ UNCHANGED <<pollVars, cardVars, limit, paused, pc, bottom, top, offset,
                 now, pending>>

(* External: the card stores the next captured byte. *)
CardWrite ==
  /\ ~paused
  /\ record # limit /\ record < Size
  /\ mem' = [mem EXCEPT ![record] = seq]
  /\ record' = record + 1
  /\ seq' = (seq + 1) % TagCount
  /\ pending' = pending + 1
  /\ UNCHANGED <<pollVars, limit, paused, pc, bottom, top, offset, clockVars>>

(* External: the card goes on at the start of the buffer. *)
CardWrap ==
  /\ ~paused
  /\ record # limit /\ record = Size
  /\ record' = 0
  /\ UNCHANGED <<pollVars, limit, paused, mem, pc, bottom, top, offset,
                 clockVars, pending, seq>>

Next ==
  \/ \E m \in MinDataChoices, w \in BOOLEAN : SetStreamPoll(m, w)
  \/ StartStream \/ StopStream
  \/ AdvanceBegin \/ PauseDma \/ WriteLimit \/ ResumeDma
  \/ Poll \/ AdvanceReturn
  \/ \E n \in 1 .. MaxRecord : Consume(n)
  \/ TimePasses
  \/ CardWrite \/ CardWrap

Spec == Init /\ [][Next]_vars

-----------------------------------------------------------------------------
(* Fairness.  The thread keeps running and time passes.  Nothing is assumed
   of the card: traffic may stop for good, and so may the application. *)
Reader ==
  \/ AdvanceBegin \/ PauseDma \/ WriteLimit \/ ResumeDma
  \/ Poll \/ AdvanceReturn
  \/ \E n \in 1 .. MaxRecord : Consume(n)

FairReader == Spec /\ WF_vars(Reader) /\ WF_vars(TimePasses)

(* A card that never runs out of traffic: a premise of one property only. *)
Traffic == WF_vars(CardWrite \/ CardWrap)

-----------------------------------------------------------------------------
(* Properties. *)

(* Every variable stays in its range; record and limit stay inside the
   buffer, the pointers of the application inside the double mapping. *)
TypeOK ==
  /\ record \in 0 .. Size
  /\ limit \in 0 .. Size
  /\ paused \in BOOLEAN
  /\ mindata \in MinDataChoices
  /\ maxwait \in BOOLEAN
  /\ mem \in [0 .. Size - 1 -> Tags \cup {Blank}]
  /\ pc \in {"attached", "idle", "snapshot", "paused", "limited", "wait", "stopped"}
  /\ bottom \in 0 .. Size + ExtraWindow
  /\ top \in 0 .. Size + ExtraWindow
  /\ offset \in 0 .. Size
  /\ late \in BOOLEAN
  /\ now \in BOOLEAN
  /\ pending \in 0 .. Size
  /\ seq \in Tags

(* How many bytes the card may still write before it meets the limit. *)
Room == IF limit >= record THEN limit - record ELSE limit - record + Size

(* The limit pointer never lets the card reach a byte the application has
   not consumed, however the card's writes interleave with the read of the
   record pointer, the write of the limit and the move of bottom: what is
   pending and what may still be written fit in the ring together. *)
NoOverrun == pc # "attached" => pending + Room <= Size

(* The window handed to the application holds captured bytes only: top is
   never past the record pointer, also when it was computed from a record
   value that is already old, or across the end of the buffer. *)
LentIsCaptured == pc = "idle" => top <= bottom + pending

(* Number of the byte the application consumes next. *)
HeadTag == (seq - pending) % TagCount

(* The stream implements a bounded FIFO whose contents are read out of the
   memory of the ring: what the application reads from bottom on, through either
   mapping, are the captured bytes, each once and in the order of capture, and
   none is overwritten while it waits. *)
Fifo == INSTANCE CaptureFifo WITH
  Data     <- Tags \cup {Blank},
  Capacity <- Size,
  queue    <- [i \in 1 .. pending |-> mem[(bottom + i - 1) % Size]],
  lent     <- IF pc = "idle" /\ top > bottom THEN top - bottom ELSE 0

ImplementsFifo == Fifo!FifoSpec

(* nac_advance_stream moves the limit pointer forward only: a step that
   rewrites it never takes away room from the card. *)
LimitOnlyAdvances == [][WriteLimit => Room' >= Room]_vars

(* With maxwait a byte at the head of the stream is consumed eventually when
   a window and a record are pending with it, even if no byte follows. *)
HeadConsumed ==
  \A t \in Tags :
    (pending >= Window + MaxRecord /\ HeadTag = t /\ maxwait /\ pc # "stopped")
      ~> (HeadTag # t \/ pc = "stopped")

(* A card that has run into the limit pointer is given room again. *)
StallEnds ==
  (Room = 0 /\ maxwait /\ pc \notin {"attached", "stopped"})
    ~> (Room > 0 \/ pc = "stopped")

(* Without maxwait, a call that waits for mindata bytes returns if traffic
   goes on: the limit it has written leaves room for them. *)
AdvanceReturns == Traffic => (pc = "snapshot" ~> pc = "idle")
=============================================================================
