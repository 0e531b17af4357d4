----------------------------- MODULE CaptureFifo -----------------------------
(***************************************************************************)
(* What a receive stream promises its application, with no ring, pointer   *)
(* or register in sight: the card appends what it captures to a bounded    *)
(* FIFO, the library lends the reader a prefix of it, and the reader gives *)
(* lent bytes back in order.  Nothing that has been captured and not given *)
(* back is ever changed, dropped or reordered.                             *)
(* NacRxRing is shown to implement this specification.                     *)
(***************************************************************************)
EXTENDS Naturals, Sequences

CONSTANTS
  Data,      \* what a captured byte can be
  Capacity   \* bytes the buffer can hold

VARIABLES
  queue,     \* captured, not yet given back; the oldest byte first
  lent       \* how many bytes at the head the reader may look at

fifoVars == <<queue, lent>>

FifoInit == queue = <<>> /\ lent = 0

(* The card adds a byte, if there is space for it. *)
Capture ==
  /\ Len(queue) < Capacity
  /\ \E d \in Data : queue' = Append(queue, d)
  /\ UNCHANGED lent

(* The library lends the reader a prefix; it may also withdraw the loan. *)
Lend ==
  /\ lent' \in 0 .. Len(queue)
  /\ UNCHANGED queue

(* The reader is done with the first n bytes it was lent. *)
Release(n) ==
  /\ n <= lent
  /\ queue' = SubSeq(queue, n + 1, Len(queue))
  /\ lent' = lent - n

FifoNext == Capture \/ Lend \/ \E n \in 1 .. Capacity : Release(n)

FifoSpec == FifoInit /\ [][FifoNext]_fifoVars
=============================================================================
