---------------------------- MODULE TransmitFifo ----------------------------
(***************************************************************************)
(* What a transmit stream promises its application: committed bytes join   *)
(* a bounded FIFO in one piece, the card sends them from the head, and a   *)
(* byte that has been committed is never changed before it is sent.        *)
(* NacTxRing is shown to implement this specification.                     *)
(***************************************************************************)
EXTENDS Naturals, Sequences

CONSTANT Capacity     \* bytes the buffer can hold

VARIABLE queue        \* committed, not yet sent; the oldest byte first

TransmitInit == queue = <<>>

(* The application commits some bytes: the queue grows at its end only. *)
Commit ==
  /\ Len(queue') > Len(queue)
  /\ Len(queue') <= Capacity
  /\ SubSeq(queue', 1, Len(queue)) = queue

(* The card sends the oldest byte. *)
Send == queue # <<>> /\ queue' = Tail(queue)

TransmitNext == Commit \/ Send

TransmitSpec == TransmitInit /\ [][TransmitNext]_queue
=============================================================================
