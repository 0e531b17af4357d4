------------------------------ MODULE NacFlowRx ------------------------------
(***************************************************************************)
(* The receiving threads of flow_test (run_rx and find_nextpacketinlist in *)
(* src/flow_test/flow_test.c): a sender repeats the packets of a file,     *)
(* numbered 1 .. TxCount, round after round; the receiver writes them to   *)
(* the file in order and keeps a packet that is ahead of its turn in the   *)
(* table "list" until the one it waits for has come.  list is one global   *)
(* array that the threads of all streams use.                              *)
(*                                                                         *)
(* The network between the two is external: it may let some later packets  *)
(* of a stream pass a packet and lose some packets, how many is chosen in  *)
(* the initial state.                                                      *)
(*                                                                         *)
(* Ghost state: every packet has a number idx that tells the rounds apart  *)
(* (packets carry only their sequence number), written counts the packets  *)
(* written, owner remembers which thread filled a slot.                    *)
(***************************************************************************)
EXTENDS Integers, Sequences, FiniteSets, SequencesExt

CONSTANTS
  Streams,     \* the receiving threads
  TxCount,     \* file.tx_count
  Slots,       \* slots of list (10)
  Networks,    \* what networks may do: [overtakes |-> later packets that may
               \* pass a packet on its way, losses |-> packets that may be lost]
  Rounds       \* ghost numbers are taken modulo Rounds * TxCount

ASSUME FlowAssumption ==
  /\ TxCount \in Nat \ {0} /\ Slots \in Nat \ {0}
  /\ Networks \subseteq [overtakes : Nat, losses : Nat]
  /\ Rounds \in Nat \ {0, 1}

VARIABLES
  network,   \* the network between sender and receiver, one of Networks
  next,      \* of each stream: idx of the packet run_tx sends next
  quit,      \* run_tx has seen shutdownInProgress
  wire,      \* packets under way, as sent: [idx, passed]
  losses,    \* packets lost
  pc,        \* of each thread: "receive", "drain", "gaveUp", "stopped"
  verify,    \* verify_seq
  list,      \* of each slot: [idx, owner]; Free when its seqnum is 0
  written,   \* ghost: idx of the packet the file needs next
  files      \* rx_right_cnt of each stream, modulo 2

vars == <<network, next, quit, wire, losses, pc, verify, list, written, files>>

Indices == 0 .. (Rounds * TxCount) - 1
Seqnum(idx) == (idx % TxCount) + 1
After(idx) == (idx + 1) % (Rounds * TxCount)
(* A slot whose seqnum is 0. *)
Free == [idx |-> -1, owner |-> "none"]
Slot == 1 .. Slots

(* The first slot of S, as the loops over list find it. *)
FirstSlot(S) == CHOOSE i \in S : \A j \in S : i <= j
FreeSlots == {i \in Slot : list[i] = Free}
Wanted(s) == {i \in Slot : list[i] # Free /\ Seqnum(list[i].idx) = verify[s]}

-----------------------------------------------------------------------------
Init ==
  /\ network \in Networks
  /\ next = [s \in Streams |-> 0]
  /\ quit = [s \in Streams |-> FALSE]
  /\ wire = [s \in Streams |-> <<>>]
  /\ losses = 0
  /\ pc = [s \in Streams |-> "receive"]
  /\ verify = [s \in Streams |-> 1]
  /\ list = [i \in Slot |-> Free]
  /\ written = [s \in Streams |-> 0]
  /\ files = [s \in Streams |-> 0]

(* run_tx commits the packets in order; a window's worth is under way. *)
Send(s) ==
  /\ ~quit[s]
  /\ Len(wire[s]) <= network.overtakes
  /\ wire' = [wire EXCEPT ![s] = Append(@, [idx |-> next[s], passed |-> 0])]
  /\ next' = [next EXCEPT ![s] = After(@)]
  /\ UNCHANGED <<network, quit, losses, pc, verify, list, written, files>>

(* run_tx leaves its loop, which it does between two rounds only. *)
SendQuit(s) ==
  /\ ~quit[s] /\ Seqnum(next[s]) = 1
  /\ quit' = [quit EXCEPT ![s] = TRUE]
  /\ UNCHANGED <<network, next, wire, losses, pc, verify, list, written, files>>

(* External: the packets of s that can be the next to arrive. *)
Arrivals(s) ==
  {i \in DOMAIN wire[s] :
     \A j \in 1 .. i - 1 : wire[s][j].passed < network.overtakes}

(* External: packet i leaves the network, the ones sent before it wait. *)
Leave(s, i) ==
  LET passing == [j \in DOMAIN wire[s] |->
                    IF j < i THEN [wire[s][j] EXCEPT !.passed = @ + 1]
                    ELSE wire[s][j]]
  IN  wire' = [wire EXCEPT ![s] = RemoveAt(passing, i)]

Lose(s) ==
  /\ losses < network.losses
  /\ \E i \in DOMAIN wire[s] : wire' = [wire EXCEPT ![s] = RemoveAt(@, i)]
  /\ losses' = losses + 1
  /\ UNCHANGED <<network, next, quit, pc, verify, list, written, files>>

-----------------------------------------------------------------------------
(* What writing the packet with number verify does, in run_rx and in
   find_nextpacketinlist alike: the first packet opens the file, which is
   looked at before whether it is the last one; the last one closes it. *)
ClosesFile(seq) == seq # 1 /\ seq = TxCount

Write(s, idx) ==
  /\ verify' = [verify EXCEPT ![s] = IF ClosesFile(@) THEN 1 ELSE @ + 1]
  /\ files' = IF ClosesFile(verify[s]) THEN [files EXCEPT ![s] = 1 - @] ELSE files
  /\ written' = [written EXCEPT ![s] = IF @ = idx THEN After(idx) ELSE @]

(* The packet that is waited for arrives. *)
ReceiveInOrder(s) ==
  /\ pc[s] = "receive"
  /\ \E i \in Arrivals(s) :
       /\ Seqnum(wire[s][i].idx) = verify[s]
       /\ Write(s, wire[s][i].idx)
       /\ Leave(s, i)
  /\ pc' = [pc EXCEPT ![s] = "drain"]
  /\ UNCHANGED <<network, next, quit, losses, list>>

(* Another packet arrives and is kept in the first free slot. *)
ReceiveAhead(s) ==
  /\ pc[s] = "receive"
  /\ FreeSlots # {}
  /\ \E i \in Arrivals(s) :
       /\ Seqnum(wire[s][i].idx) # verify[s]
       /\ list' = [list EXCEPT ![FirstSlot(FreeSlots)] =
                     [idx |-> wire[s][i].idx, owner |-> s]]
       /\ Leave(s, i)
  /\ UNCHANGED <<network, next, quit, losses, pc, verify, written, files>>

(* There is no free slot: the thread ends, an_stop is not set. *)
GiveUp(s) ==
  /\ pc[s] = "receive"
  /\ FreeSlots = {}
  /\ \E i \in Arrivals(s) : Seqnum(wire[s][i].idx) # verify[s] /\ Leave(s, i)
  /\ pc' = [pc EXCEPT ![s] = "gaveUp"]
  /\ UNCHANGED <<network, next, quit, losses, verify, list, written, files>>

(* Variants of DrainOne: the slot is not given back; only one kept packet is
   looked for. *)
DrainOneKeeps(s) ==
  /\ pc[s] = "drain" /\ Wanted(s) # {}
  /\ Write(s, list[FirstSlot(Wanted(s))].idx)
  /\ UNCHANGED <<network, next, quit, wire, losses, pc, list>>
DrainOneOnly(s) ==
  /\ pc[s] = "drain" /\ Wanted(s) # {}
  /\ Write(s, list[FirstSlot(Wanted(s))].idx)
  /\ list' = [list EXCEPT ![FirstSlot(Wanted(s))] = Free]
  /\ pc' = [pc EXCEPT ![s] = "receive"]
  /\ UNCHANGED <<network, next, quit, wire, losses>>

(* find_nextpacketinlist finds the next packet in list. *)
DrainOne(s) ==
  /\ pc[s] = "drain" /\ Wanted(s) # {}
  /\ Write(s, list[FirstSlot(Wanted(s))].idx)
  /\ list' = [list EXCEPT ![FirstSlot(Wanted(s))] = Free]
  /\ UNCHANGED <<network, next, quit, wire, losses, pc>>

(* It does not. *)
DrainEnd(s) ==
  /\ pc[s] = "drain" /\ Wanted(s) = {}
  /\ pc' = [pc EXCEPT ![s] = "receive"]
  /\ UNCHANGED <<network, next, quit, wire, losses, verify, list, written, files>>

(* 20 seconds without a packet: nothing is under way any more. *)
TimeOut(s) ==
  /\ pc[s] = "receive" /\ quit[s] /\ wire[s] = <<>>
  /\ pc' = [pc EXCEPT ![s] = "stopped"]
  /\ UNCHANGED <<network, next, quit, wire, losses, verify, list, written, files>>

Receive(s) ==
  \/ ReceiveInOrder(s) \/ ReceiveAhead(s) \/ GiveUp(s)
  \/ DrainOne(s) \/ DrainEnd(s)
  \/ TimeOut(s)

Next == \E s \in Streams : Send(s) \/ SendQuit(s) \/ Lose(s) \/ Receive(s)

Spec == Init /\ [][Next]_vars

(* The threads run, and what is under way arrives. *)
FairSpec == Spec /\ \A s \in Streams : WF_vars(Send(s)) /\ WF_vars(Receive(s))

-----------------------------------------------------------------------------
(* Properties. *)

(* "run_rx:lost too much chip" (src/flow_test/flow_test.c:503): the thread
   gives up only if a packet was lost. *)
LostMeansLost == (\E s \in Streams : pc[s] = "gaveUp") => losses > 0

(* The file gets the packets in the order they were sent, each once, although
   they carry no number of the round: verify and the ghost agree. *)
InOrder == losses = 0 => \A s \in Streams : verify[s] = Seqnum(written[s])

(* Losses after which a thread cannot be short of slots: the packet is sent
   again in the next round, and what comes before that fits into list. *)
Bearable == IF Slots >= (TxCount - 1) + network.overtakes THEN 1 ELSE 0

(* Files keep being completed as long as the sender goes on, also after a
   packet was lost; only a thread that has lost more than list can bear gives
   up. *)
FilesKeepComing ==
  \A s \in Streams, f \in {0, 1} :
    files[s] = f ~> \/ files[s] # f \/ quit[s]
                    \/ pc[s] = "gaveUp" /\ losses > Bearable
=============================================================================
