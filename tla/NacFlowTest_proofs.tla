-------------------------- MODULE NacFlowTest_proofs --------------------------
(***************************************************************************)
(* Proofs about flow_test: a receiving thread, for every number of packets *)
(* in a round, of slots in list and of packets that may overtake one, and  *)
(* the shutdown, for every number of streams.                              *)
(*                                                                         *)
(* Packets carry their place in the round only, and a slot is looked up by *)
(* it.  That the right one is written depends on how far ahead of its turn *)
(* a packet can be, and that list does not fill on how many packets can    *)
(* have overtaken the one that is waited for.  The inductive invariant     *)
(* Flow counts in distances from the packet the file needs next: of each   *)
(* packet under way it says how many have been sent after it, of list that *)
(* it holds packets that have overtaken one that is missing, and of the    *)
(* two together that nothing is missing or there twice.                    *)
(*                                                                         *)
(* shutdown_flow() waits for the flags of the receivers before it takes    *)
(* their streams away, so their safety follows from the order of the       *)
(* handler's steps.  For the senders it does not wait.  That they have     *)
(* left before their streams go follows from time alone, and by way of one *)
(* receiver: the last one, whose limit can only run out after a whole tick *)
(* of a shutdown, because main starts its sender and the capture before it *)
(* has been idle for two ticks.  For this the limit must be longer than    *)
(* main's sleep between a receiver and its sender.                         *)
(***************************************************************************)
EXTENDS NacFlowRx, NacFlowShutdown, NumberFacts, SequenceTheorems, FiniteSetTheorems, TLAPS

(* What the theorems are about: a thread that has list for itself, a file of more
   than one packet, and a network in which no more packets overtake one than list
   has slots, nor more than half of the packets of a round. *)
OneReceiver ==
  /\ \A s, t \in Streams : s = t
  /\ TxCount >= 2
  /\ \A n \in Networks : n.overtakes <= Slots /\ 2 * n.overtakes <= TxCount

-----------------------------------------------------------------------------
(* Numbers and distances. *)

Turn == Rounds * TxCount

(* How many packets after w the packet i was sent. *)
Dist(i, w) == (i - w) % Turn

(* The numbers of the packets start again after a whole number of rounds. *)
LEMMA TurnFacts ==
  /\ Turn \in Nat \ {0} /\ TxCount \in Nat \ {0} /\ 2 * TxCount <= Turn
  /\ Indices = 0 .. Turn - 1
<1>1. Rounds \in Nat /\ Rounds >= 2 /\ TxCount \in Nat \ {0}
  BY FlowAssumption
<1>2. Rounds * TxCount \in Nat /\ 2 * TxCount <= Rounds * TxCount
  BY <1>1
<1> QED
  BY <1>1, <1>2 DEF Turn, Indices

(* The distance of two numbers below Turn. *)
LEMMA DistValue ==
  ASSUME NEW i \in Indices, NEW w \in Indices
  PROVE  Dist(i, w) = IF i < w THEN i - w + Turn ELSE i - w
<1> DEFINE x == i - w
<1>1. x \in Int /\ -Turn <= x /\ x < Turn
  BY TurnFacts
<1> HIDE DEF x
<1>2. x % Turn = IF x < 0 THEN x + Turn ELSE x
  BY <1>1, TurnFacts, DistanceMod
<1>3. Dist(i, w) = IF x < 0 THEN x + Turn ELSE x
  BY <1>2 DEF Dist, x
<1> QED
  BY <1>3, TurnFacts DEF x

(* The number after i, which starts again from 0. *)
LEMMA AfterValue ==
  ASSUME NEW i \in Indices
  PROVE  After(i) = (IF i = Turn - 1 THEN 0 ELSE i + 1) /\ After(i) \in Indices
<1> DEFINE x == i + 1
<1>1. x \in Nat /\ x < 2 * Turn
  BY TurnFacts
<1>2. After(i) = x % Turn
  BY DEF After, Turn
<1> HIDE DEF x
<1>3. x % Turn = IF x < Turn THEN x ELSE x - Turn
  BY <1>1, TurnFacts, SmallMod
<1> QED
  BY <1>2, <1>3, TurnFacts DEF x

(* What sending, and writing, the next packet does to a distance. *)
LEMMA DistFacts ==
  ASSUME NEW i \in Indices, NEW w \in Indices
  PROVE  /\ Dist(i, w) \in 0 .. Turn - 1
         /\ Dist(i, w) = 0 <=> i = w
         /\ Dist(i, w) + 1 < Turn => Dist(After(i), w) = Dist(i, w) + 1
         /\ Dist(i, w) > 0 => Dist(i, After(w)) = Dist(i, w) - 1
<1>1. Dist(i, w) = IF i < w THEN i - w + Turn ELSE i - w
  BY DistValue
<1>2. /\ After(i) = (IF i = Turn - 1 THEN 0 ELSE i + 1) /\ After(i) \in Indices
      /\ After(w) = (IF w = Turn - 1 THEN 0 ELSE w + 1) /\ After(w) \in Indices
  BY AfterValue
<1>3. Dist(After(i), w) = IF After(i) < w THEN After(i) - w + Turn ELSE After(i) - w
  BY <1>2, DistValue
<1>4. Dist(i, After(w)) = IF i < After(w) THEN i - After(w) + Turn ELSE i - After(w)
  BY <1>2, DistValue
<1> QED
  BY <1>1, <1>2, <1>3, <1>4, TurnFacts

(* Packets that are at the same distance are the same. *)
LEMMA DistEqual ==
  ASSUME NEW i \in Indices, NEW j \in Indices, NEW w \in Indices, Dist(i, w) = Dist(j, w)
  PROVE  i = j
<1>1. /\ Dist(i, w) = IF i < w THEN i - w + Turn ELSE i - w
      /\ Dist(j, w) = IF j < w THEN j - w + Turn ELSE j - w
  BY DistValue
<1>2. (IF i < w THEN i - w + Turn ELSE i - w) = (IF j < w THEN j - w + Turn ELSE j - w)
  BY <1>1, Zenon
<1>3. /\ i \in 0 .. Turn - 1 /\ j \in 0 .. Turn - 1 /\ w \in 0 .. Turn - 1
      /\ Turn \in Nat
  BY TurnFacts
<1>4. \A T \in Nat : \A a, b, c \in 0 .. T - 1 :
        (IF a < c THEN a - c + T ELSE a - c) = (IF b < c THEN b - c + T ELSE b - c)
          => a = b
  OBVIOUS
<1> QED
  BY <1>2, <1>3, <1>4

(* A multiple of a number that is smaller than it. *)
LEMMA SmallMultiple ==
  ASSUME NEW T \in Nat \ {0}, NEW m \in Int, NEW x \in 0 .. T - 1, x = T * m
  PROVE  x = 0
<1>1. x = T * m + 0 /\ x = T * 0 + x /\ 0 \in 0 .. T - 1 /\ x \in Int
  OBVIOUS
<1>2. x % T = 0
  BY <1>1, Remainder
<1>3. x % T = x
  BY <1>1, Remainder
<1> QED
  BY <1>2, <1>3

(* The number in the round tells a packet from those less than a round ahead. *)
LEMMA SeqnumFacts ==
  ASSUME NEW i \in Indices, NEW w \in Indices
  PROVE  /\ Seqnum(w) \in 1 .. TxCount
         /\ Seqnum(After(w)) = IF Seqnum(w) = TxCount THEN 1 ELSE Seqnum(w) + 1
         /\ Seqnum(i) = Seqnum(w) /\ Dist(i, w) < TxCount => i = w
<1> DEFINE T == TxCount
           r == w % T
<1>1. T \in Nat \ {0} /\ Rounds \in Int /\ Turn = Rounds * T
  BY FlowAssumption DEF Turn
<1>2. i \in Int /\ w \in Int
  BY TurnFacts
<1> HIDE DEF T
<1>3. r \in 0 .. T - 1 /\ \E q \in Int : w = T * q + r
  BY <1>1, <1>2, Quotient
<1>4. PICK q \in Int : w = T * q + r
  BY <1>3
<1>5. Seqnum(w) = r + 1 /\ Seqnum(i) = (i % T) + 1 /\ Seqnum(After(w)) = (After(w) % T) + 1
  BY DEF Seqnum, T
<1> HIDE DEF r
<1>6. After(w) % T = IF r + 1 = T THEN 0 ELSE r + 1
  <2>1. After(w) = IF w = Turn - 1 THEN 0 ELSE w + 1
    BY AfterValue
  <2>2. CASE w = Turn - 1
    <3>1. T * (Rounds - 1) = Turn - T
      BY <1>1
    <3>2. w = T * (Rounds - 1) + (T - 1) /\ Rounds - 1 \in Int /\ T - 1 \in 0 .. T - 1
      BY <1>1, <2>2, <3>1
    <3>3. w % T = T - 1
      BY <1>1, <1>2, <3>2, Remainder
    <3>4. 0 = T * 0 + 0 /\ 0 \in 0 .. T - 1
      BY <1>1
    <3>5. 0 % T = 0
      BY <1>1, <3>4, Remainder
    <3> QED
      BY <1>1, <1>3, <2>1, <2>2, <3>3, <3>5 DEF r
  <2>3. CASE w # Turn - 1 /\ r + 1 < T
    <3>1. w + 1 = T * q + (r + 1) /\ r + 1 \in 0 .. T - 1 /\ w + 1 \in Int
      BY <1>1, <1>2, <1>3, <1>4, <2>3
    <3>2. (w + 1) % T = r + 1
      BY <1>1, <3>1, Remainder
    <3> QED
      BY <1>1, <1>3, <2>1, <2>3, <3>2
  <2>4. CASE w # Turn - 1 /\ r + 1 = T
    <3>1. T * (q + 1) = T * q + T
      BY <1>1
    <3>2. w + 1 = T * (q + 1) + 0 /\ 0 \in 0 .. T - 1 /\ w + 1 \in Int /\ q + 1 \in Int
      BY <1>1, <1>2, <1>3, <1>4, <2>4, <3>1
    <3>3. (w + 1) % T = 0
      BY <1>1, <3>2, Remainder
    <3> QED
      BY <1>1, <1>3, <2>1, <2>4, <3>3
  <2> QED
    BY <1>1, <1>3, <2>2, <2>3, <2>4
<1>7. ASSUME Seqnum(i) = Seqnum(w), Dist(i, w) < T PROVE i = w
  <2> DEFINE p == i % T
             x == Dist(i, w)
  <2>1. p \in 0 .. T - 1 /\ \E z \in Int : i = T * z + p
    BY <1>1, <1>2, Quotient
  <2>2. PICK z \in Int : i = T * z + p
    BY <2>1
  <2>3. p = r
    BY <1>3, <1>5, <1>7, <2>1
  <2>4. x \in 0 .. Turn - 1 /\ x = IF i < w THEN i - w + Turn ELSE i - w
    BY DistFacts, DistValue
  <2> HIDE DEF p, x
  <2>5. x \in 0 .. T - 1
    BY <1>1, <1>7, <2>4, TurnFacts DEF x
  <2>6. T * (z - q) = T * z - T * q /\ T * (z - q + Rounds) = T * z - T * q + Turn
    BY <1>1
  <2>7. CASE i < w
    <3>1. x = T * (z - q + Rounds) /\ z - q + Rounds \in Int
      BY <1>1, <1>3, <1>4, <2>2, <2>3, <2>4, <2>6, <2>7
    <3> QED
      BY <1>1, <2>5, <3>1, SmallMultiple, DistFacts DEF x
  <2>8. CASE ~(i < w)
    <3>1. x = T * (z - q) /\ z - q \in Int
      BY <1>1, <1>3, <1>4, <2>2, <2>3, <2>4, <2>6, <2>8
    <3> QED
      BY <1>1, <2>5, <3>1, SmallMultiple, DistFacts DEF x
  <2> QED
    BY <2>7, <2>8
<1> QED
  BY <1>1, <1>3, <1>5, <1>6, <1>7 DEF T

-----------------------------------------------------------------------------
(* The invariant, in distances.  L packets are under way, the a-th at distance
   D[a] from the packet the file needs next and overtaken by P[a]; the slots in K
   are in use, slot i for the packet at distance E[i]; n packets from the one the
   file needs on have been sent; at most k overtake one. *)

(* The packets sent after the a-th under way are those behind it and those that
   have overtaken it. *)
Counted(L, D, P, n, k) ==
  /\ L <= k + 1 /\ n <= L + k
  /\ \A a \in 1 .. L : P[a] <= k /\ D[a] + ((L - a) + 1) + P[a] = n

(* They are in the order in which they were sent. *)
Ordered(L, D) == \A a, b \in 1 .. L : a < b => D[a] < D[b]

(* list holds packets of less than a round, none twice and none under way. *)
Apart(L, D, K, E, n) ==
  /\ \A i \in K : E[i] \in Nat /\ E[i] < n /\ E[i] < TxCount
  /\ \A i, j \in K : i # j => E[i] # E[j]
  /\ \A i \in K, a \in 1 .. L : E[i] # D[a]

(* No packet is missing. *)
Complete(L, D, K, E, n) ==
  \A d \in 0 .. n - 1 : (\E a \in 1 .. L : D[a] = d) \/ (\E i \in K : E[i] = d)

(* The slots that hold packets sent after the one at distance d. *)
Past(K, E, d) == {i \in K : E[i] > d}

(* They have overtaken it. *)
Overtaken(L, D, P, K, E) ==
  \A a \in 1 .. L : Cardinality(Past(K, E, D[a])) <= P[a]

Flow(L, D, P, K, E, n, k) ==
  /\ Counted(L, D, P, n, k) /\ Ordered(L, D) /\ Apart(L, D, K, E, n)
  /\ Complete(L, D, K, E, n) /\ Overtaken(L, D, P, K, E)

Numbers(L, D, P, K, E, n, k) ==
  /\ L \in Nat /\ D \in [1 .. L -> Nat] /\ P \in [1 .. L -> Nat]
  /\ K \in SUBSET Slot /\ E \in [Slot -> Int]
  /\ n \in Nat /\ k \in Nat

(* What the steps make of the distances.  A packet is sent: *)
Sends(L, D, P, n, k, L1, D1, P1, n1) ==
  /\ L <= k
  /\ L1 = L + 1 /\ n1 = n + 1
  /\ D1 \in [1 .. L1 -> Nat] /\ P1 \in [1 .. L1 -> Nat]
  /\ \A a \in 1 .. L : D1[a] = D[a] /\ P1[a] = P[a]
  /\ D1[L1] = n /\ P1[L1] = 0

(* the packet the file needs arrives: *)
Takes(L, D, P, K, E, n, L1, D1, P1, E1, n1) ==
  /\ L > 0 /\ D[1] = 0
  /\ L1 = L - 1 /\ n1 = n - 1
  /\ D1 \in [1 .. L1 -> Nat] /\ P1 \in [1 .. L1 -> Nat] /\ E1 \in [Slot -> Int]
  /\ \A a \in 1 .. L1 : D1[a] = D[a + 1] - 1 /\ P1[a] = P[a + 1]
  /\ \A i \in K : E1[i] = E[i] - 1

(* the packet the file needs is in slot f: *)
Drains(L, D, K, E, n, f, D1, E1, n1) ==
  /\ f \in K /\ E[f] = 0
  /\ n1 = n - 1
  /\ D1 \in [1 .. L -> Nat] /\ E1 \in [Slot -> Int]
  /\ \A a \in 1 .. L : D1[a] = D[a] - 1
  /\ \A i \in K \ {f} : E1[i] = E[i] - 1

(* the c-th packet, which is ahead of its turn, is kept in slot f: *)
Keeps(L, D, P, K, E, n, k, c, f, L1, D1, P1, E1) ==
  /\ n + 1 <= L + k
  /\ c \in 2 .. L /\ (\A a \in 1 .. c - 1 : P[a] < k) /\ D[c] < TxCount
  /\ f \in Slot \ K
  /\ L1 = L - 1
  /\ D1 \in [1 .. L1 -> Nat] /\ P1 \in [1 .. L1 -> Nat] /\ E1 \in [Slot -> Int]
  /\ \A a \in 1 .. c - 1 : D1[a] = D[a] /\ P1[a] = P[a] + 1
  /\ \A a \in c .. L1 : D1[a] = D[a + 1] /\ P1[a] = P[a + 1]
  /\ (\A i \in K : E1[i] = E[i]) /\ E1[f] = D[c]

(* Sets of slots are finite. *)
LEMMA SlotsFinite ==
  /\ IsFiniteSet(Slot) /\ Cardinality(Slot) = Slots /\ Slots \in Nat
  /\ \A K \in SUBSET Slot : IsFiniteSet(K) /\ Cardinality(K) \in Nat
<1>1. Slots \in Nat \ {0}
  BY FlowAssumption
<1>2. IsFiniteSet(1 .. Slots) /\ Cardinality(1 .. Slots) = IF 1 > Slots THEN 0 ELSE Slots - 1 + 1
  BY <1>1, FS_Interval
<1>3. ASSUME NEW K \in SUBSET Slot PROVE IsFiniteSet(K) /\ Cardinality(K) \in Nat
  BY <1>2, FS_Subset, FS_CardinalityType DEF Slot
<1> QED
  BY <1>1, <1>2, <1>3 DEF Slot

(* A packet is sent. *)
LEMMA FlowSend ==
  ASSUME NEW L, NEW D, NEW P, NEW K, NEW E, NEW n, NEW k,
         Numbers(L, D, P, K, E, n, k), Flow(L, D, P, K, E, n, k),
         NEW L1, NEW D1, NEW P1, NEW n1, Sends(L, D, P, n, k, L1, D1, P1, n1)
  PROVE  Flow(L1, D1, P1, K, E, n1, k)
<1> USE DEF Numbers, Sends
<1> SUFFICES Flow(L + 1, D1, P1, K, E, n + 1, k)
  OBVIOUS
<1>l. /\ D1 \in [1 .. L + 1 -> Nat] /\ P1 \in [1 .. L + 1 -> Nat]
      /\ D1[L + 1] = n /\ P1[L + 1] = 0
  OBVIOUS
<1>0. /\ Counted(L, D, P, n, k) /\ Ordered(L, D) /\ Apart(L, D, K, E, n)
      /\ Complete(L, D, K, E, n) /\ Overtaken(L, D, P, K, E)
  BY DEF Flow
<1>t. \A a \in 1 .. L : D[a] \in Nat /\ P[a] \in Nat
  OBVIOUS
<1>c. /\ L <= k + 1 /\ n <= L + k
      /\ \A a \in 1 .. L : P[a] <= k /\ D[a] + ((L - a) + 1) + P[a] = n
  BY <1>0 DEF Counted
<1>1. ASSUME NEW a \in 1 .. L PROVE D[a] < n
  <2>1. D[a] + ((L - a) + 1) + P[a] = n
    BY <1>c
  <2>2. D[a] \in Nat /\ P[a] \in Nat
    BY <1>t
  <2> QED
    BY <2>1, <2>2, SMTT(40)
<1>2. Counted(L + 1, D1, P1, n + 1, k)
  <2>1. ASSUME NEW a \in 1 .. L + 1
        PROVE  P1[a] <= k /\ D1[a] + (((L + 1) - a) + 1) + P1[a] = n + 1
    <3>1. CASE a = L + 1
      <4> DEFINE x == D1[a]
                 y == ((L + 1) - a) + 1
                 z == P1[a]
      <4>1. x = n /\ y = 1 /\ z = 0
        BY <3>1
      <4> HIDE DEF x, y, z
      <4>2. z <= k /\ x + y + z = n + 1
        BY <4>1
      <4> QED
        BY <4>2 DEF x, y, z
    <3>2. CASE a # L + 1
      <4>1. a \in 1 .. L
        BY <3>2
      <4>2. P[a] <= k /\ D[a] + ((L - a) + 1) + P[a] = n
        BY <4>1, <1>c
      <4>3. D1[a] = D[a] /\ P1[a] = P[a] /\ D[a] \in Nat /\ P[a] \in Nat
        BY <4>1, <1>t
      <4>4. P1[a] <= k /\ D1[a] + ((L - a) + 1) + P1[a] = n /\ D1[a] \in Nat /\ P1[a] \in Nat
        BY <4>2, <4>3, Zenon
      <4> DEFINE x == D1[a]
                 z == P1[a]
      <4>5. z <= k /\ x + ((L - a) + 1) + z = n /\ x \in Nat /\ z \in Nat
        BY <4>4
      <4> HIDE DEF x, z
      <4>6. z <= k /\ x + (((L + 1) - a) + 1) + z = n + 1
        BY <4>5
      <4> QED
        BY <4>6 DEF x, z
    <3> QED
      BY <3>1, <3>2
  <2> QED
    BY <2>1, <1>c DEF Counted
<1>3. Ordered(L + 1, D1)
  <2> SUFFICES ASSUME NEW a \in 1 .. L + 1, NEW b \in 1 .. L + 1, a < b
               PROVE  D1[a] < D1[b]
    BY DEF Ordered
  <2>1. a \in 1 .. L
    OBVIOUS
  <2>2. CASE b = L + 1
    BY <1>1, <2>1, <2>2
  <2>3. CASE b # L + 1
    <3>1. b \in 1 .. L
      BY <2>3
    <3> QED
      BY <1>0, <2>1, <3>1 DEF Ordered
  <2> QED
    BY <2>2, <2>3
<1>4. Apart(L + 1, D1, K, E, n + 1)
  BY <1>0 DEF Apart
<1>5. Complete(L + 1, D1, K, E, n + 1)
  <2> SUFFICES ASSUME NEW d \in 0 .. n
               PROVE  (\E a \in 1 .. L + 1 : D1[a] = d) \/ (\E i \in K : E[i] = d)
    <3>1. (n + 1) - 1 = n
      OBVIOUS
    <3> QED
      BY <3>1 DEF Complete
  <2>1. CASE d = n
    BY <2>1
  <2>2. CASE d # n
    <3>0. d \in 0 .. n - 1
      BY <2>2
    <3>1. (\E a \in 1 .. L : D[a] = d) \/ (\E i \in K : E[i] = d)
      BY <1>0, <3>0 DEF Complete
    <3>2. \A a \in 1 .. L : a \in 1 .. L + 1
      OBVIOUS
    <3> QED
      BY <3>1, <3>2
  <2> QED
    BY <2>1, <2>2
<1>6. Overtaken(L + 1, D1, P1, K, E)
  <2> SUFFICES ASSUME NEW a \in 1 .. L + 1
               PROVE  Cardinality(Past(K, E, D1[a])) <= P1[a]
    BY DEF Overtaken
  <2>1. CASE a = L + 1
    <3>1. Past(K, E, n) = {}
      BY <1>0 DEF Past, Apart
    <3>2. D1[a] = n /\ P1[a] = 0
      BY <2>1
    <3>3. Cardinality({}) = 0
      BY FS_EmptySet
    <3>4. Cardinality(Past(K, E, D1[a])) = 0
      BY <3>1, <3>2, <3>3, Zenon
    <3> QED
      BY <3>2, <3>4
  <2>2. CASE a # L + 1
    <3>1. a \in 1 .. L
      BY <2>2
    <3> QED
      BY <1>0, <3>1 DEF Overtaken
  <2> QED
    BY <2>1, <2>2
<1> QED
  BY <1>2, <1>3, <1>4, <1>5, <1>6 DEF Flow

(* If list does not have the packet the file needs, it is the first under way. *)
LEMMA FlowHead ==
  ASSUME NEW L, NEW D, NEW P, NEW K, NEW E, NEW n, NEW k,
         Numbers(L, D, P, K, E, n, k), Flow(L, D, P, K, E, n, k),
         \A i \in K : E[i] # 0, L > 0
  PROVE  D[1] = 0
<1> USE DEF Numbers
<1>0. Counted(L, D, P, n, k) /\ Ordered(L, D) /\ Complete(L, D, K, E, n)
  BY DEF Flow
<1>1. 1 \in 1 .. L /\ D[1] \in Nat /\ P[1] \in Nat
  OBVIOUS
<1>2. 0 \in 0 .. n - 1
  <2>1. D[1] + ((L - 1) + 1) + P[1] = n
    BY <1>0, <1>1 DEF Counted
  <2> QED
    BY <1>1, <2>1
<1>3. PICK a \in 1 .. L : D[a] = 0
  BY <1>0, <1>2 DEF Complete
<1>4. D[a] \in Nat /\ (a = 1 \/ 1 < a)
  OBVIOUS
<1> QED
  BY <1>0, <1>1, <1>3, <1>4 DEF Ordered

(* The arithmetic of Counted: a packet has a smaller number than the next one sent. *)
LEMMA CountBelow ==
  ASSUME NEW d \in Nat, NEW l \in Nat, NEW c \in Nat, NEW p \in Nat, NEW n \in Nat,
         c <= l, d + ((l - c) + 1) + p = n
  PROVE  d < n
OBVIOUS

(* What of a packet that can arrive before the one that is waited for. *)
LEMMA FlowEarly ==
  ASSUME NEW L, NEW D, NEW P, NEW K, NEW E, NEW n, NEW k,
         Numbers(L, D, P, K, E, n, k), Flow(L, D, P, K, E, n, k),
         \A i \in K : E[i] # 0, 2 * k <= TxCount, k <= Slots,
         NEW c \in 2 .. L, P[1] < k
  PROVE  /\ D[1] = 0 /\ D[c] > 0 /\ D[c] < TxCount
         /\ n + 1 <= L + k
         /\ K # Slot
<1> USE DEF Numbers
<1>0. /\ Counted(L, D, P, n, k) /\ Ordered(L, D) /\ Apart(L, D, K, E, n)
      /\ Overtaken(L, D, P, K, E)
  BY DEF Flow
<1>1. 1 \in 1 .. L /\ c \in 1 .. L /\ TxCount \in Nat
  BY FlowAssumption
<1>2. D[1] = 0
  <2>1. L > 0
    OBVIOUS
  <2> QED
    BY <2>1, FlowHead, Zenon
<1>3. D[c] > 0
  BY <1>0, <1>1, <1>2 DEF Ordered
<1>4. n = L + P[1] /\ L <= k + 1 /\ D[c] < n
  <2>1. /\ D[1] + ((L - 1) + 1) + P[1] = n
        /\ D[c] + ((L - c) + 1) + P[c] = n
        /\ L <= k + 1
    BY <1>0, <1>1 DEF Counted
  <2>2. L \in Nat /\ n \in Nat /\ P[1] \in Nat /\ P[c] \in Nat /\ D[c] \in Nat /\ c \in Nat /\ c <= L
    BY <1>1
  <2>3. n = L + P[1]
    BY <1>2, <2>1, <2>2
  <2>4. D[c] < n
    BY <2>1, <2>2, CountBelow
  <2> QED
    BY <2>1, <2>3, <2>4
<1>5. K # Slot
  <2> SUFFICES ASSUME K = Slot PROVE FALSE
    OBVIOUS
  <2>1. Past(K, E, D[1]) = Slot
    BY <1>0, <1>2 DEF Past, Apart
  <2>2. Cardinality(Slot) <= P[1]
    BY <1>0, <1>1, <2>1 DEF Overtaken
  <2> QED
    BY <2>2, SlotsFinite
<1> QED
  BY <1>1, <1>2, <1>3, <1>4, <1>5

(* The packet the file needs arrives. *)
LEMMA FlowTake ==
  ASSUME NEW L, NEW D, NEW P, NEW K, NEW E, NEW n, NEW k,
         Numbers(L, D, P, K, E, n, k), Flow(L, D, P, K, E, n, k),
         NEW L1, NEW D1, NEW P1, NEW E1, NEW n1,
         Takes(L, D, P, K, E, n, L1, D1, P1, E1, n1)
  PROVE  Flow(L1, D1, P1, K, E1, n1, k)
<1> USE DEF Numbers, Takes
<1> SUFFICES Flow(L - 1, D1, P1, K, E1, n - 1, k)
  OBVIOUS
<1>0. /\ Counted(L, D, P, n, k) /\ Ordered(L, D) /\ Apart(L, D, K, E, n)
      /\ Complete(L, D, K, E, n) /\ Overtaken(L, D, P, K, E)
  BY DEF Flow
<1>t. /\ \A a \in 1 .. L : D[a] \in Nat /\ P[a] \in Nat
      /\ \A a \in 1 .. L - 1 : D1[a] \in Nat /\ P1[a] \in Nat /\ a + 1 \in 1 .. L
      /\ 1 \in 1 .. L /\ TxCount \in Nat
      /\ \A i \in K : i \in Slot /\ E[i] \in Int /\ E1[i] \in Int
  BY FlowAssumption, SMTT(40)
<1>c. /\ L <= k + 1 /\ n <= L + k
      /\ \A a \in 1 .. L : P[a] <= k /\ D[a] + ((L - a) + 1) + P[a] = n
  BY <1>0 DEF Counted
<1>1. n - 1 \in Nat
  <2>1. D[1] + ((L - 1) + 1) + P[1] = n /\ P[1] \in Nat
    BY <1>t, <1>c
  <2> QED
    BY <2>1
<1>e. \A i \in K : E[i] \in Nat /\ E[i] > 0 /\ E[i] < n /\ E[i] < TxCount /\ E1[i] = E[i] - 1
  BY <1>0, <1>t DEF Apart
<1>2. Counted(L - 1, D1, P1, n - 1, k)
  <2>1. ASSUME NEW a \in 1 .. L - 1
        PROVE  P1[a] <= k /\ D1[a] + (((L - 1) - a) + 1) + P1[a] = n - 1
    <3> DEFINE x == D1[a]
               y == P1[a]
               u == D[a + 1]
               v == P[a + 1]
    <3>1. x \in Nat /\ y \in Nat /\ u \in Nat /\ v \in Nat /\ x = u - 1 /\ y = v
      BY <1>t
    <3>2. v <= k /\ u + ((L - (a + 1)) + 1) + v = n
      BY <1>t, <1>c
    <3> HIDE DEF x, y, u, v
    <3>3. y <= k /\ x + (((L - 1) - a) + 1) + y = n - 1
      BY <3>1, <3>2
    <3> QED
      BY <3>3 DEF x, y
  <2> QED
    BY <2>1, <1>c DEF Counted
<1>3. Ordered(L - 1, D1)
  <2> SUFFICES ASSUME NEW a \in 1 .. L - 1, NEW b \in 1 .. L - 1, a < b
               PROVE  D1[a] < D1[b]
    BY DEF Ordered
  <2>1. D[a + 1] < D[b + 1]
    <3>1. a + 1 \in 1 .. L /\ b + 1 \in 1 .. L /\ a + 1 < b + 1
      OBVIOUS
    <3> QED
      BY <1>0, <3>1 DEF Ordered
  <2> DEFINE x == D1[a]
             y == D1[b]
             u == D[a + 1]
             v == D[b + 1]
  <2>2. x = u - 1 /\ y = v - 1 /\ u \in Nat /\ v \in Nat /\ x \in Nat /\ y \in Nat
    BY <1>t
  <2>3. u < v
    BY <2>1
  <2> HIDE DEF x, y, u, v
  <2>4. x < y
    BY <2>2, <2>3
  <2> QED
    BY <2>4 DEF x, y
<1>4. Apart(L - 1, D1, K, E1, n - 1)
  <2>1. ASSUME NEW i \in K
        PROVE  E1[i] \in Nat /\ E1[i] < n - 1 /\ E1[i] < TxCount
    BY <1>e, <1>t
  <2>2. ASSUME NEW i \in K, NEW j \in K, i # j PROVE E1[i] # E1[j]
    <3>1. E[i] # E[j]
      BY <1>0, <2>2 DEF Apart
    <3> QED
      BY <3>1, <1>e
  <2>3. ASSUME NEW i \in K, NEW a \in 1 .. L - 1 PROVE E1[i] # D1[a]
    <3>1. E[i] # D[a + 1]
      BY <1>0, <1>t DEF Apart
    <3> QED
      BY <3>1, <1>e, <1>t, SMTT(40)
  <2> QED
    BY <2>1, <2>2, <2>3 DEF Apart
<1>5. Complete(L - 1, D1, K, E1, n - 1)
  <2> SUFFICES ASSUME NEW d \in 0 .. (n - 1) - 1
               PROVE  (\E a \in 1 .. L - 1 : D1[a] = d) \/ (\E i \in K : E1[i] = d)
    BY DEF Complete
  <2>1. d + 1 \in 0 .. n - 1 /\ d + 1 > 0
    BY <1>1
  <2>2. (\E a \in 1 .. L : D[a] = d + 1) \/ (\E i \in K : E[i] = d + 1)
    BY <1>0, <2>1 DEF Complete
  <2>3. CASE \E a \in 1 .. L : D[a] = d + 1
    <3>1. PICK a \in 1 .. L : D[a] = d + 1
      BY <2>3
    <3>2. a # 1
      BY <3>1, <2>1
    <3>3. a - 1 \in 1 .. L - 1 /\ (a - 1) + 1 = a
      BY <3>2
    <3>4. D1[a - 1] = d
      BY <3>1, <3>3
    <3> QED
      BY <3>3, <3>4
  <2>4. CASE \E i \in K : E[i] = d + 1
    BY <2>4, <1>e
  <2> QED
    BY <2>2, <2>3, <2>4
<1>6. Overtaken(L - 1, D1, P1, K, E1)
  <2> SUFFICES ASSUME NEW a \in 1 .. L - 1
               PROVE  Cardinality(Past(K, E1, D1[a])) <= P1[a]
    BY DEF Overtaken
  <2>1. D1[a] = D[a + 1] - 1 /\ D[a + 1] \in Nat /\ P1[a] = P[a + 1] /\ a + 1 \in 1 .. L
    BY <1>t
  <2>2. ASSUME NEW i \in K PROVE E1[i] > D1[a] <=> E[i] > D[a + 1]
    <3> DEFINE x == E1[i]
               y == E[i]
               u == D1[a]
               v == D[a + 1]
    <3>1. x = y - 1 /\ y \in Nat /\ x \in Int
      BY <1>e, <1>t
    <3>2. u = v - 1 /\ v \in Nat /\ u \in Nat
      BY <1>t
    <3> HIDE DEF x, y, u, v
    <3>3. x > u <=> y > v
      BY <3>1, <3>2
    <3> QED
      BY <3>3 DEF x, y, u, v
  <2>3. Past(K, E1, D1[a]) = Past(K, E, D[a + 1])
    BY <2>2 DEF Past
  <2>4. Cardinality(Past(K, E, D[a + 1])) <= P[a + 1]
    BY <1>0, <2>1 DEF Overtaken
  <2> QED
    BY <2>1, <2>3, <2>4
<1> QED
  BY <1>1, <1>2, <1>3, <1>4, <1>5, <1>6 DEF Flow

(* list has the packet the file needs. *)
LEMMA FlowDrain ==
  ASSUME NEW L, NEW D, NEW P, NEW K, NEW E, NEW n, NEW k,
         Numbers(L, D, P, K, E, n, k), Flow(L, D, P, K, E, n, k),
         NEW f, NEW D1, NEW E1, NEW n1, Drains(L, D, K, E, n, f, D1, E1, n1)
  PROVE  Flow(L, D1, P, K \ {f}, E1, n1, k)
<1> USE DEF Numbers, Drains
<1> SUFFICES Flow(L, D1, P, K \ {f}, E1, n - 1, k)
  OBVIOUS
<1>0. /\ Counted(L, D, P, n, k) /\ Ordered(L, D) /\ Apart(L, D, K, E, n)
      /\ Complete(L, D, K, E, n) /\ Overtaken(L, D, P, K, E)
  BY DEF Flow
<1>t. /\ \A a \in 1 .. L : D[a] \in Nat /\ P[a] \in Nat /\ D1[a] \in Nat
      /\ TxCount \in Nat
      /\ \A i \in K : i \in Slot /\ E[i] \in Int /\ E1[i] \in Int
  BY FlowAssumption
<1>c. /\ L <= k + 1 /\ n <= L + k
      /\ \A a \in 1 .. L : P[a] <= k /\ D[a] + ((L - a) + 1) + P[a] = n
  BY <1>0 DEF Counted
<1>1. n - 1 \in Nat
  BY <1>0 DEF Apart
<1>e. \A i \in K \ {f} : E[i] \in Nat /\ E[i] > 0 /\ E[i] < n /\ E[i] < TxCount
  BY <1>0, <1>t DEF Apart
<1>2. Counted(L, D1, P, n - 1, k)
  <2>1. ASSUME NEW a \in 1 .. L
        PROVE  P[a] <= k /\ D1[a] + ((L - a) + 1) + P[a] = n - 1
    <3> DEFINE x == D1[a]
               u == D[a]
               v == P[a]
    <3>1. x \in Nat /\ u \in Nat /\ v \in Nat /\ x = u - 1
      BY <1>t
    <3>2. v <= k /\ u + ((L - a) + 1) + v = n
      BY <1>c
    <3> HIDE DEF x, u, v
    <3>3. v <= k /\ x + ((L - a) + 1) + v = n - 1
      BY <3>1, <3>2
    <3> QED
      BY <3>3 DEF x, v
  <2> QED
    BY <2>1, <1>c, <1>1 DEF Counted
<1>3. Ordered(L, D1)
  <2> SUFFICES ASSUME NEW a \in 1 .. L, NEW b \in 1 .. L, a < b
               PROVE  D1[a] < D1[b]
    BY DEF Ordered
  <2>1. D[a] < D[b]
    BY <1>0 DEF Ordered
  <2> QED
    BY <2>1, <1>t
<1>4. Apart(L, D1, K \ {f}, E1, n - 1)
  <2>1. ASSUME NEW i \in K \ {f}
        PROVE  E1[i] \in Nat /\ E1[i] < n - 1 /\ E1[i] < TxCount
    BY <1>e, <1>t
  <2>2. ASSUME NEW i \in K \ {f}, NEW j \in K \ {f}, i # j PROVE E1[i] # E1[j]
    <3>1. E[i] # E[j]
      BY <1>0, <2>2 DEF Apart
    <3> QED
      BY <3>1, <1>e
  <2>3. ASSUME NEW i \in K \ {f}, NEW a \in 1 .. L PROVE E1[i] # D1[a]
    <3>1. E[i] # D[a]
      BY <1>0 DEF Apart
    <3> QED
      BY <3>1, <1>e, <1>t, SMTT(40)
  <2> QED
    BY <2>1, <2>2, <2>3 DEF Apart
<1>5. Complete(L, D1, K \ {f}, E1, n - 1)
  <2> SUFFICES ASSUME NEW d \in 0 .. (n - 1) - 1
               PROVE  (\E a \in 1 .. L : D1[a] = d) \/ (\E i \in K \ {f} : E1[i] = d)
    BY DEF Complete
  <2>1. d + 1 \in 0 .. n - 1 /\ d + 1 > 0
    BY <1>1
  <2>2. (\E a \in 1 .. L : D[a] = d + 1) \/ (\E i \in K : E[i] = d + 1)
    BY <1>0, <2>1 DEF Complete
  <2>3. CASE \E a \in 1 .. L : D[a] = d + 1
    BY <2>3
  <2>4. CASE \E i \in K : E[i] = d + 1
    <3>1. PICK i \in K : E[i] = d + 1
      BY <2>4
    <3>2. i \in K \ {f}
      BY <3>1, <2>1
    <3> QED
      BY <3>1, <3>2
  <2> QED
    BY <2>2, <2>3, <2>4
<1>6. Overtaken(L, D1, P, K \ {f}, E1)
  <2> SUFFICES ASSUME NEW a \in 1 .. L
               PROVE  Cardinality(Past(K \ {f}, E1, D1[a])) <= P[a]
    BY DEF Overtaken
  <2>1. D1[a] = D[a] - 1 /\ D[a] \in Nat
    BY <1>t
  <2>2. ASSUME NEW i \in K \ {f} PROVE E1[i] > D1[a] <=> E[i] > D[a]
    <3> DEFINE x == E1[i]
               y == E[i]
               u == D1[a]
               v == D[a]
    <3>1. x = y - 1 /\ y \in Nat /\ x \in Int
      BY <1>e, <1>t
    <3>2. u = v - 1 /\ v \in Nat /\ u \in Nat
      BY <1>t
    <3> HIDE DEF x, y, u, v
    <3>3. x > u <=> y > v
      BY <3>1, <3>2
    <3> QED
      BY <3>3 DEF x, y, u, v
  <2>3. ~(E[f] > D[a])
    BY <2>1
  <2>4. Past(K \ {f}, E1, D1[a]) = Past(K, E, D[a])
    BY <2>2, <2>3 DEF Past
  <2> QED
    BY <1>0, <2>4 DEF Overtaken
<1> QED
  BY <1>1, <1>2, <1>3, <1>4, <1>5, <1>6 DEF Flow
(* A packet that is ahead of its turn is kept; those before it are overtaken. *)
LEMMA FlowKeep ==
  ASSUME NEW L, NEW D, NEW P, NEW K, NEW E, NEW n, NEW k,
         Numbers(L, D, P, K, E, n, k), Flow(L, D, P, K, E, n, k),
         NEW c, NEW f, NEW L1, NEW D1, NEW P1, NEW E1,
         Keeps(L, D, P, K, E, n, k, c, f, L1, D1, P1, E1)
  PROVE  Flow(L1, D1, P1, K \cup {f}, E1, n, k)
<1> USE DEF Numbers, Keeps
<1> SUFFICES Flow(L - 1, D1, P1, K \cup {f}, E1, n, k)
  OBVIOUS
<1>0. /\ Counted(L, D, P, n, k) /\ Ordered(L, D) /\ Apart(L, D, K, E, n)
      /\ Complete(L, D, K, E, n) /\ Overtaken(L, D, P, K, E)
  BY DEF Flow
<1>t. /\ \A a \in 1 .. L : D[a] \in Nat /\ P[a] \in Nat
      /\ \A a \in 1 .. L - 1 : D1[a] \in Nat /\ P1[a] \in Nat /\ a + 1 \in 1 .. L
      /\ c \in 1 .. L /\ D[c] \in Nat
      /\ \A i \in Slot : E[i] \in Int /\ E1[i] \in Int
  BY SMTT(40)
<1>s. ASSUME NEW a \in 1 .. L - 1
      PROVE  \/ /\ a \in 1 .. c - 1 /\ a \in 1 .. L /\ a < c
                /\ D1[a] = D[a] /\ P1[a] = P[a] + 1
             \/ /\ a \in c .. L - 1 /\ a + 1 \in 1 .. L /\ c < a + 1
                /\ D1[a] = D[a + 1] /\ P1[a] = P[a + 1]
  <2>1. \/ a \in 1 .. c - 1 /\ a \in 1 .. L /\ a < c
        \/ a \in c .. L - 1 /\ a + 1 \in 1 .. L /\ c < a + 1
    OBVIOUS
  <2> QED
    BY <2>1, Zenon
<1>c. /\ L <= k + 1 /\ n <= L + k
      /\ \A a \in 1 .. L : P[a] <= k /\ D[a] + ((L - a) + 1) + P[a] = n
  BY <1>0 DEF Counted
<1>d. D[c] < n
  <2>1. D[c] + ((L - c) + 1) + P[c] = n /\ P[c] \in Nat /\ c <= L
    BY <1>t, <1>c
  <2> QED
    BY <1>t, <2>1, SMTT(40)
<1>1. Counted(L - 1, D1, P1, n, k)
  <2>1. ASSUME NEW a \in 1 .. L - 1
        PROVE  P1[a] <= k /\ D1[a] + (((L - 1) - a) + 1) + P1[a] = n
    <3> DEFINE x == D1[a]
               y == P1[a]
    <3>0. x \in Nat /\ y \in Nat
      BY <1>t
    <3>1. CASE a \in 1 .. c - 1 /\ a \in 1 .. L /\ D1[a] = D[a] /\ P1[a] = P[a] + 1
      <4> DEFINE u == D[a]
                 v == P[a]
      <4>1. u \in Nat /\ v \in Nat /\ x = u /\ y = v + 1
        BY <1>t, <3>1
      <4>2. v < k /\ u + ((L - a) + 1) + v = n
        BY <1>c, <3>1
      <4> HIDE DEF x, y, u, v
      <4>3. y <= k /\ x + (((L - 1) - a) + 1) + y = n
        BY <4>1, <4>2
      <4> QED
        BY <4>3 DEF x, y
    <3>2. CASE a + 1 \in 1 .. L /\ D1[a] = D[a + 1] /\ P1[a] = P[a + 1]
      <4> DEFINE u == D[a + 1]
                 v == P[a + 1]
      <4>1. u \in Nat /\ v \in Nat /\ x = u /\ y = v
        BY <1>t, <3>2
      <4>2. v <= k /\ u + ((L - (a + 1)) + 1) + v = n
        BY <1>c, <3>2
      <4> HIDE DEF x, y, u, v
      <4>3. y <= k /\ x + (((L - 1) - a) + 1) + y = n
        BY <4>1, <4>2
      <4> QED
        BY <4>3 DEF x, y
    <3> QED
      BY <1>s, <3>1, <3>2
  <2> QED
    BY <2>1, <1>c DEF Counted
<1>2. Ordered(L - 1, D1)
  <2> SUFFICES ASSUME NEW a \in 1 .. L - 1, NEW b \in 1 .. L - 1, a < b
               PROVE  D1[a] < D1[b]
    BY DEF Ordered
  <2>1. \E g, h \in 1 .. L : g < h /\ D1[a] = D[g] /\ D1[b] = D[h]
    <3>1. CASE a < c /\ b < c /\ D1[a] = D[a] /\ D1[b] = D[b] /\ a \in 1 .. L /\ b \in 1 .. L
      BY <3>1
    <3>2. CASE /\ a < c /\ c < b + 1 /\ D1[a] = D[a] /\ D1[b] = D[b + 1]
               /\ a \in 1 .. L /\ b + 1 \in 1 .. L
      <4>1. a < b + 1
        OBVIOUS
      <4> QED
        BY <3>2, <4>1
    <3>3. CASE /\ c < a + 1 /\ D1[a] = D[a + 1] /\ D1[b] = D[b + 1]
               /\ a + 1 \in 1 .. L /\ b + 1 \in 1 .. L
      <4>1. a + 1 < b + 1
        OBVIOUS
      <4> QED
        BY <3>3, <4>1
    <3>4. ~(c < a + 1 /\ b < c) /\ ~(c < a + 1 /\ a < c) /\ ~(c < b + 1 /\ b < c)
      OBVIOUS
    <3> QED
      BY <1>s, <3>1, <3>2, <3>3, <3>4
  <2> QED
    BY <2>1, <1>0 DEF Ordered
<1>u. \A a \in 1 .. L - 1 : \E g \in 1 .. L : g # c /\ D1[a] = D[g]
  <2> SUFFICES ASSUME NEW a \in 1 .. L - 1
               PROVE  \E g \in 1 .. L : g # c /\ D1[a] = D[g]
    OBVIOUS
  <2>1. (a < c => a # c) /\ (c < a + 1 => a + 1 # c)
    OBVIOUS
  <2> QED
    BY <1>s, <2>1
<1>3. Apart(L - 1, D1, K \cup {f}, E1, n)
  <2>1. ASSUME NEW i \in K \cup {f}
        PROVE  E1[i] \in Nat /\ E1[i] < n /\ E1[i] < TxCount
    BY <1>0, <1>d, <1>t DEF Apart
  <2>2. ASSUME NEW i \in K \cup {f}, NEW j \in K \cup {f}, i # j PROVE E1[i] # E1[j]
    <3>1. \A g \in K : E1[g] = E[g] /\ E[g] # D[c]
      BY <1>0, <1>t DEF Apart
    <3>2. i \in K /\ j \in K => E[i] # E[j]
      BY <1>0, <2>2 DEF Apart
    <3>3. E1[f] = D[c] /\ (i \in K \/ i = f) /\ (j \in K \/ j = f)
      OBVIOUS
    <3> QED
      BY <2>2, <3>1, <3>2, <3>3, Zenon
  <2>3. ASSUME NEW i \in K \cup {f}, NEW a \in 1 .. L - 1 PROVE E1[i] # D1[a]
    <3>1. PICK g \in 1 .. L : g # c /\ D1[a] = D[g]
      BY <1>u
    <3>2. D[c] # D[g]
      <4>1. g < c \/ c < g
        BY <3>1
      <4>2. D[g] < D[c] \/ D[c] < D[g]
        BY <1>0, <1>t, <4>1 DEF Ordered
      <4> QED
        BY <1>t, <4>2
    <3>3. i \in K => E[i] # D[g]
      BY <1>0 DEF Apart
    <3> QED
      BY <3>1, <3>2, <3>3
  <2> QED
    BY <2>1, <2>2, <2>3 DEF Apart
<1>4. Complete(L - 1, D1, K \cup {f}, E1, n)
  <2> SUFFICES ASSUME NEW d \in 0 .. n - 1
               PROVE  (\E a \in 1 .. L - 1 : D1[a] = d) \/ (\E i \in K \cup {f} : E1[i] = d)
    BY DEF Complete
  <2>1. (\E a \in 1 .. L : D[a] = d) \/ (\E i \in K : E[i] = d)
    BY <1>0 DEF Complete
  <2>2. CASE \E a \in 1 .. L : D[a] = d
    <3>1. PICK a \in 1 .. L : D[a] = d
      BY <2>2
    <3>2. CASE a < c
      <4>1. a \in 1 .. c - 1 /\ a \in 1 .. L - 1
        BY <3>2
      <4> QED
        BY <3>1, <4>1
    <3>3. CASE a = c
      BY <3>1, <3>3
    <3>4. CASE c < a
      <4>1. a - 1 \in c .. L - 1 /\ a - 1 \in 1 .. L - 1 /\ (a - 1) + 1 = a
        BY <3>4
      <4>2. D1[a - 1] = d
        BY <3>1, <4>1
      <4> QED
        BY <4>1, <4>2
    <3> QED
      BY <3>2, <3>3, <3>4
  <2>3. CASE \E i \in K : E[i] = d
    BY <2>3
  <2> QED
    BY <2>1, <2>2, <2>3
<1>5. Overtaken(L - 1, D1, P1, K \cup {f}, E1)
  <2> SUFFICES ASSUME NEW a \in 1 .. L - 1
               PROVE  Cardinality(Past(K \cup {f}, E1, D1[a])) <= P1[a]
    BY DEF Overtaken
  <2>1. CASE a < c /\ D1[a] = D[a] /\ P1[a] = P[a] + 1 /\ a \in 1 .. L
    <3> DEFINE S == Past(K, E, D[a])
    <3>1. S \in SUBSET Slot /\ f \notin S /\ Cardinality(S) <= P[a] /\ P[a] \in Nat
      BY <1>0, <1>t, <2>1 DEF Past, Overtaken
    <3>2. D[a] < D[c]
      BY <1>0, <1>t, <2>1 DEF Ordered
    <3>3. Past(K \cup {f}, E1, D[a]) = S \cup {f}
      BY <1>t, <3>2 DEF Past
    <3> HIDE DEF S
    <3>4. IsFiniteSet(S) /\ Cardinality(S) \in Nat
      BY <3>1, SlotsFinite
    <3>5. Cardinality(S \cup {f}) = Cardinality(S) + 1
      BY <3>1, <3>4, FS_AddElement
    <3>6. Cardinality(S \cup {f}) <= P[a] + 1
      BY <3>1, <3>4, <3>5
    <3> QED
      BY <2>1, <3>3, <3>6, Zenon
  <2>2. CASE c < a + 1 /\ D1[a] = D[a + 1] /\ P1[a] = P[a + 1] /\ a + 1 \in 1 .. L
    <3>1. D[c] < D[a + 1]
      BY <1>0, <1>t, <2>2 DEF Ordered
    <3>2. ~(D[c] > D[a + 1])
      BY <1>t, <2>2, <3>1, SMTT(40)
    <3>3. Past(K \cup {f}, E1, D[a + 1]) = Past(K, E, D[a + 1])
      BY <3>2 DEF Past
    <3>4. Cardinality(Past(K, E, D[a + 1])) <= P[a + 1]
      BY <1>0, <2>2 DEF Overtaken
    <3> QED
      BY <2>2, <3>3, <3>4, Zenon
  <2> QED
    BY <1>s, <2>1, <2>2
<1> QED
  BY <1>1, <1>2, <1>3, <1>4, <1>5 DEF Flow
-----------------------------------------------------------------------------
(* The operators of the model. *)

(* A sequence without its c-th element. *)
LEMMA Removed ==
  ASSUME NEW S, NEW q \in Seq(S), NEW c \in 1 .. Len(q)
  PROVE  /\ RemoveAt(q, c) \in Seq(S)
         /\ Len(RemoveAt(q, c)) = Len(q) - 1
         /\ \A a \in 1 .. c - 1 : RemoveAt(q, c)[a] = q[a]
         /\ \A a \in c .. Len(q) - 1 : RemoveAt(q, c)[a] = q[a + 1]
<1> DEFINE x == SubSeq(q, 1, c - 1)
           y == SubSeq(q, c + 1, Len(q))
<1>0. Len(q) \in Nat /\ c \in Int /\ 1 <= c /\ c <= Len(q) /\ \A a \in 1 .. Len(q) : q[a] \in S
  OBVIOUS
<1>1. /\ x \in Seq(S) /\ Len(x) = c - 1
      /\ \A a \in 1 .. c - 1 : x[a] = q[a]
  <2>1. \A a \in 1 .. c - 1 : q[a] \in S
    BY <1>0
  <2>2. /\ x \in Seq(S)
        /\ Len(x) = IF 1 <= c - 1 THEN (c - 1) - 1 + 1 ELSE 0
        /\ \A a \in 1 .. (c - 1) - 1 + 1 : x[a] = q[1 + a - 1]
    BY <1>0, <2>1, SubSeqProperties
  <2>3. ASSUME NEW a \in 1 .. c - 1 PROVE a \in 1 .. (c - 1) - 1 + 1 /\ 1 + a - 1 = a
    BY <1>0
  <2> QED
    BY <1>0, <2>2, <2>3
<1>2. /\ y \in Seq(S) /\ Len(y) = Len(q) - c
      /\ \A a \in 1 .. Len(q) - c : y[a] = q[c + a]
  <2>1. \A a \in c + 1 .. Len(q) : q[a] \in S
    BY <1>0
  <2>2. /\ y \in Seq(S)
        /\ Len(y) = IF c + 1 <= Len(q) THEN Len(q) - (c + 1) + 1 ELSE 0
        /\ \A a \in 1 .. Len(q) - (c + 1) + 1 : y[a] = q[c + 1 + a - 1]
    BY <1>0, <2>1, SubSeqProperties
  <2>3. ASSUME NEW a \in 1 .. Len(q) - c
        PROVE  a \in 1 .. Len(q) - (c + 1) + 1 /\ c + 1 + a - 1 = c + a
    BY <1>0
  <2> QED
    BY <1>0, <2>2, <2>3
<1>3. RemoveAt(q, c) = x \o y
  BY DEF RemoveAt
<1> HIDE DEF x, y
<1>4. /\ x \o y \in Seq(S) /\ Len(x \o y) = Len(x) + Len(y)
      /\ \A a \in 1 .. Len(x) + Len(y) :
           (x \o y)[a] = IF a <= Len(x) THEN x[a] ELSE y[a - Len(x)]
  BY <1>1, <1>2, ConcatProperties
<1>5. ASSUME NEW a \in 1 .. c - 1 PROVE (x \o y)[a] = q[a]
  <2>1. a \in 1 .. Len(x) + Len(y) /\ a <= Len(x)
    BY <1>0, <1>1, <1>2
  <2> QED
    BY <1>1, <1>4, <2>1
<1>6. ASSUME NEW a \in c .. Len(q) - 1 PROVE (x \o y)[a] = q[a + 1]
  <2>1. a \in 1 .. Len(x) + Len(y) /\ ~(a <= Len(x)) /\ a - Len(x) \in 1 .. Len(q) - c
    BY <1>0, <1>1, <1>2
  <2>2. c + (a - Len(x)) = a + 1
    BY <1>0, <1>1
  <2>3. y[a - Len(x)] = q[a + 1]
    BY <1>2, <2>1, <2>2
  <2> QED
    BY <1>4, <2>1, <2>3
<1>7. x \o y \in Seq(S) /\ Len(x \o y) = Len(q) - 1
  BY <1>0, <1>1, <1>2, <1>4
<1> QED
  BY <1>3, <1>5, <1>6, <1>7, Zenon

(* The loops over list find a slot if there is one. *)
LEMMA FirstOf ==
  ASSUME NEW S \in SUBSET Slot, S # {}
  PROVE  FirstSlot(S) \in S
<1>1. S \in SUBSET Nat
  BY DEF Slot
<1>2. \E i \in S : \A j \in S : i <= j
  BY <1>1, LeastNatural
<1> QED
  BY <1>2 DEF FirstSlot

-----------------------------------------------------------------------------
(* The distances of a state: of the packets q under way and the packets l in list,
   when the file needs packet w, the next one that is sent is x and k may overtake
   one. *)

Packet == [idx : Indices, passed : Nat]

Ahead(q, w) == [a \in 1 .. Len(q) |-> Dist(q[a].idx, w)]
Passed(q) == [a \in 1 .. Len(q) |-> q[a].passed]
Kept(l) == {i \in Slot : l[i] # Free}
Early(l, w) == [i \in Slot |-> Dist(l[i].idx, w)]

FlowOf(q, l, x, w, k) ==
  Flow(Len(q), Ahead(q, w), Passed(q), Kept(l), Early(l, w), Dist(x, w), k)

(* list has packets in the slots that are in use. *)
Tables ==
  {l \in [Slot -> [idx : Int, owner : Streams \cup {"none"}]] :
     \A i \in Kept(l) : l[i].idx \in Indices}

(* Where a thread can be. *)
Places == {"receive", "drain", "gaveUp", "stopped"}

Typed ==
  /\ wire \in [Streams -> Seq(Packet)]
  /\ next \in [Streams -> Indices] /\ written \in [Streams -> Indices]
  /\ list \in Tables
  /\ verify \in [Streams -> Nat] /\ pc \in [Streams -> Places]

(* A thread that writes what it should: it has not given up, and looks through
   list as long as that has the packet the file needs. *)
InStep(s) ==
  /\ FlowOf(wire[s], list, next[s], written[s], network.overtakes)
  /\ verify[s] = Seqnum(written[s])
  /\ pc[s] # "gaveUp"
  /\ pc[s] # "drain" => \A i \in Kept(list) : Early(list, written[s])[i] # 0

FlowInv ==
  /\ losses \in Nat /\ network \in Networks
  /\ losses = 0 => Typed /\ \A s \in Streams : InStep(s)

(* The distances are numbers. *)
LEMMA WireTypes ==
  ASSUME NEW q \in Seq(Packet), NEW w \in Indices
  PROVE  /\ Len(q) \in Nat
         /\ \A a \in 1 .. Len(q) : /\ q[a] \in Packet /\ q[a].idx \in Indices
                                   /\ q[a].passed \in Nat
         /\ Ahead(q, w) \in [1 .. Len(q) -> Nat]
         /\ Passed(q) \in [1 .. Len(q) -> Nat]
<1>1. Len(q) \in Nat /\ \A a \in 1 .. Len(q) : q[a] \in Packet
  OBVIOUS
<1>2. \A a \in 1 .. Len(q) : q[a].idx \in Indices /\ q[a].passed \in Nat
  BY <1>1 DEF Packet
<1>3. \A a \in 1 .. Len(q) : Dist(q[a].idx, w) \in 0 .. Turn - 1
  BY <1>2, DistFacts
<1>4. Ahead(q, w) \in [1 .. Len(q) -> Nat]
  BY <1>3, TurnFacts DEF Ahead
<1>5. Passed(q) \in [1 .. Len(q) -> Nat]
  BY <1>2 DEF Passed
<1> QED
  BY <1>1, <1>2, <1>4, <1>5

(* The slots in use are slots, and what list holds is at a distance. *)
LEMMA ListTypes ==
  ASSUME NEW l \in Tables, NEW w \in Indices
  PROVE  Kept(l) \in SUBSET Slot /\ Early(l, w) \in [Slot -> Int]
<1>1. ASSUME NEW i \in Slot PROVE Dist(l[i].idx, w) \in Int
  <2> DEFINE x == l[i].idx - w
  <2>1. l[i].idx \in Int /\ w \in Int
    BY TurnFacts DEF Tables
  <2>2. x \in Int
    BY <2>1
  <2> HIDE DEF x
  <2>3. x % Turn \in 0 .. Turn - 1
    BY <2>2, TurnFacts, Quotient
  <2>4. x % Turn \in Int
    BY <2>3, TurnFacts
  <2> QED
    BY <2>4 DEF Dist, x
<1> QED
  BY <1>1 DEF Kept, Early

(* So is the next packet that is sent. *)
LEMMA SentType ==
  ASSUME NEW x \in Indices, NEW w \in Indices
  PROVE  Dist(x, w) \in Nat /\ Dist(x, w) < Turn
<1>1. Dist(x, w) \in 0 .. Turn - 1
  BY DistFacts
<1> QED
  BY <1>1, TurnFacts
-----------------------------------------------------------------------------
(* The steps. *)

(* A network in which few packets overtake one. *)
Few(k) == k \in Nat /\ k <= Slots /\ 2 * k <= TxCount /\ TxCount \in Nat /\ TxCount >= 2

(* A packet is sent. *)
LEMMA SendKeeps ==
  ASSUME NEW q \in Seq(Packet), NEW l \in Tables, NEW x \in Indices, NEW w \in Indices,
         NEW k, Few(k), FlowOf(q, l, x, w, k), Len(q) <= k
  PROVE  LET q1 == Append(q, [idx |-> x, passed |-> 0]) IN
         q1 \in Seq(Packet) /\ FlowOf(q1, l, After(x), w, k)
<1> DEFINE p == [idx |-> x, passed |-> 0]
           L == Len(q)
           n == Dist(x, w)
           q1 == Append(q, p)
           D == Ahead(q, w)
           P == Passed(q)
           K == Kept(l)
           E == Early(l, w)
           D1 == Ahead(q1, w)
           P1 == Passed(q1)
<1>1. /\ Flow(L, D, P, K, E, n, k) /\ L <= k /\ L \in Nat
      /\ D \in [1 .. L -> Nat] /\ P \in [1 .. L -> Nat]
      /\ K \in SUBSET Slot /\ E \in [Slot -> Int] /\ n \in Nat /\ k \in Nat
  BY WireTypes, ListTypes, SentType DEF FlowOf, Few
<1>p. p \in Packet /\ p.idx = x /\ p.passed = 0
  BY DEF Packet
<1> HIDE DEF p
<1>2. /\ q1 \in Seq(Packet) /\ Len(q1) = L + 1 /\ q1[L + 1] = p
      /\ \A a \in 1 .. L : q1[a] = q[a]
  BY <1>p, AppendProperties
<1> HIDE DEF q1
<1>3. D1 \in [1 .. L + 1 -> Nat] /\ P1 \in [1 .. L + 1 -> Nat]
  <2>1. D1 \in [1 .. Len(q1) -> Nat] /\ P1 \in [1 .. Len(q1) -> Nat]
    BY <1>2, WireTypes
  <2> QED
    BY <1>2, <2>1
<1>4. \A a \in 1 .. L : D1[a] = D[a] /\ P1[a] = P[a]
  <2> SUFFICES ASSUME NEW a \in 1 .. L PROVE D1[a] = D[a] /\ P1[a] = P[a]
    OBVIOUS
  <2>1. a \in 1 .. Len(q1) /\ q1[a] = q[a]
    BY <1>1, <1>2
  <2> QED
    BY <2>1 DEF Ahead, Passed
<1>5. D1[L + 1] = n /\ P1[L + 1] = 0
  <2>1. L + 1 \in 1 .. Len(q1) /\ q1[L + 1].idx = x /\ q1[L + 1].passed = 0
    BY <1>1, <1>2, <1>p
  <2> QED
    BY <2>1 DEF Ahead, Passed
<1>6. Dist(After(x), w) = n + 1
  <2>1. n <= L + k
    BY <1>1 DEF Flow, Counted
  <2>2. n + 1 < Turn
    BY <1>1, <2>1, TurnFacts DEF Few
  <2> QED
    BY <2>2, DistFacts
<1> HIDE DEF L, n, D, P, K, E, D1, P1
<1>7. Flow(L + 1, D1, P1, K, E, n + 1, k)
  <2> DEFINE L1 == L + 1
             n1 == n + 1
  <2>1. Sends(L, D, P, n, k, L1, D1, P1, n1)
    BY <1>1, <1>3, <1>4, <1>5 DEF Sends
  <2>2. Numbers(L, D, P, K, E, n, k)
    BY <1>1 DEF Numbers
  <2> HIDE DEF L1, n1
  <2>3. Flow(L1, D1, P1, K, E, n1, k)
    BY <1>1, <2>1, <2>2, FlowSend
  <2> QED
    BY <2>3 DEF L1, n1
<1>8. FlowOf(q1, l, After(x), w, k)
  BY <1>2, <1>6, <1>7 DEF FlowOf, D1, P1, K, E
<1> QED
  BY <1>2, <1>8 DEF q1, p

(* What passing and leaving make of the packets under way. *)
Passing(q, c) == [j \in DOMAIN q |-> IF j < c THEN [q[j] EXCEPT !.passed = @ + 1] ELSE q[j]]

(* A packet has left: those before it have been passed once more. *)
LEMMA Left ==
  ASSUME NEW q \in Seq(Packet), NEW c \in 1 .. Len(q), NEW w \in Indices
  PROVE  LET r == RemoveAt(Passing(q, c), c) IN
         /\ r \in Seq(Packet) /\ Len(r) = Len(q) - 1
         /\ Ahead(r, w) \in [1 .. Len(q) - 1 -> Nat]
         /\ Passed(r) \in [1 .. Len(q) - 1 -> Nat]
         /\ \A a \in 1 .. c - 1 : /\ Ahead(r, w)[a] = Ahead(q, w)[a]
                                  /\ Passed(r)[a] = Passed(q)[a] + 1
         /\ \A a \in c .. Len(q) - 1 : /\ Ahead(r, w)[a] = Ahead(q, w)[a + 1]
                                       /\ Passed(r)[a] = Passed(q)[a + 1]
<1> DEFINE L == Len(q)
           t == Passing(q, c)
           r == RemoveAt(t, c)
<1>1. /\ L \in Nat
      /\ \A a \in 1 .. L : q[a] \in Packet /\ q[a].idx \in Indices /\ q[a].passed \in Nat
  BY WireTypes
<1>2. /\ DOMAIN t = 1 .. L
      /\ \A a \in 1 .. L : t[a] = IF a < c THEN [q[a] EXCEPT !.passed = @ + 1] ELSE q[a]
  BY DEF Passing
<1>3. \A a \in 1 .. L : /\ t[a] \in Packet /\ t[a].idx = q[a].idx
                        /\ a < c => t[a].passed = q[a].passed + 1
                        /\ ~(a < c) => t[a].passed = q[a].passed
  <2> HIDE DEF t
  <2>1. ASSUME NEW a \in 1 .. L, a < c
        PROVE  t[a] \in Packet /\ t[a].idx = q[a].idx /\ t[a].passed = q[a].passed + 1
    <3> DEFINE m == q[a]
    <3>1. m \in Packet /\ t[a] = [m EXCEPT !.passed = @ + 1]
      BY <1>1, <1>2, <2>1
    <3> HIDE DEF m
    <3>2. t[a] \in Packet /\ t[a].idx = m.idx /\ t[a].passed = m.passed + 1
      BY <3>1 DEF Packet
    <3> QED
      BY <3>2 DEF m
  <2>2. ASSUME NEW a \in 1 .. L, ~(a < c) PROVE t[a] = q[a]
    BY <1>2, <2>2
  <2> QED
    BY <1>1, <2>1, <2>2, Zenon
<1>4. t \in Seq(Packet) /\ Len(t) = L
  <2>1. t = [a \in 1 .. L |-> IF a < c THEN [q[a] EXCEPT !.passed = @ + 1] ELSE q[a]]
    BY DEF Passing
  <2>2. t \in [1 .. L -> Packet]
    BY <1>3, <1>2, <2>1
  <2> HIDE DEF t, L
  <2>3. t \in Seq(Packet)
    BY <1>1, <2>2, IsASeq
  <2> QED
    BY <1>1, <2>2, <2>3, LenProperties
<1> HIDE DEF t
<1>5. /\ r \in Seq(Packet) /\ Len(r) = L - 1
      /\ \A a \in 1 .. c - 1 : r[a] = t[a]
      /\ \A a \in c .. L - 1 : r[a] = t[a + 1]
  <2>1. c \in 1 .. Len(t)
    BY <1>4
  <2> QED
    BY <1>4, <2>1, Removed
<1> HIDE DEF r
<1>6. /\ Ahead(r, w) \in [1 .. L - 1 -> Nat] /\ Passed(r) \in [1 .. L - 1 -> Nat]
  <2>1. Ahead(r, w) \in [1 .. Len(r) -> Nat] /\ Passed(r) \in [1 .. Len(r) -> Nat]
    BY <1>5, WireTypes
  <2> QED
    BY <1>5, <2>1
<1>7. ASSUME NEW a \in 1 .. c - 1
      PROVE  Ahead(r, w)[a] = Ahead(q, w)[a] /\ Passed(r)[a] = Passed(q)[a] + 1
  <2>1. a \in 1 .. L /\ a \in 1 .. Len(r) /\ a < c
    BY <1>1, <1>5
  <2>2. r[a].idx = q[a].idx /\ r[a].passed = q[a].passed + 1
    BY <1>3, <1>5, <2>1
  <2> QED
    BY <2>1, <2>2 DEF Ahead, Passed
<1>8. ASSUME NEW a \in c .. L - 1
      PROVE  Ahead(r, w)[a] = Ahead(q, w)[a + 1] /\ Passed(r)[a] = Passed(q)[a + 1]
  <2>1. a + 1 \in 1 .. L /\ a \in 1 .. Len(r) /\ ~(a + 1 < c)
    BY <1>1, <1>5
  <2>2. r[a].idx = q[a + 1].idx /\ r[a].passed = q[a + 1].passed
    BY <1>3, <1>5, <2>1
  <2> QED
    BY <2>1, <2>2 DEF Ahead, Passed
<1> QED
  BY <1>5, <1>6, <1>7, <1>8 DEF r, t
(* The first packet under way is the one the file needs, another one that can arrive
   is less than a round ahead of it and finds a slot. *)
LEMMA Arriving ==
  ASSUME NEW q \in Seq(Packet), NEW l \in Tables, NEW x \in Indices, NEW w \in Indices,
         NEW k, Few(k), FlowOf(q, l, x, w, k),
         \A i \in Kept(l) : Early(l, w)[i] # 0,
         NEW c \in 1 .. Len(q), \A j \in 1 .. c - 1 : q[j].passed < k
  PROVE  \/ c = 1 /\ q[c].idx = w
         \/ /\ c \in 2 .. Len(q) /\ Seqnum(q[c].idx) # Seqnum(w)
            /\ Ahead(q, w)[c] > 0 /\ Ahead(q, w)[c] < TxCount
            /\ Dist(x, w) + 1 <= Len(q) + k
            /\ Kept(l) # Slot
<1> DEFINE L == Len(q)
           D == Ahead(q, w)
           P == Passed(q)
           K == Kept(l)
           E == Early(l, w)
           n == Dist(x, w)
<1>1. /\ Flow(L, D, P, K, E, n, k) /\ \A i \in K : E[i] # 0
      /\ Numbers(L, D, P, K, E, n, k)
  BY WireTypes, ListTypes, SentType DEF FlowOf, Few, Numbers
<1>2. /\ \A a \in 1 .. L : q[a].idx \in Indices /\ D[a] = Dist(q[a].idx, w)
      /\ \A a \in 1 .. L : P[a] = q[a].passed
      /\ L \in Nat /\ L > 0 /\ 1 \in 1 .. L
  BY WireTypes DEF Ahead, Passed
<1> HIDE DEF L, D, P, K, E, n
<1>3. CASE c = 1
  <2>1. D[1] = 0
    BY <1>1, <1>2, FlowHead
  <2>2. Dist(q[1].idx, w) = 0
    BY <1>2, <2>1
  <2>3. q[1].idx = w
    BY <1>2, <2>2, DistFacts
  <2> QED
    BY <1>3, <2>3
<1>4. CASE c # 1
  <2>1. c \in 2 .. L /\ c \in 1 .. L /\ 1 \in 1 .. c - 1
    BY <1>2, <1>4 DEF L
  <2>2. P[1] < k
    BY <1>2, <2>1
  <2>3. 2 * k <= TxCount /\ k <= Slots
    BY DEF Few
  <2>4. D[c] > 0 /\ D[c] < TxCount /\ n + 1 <= L + k /\ K # Slot
    BY <1>1, <2>1, <2>2, <2>3, FlowEarly
  <2>5. q[c].idx # w /\ Dist(q[c].idx, w) < TxCount
    <3>1. D[c] = Dist(q[c].idx, w) /\ q[c].idx \in Indices
      BY <1>2, <2>1
    <3>2. Dist(q[c].idx, w) # 0
      BY <2>4, <3>1
    <3> QED
      BY <2>4, <3>1, <3>2, DistFacts
  <2>6. Seqnum(q[c].idx) # Seqnum(w)
    BY <1>2, <2>1, <2>5, SeqnumFacts
  <2> QED
    BY <2>1, <2>4, <2>6 DEF L, D, K, n
<1> QED
  BY <1>3, <1>4

(* The packet the file needs arrives and is written. *)
LEMMA TakeKeeps ==
  ASSUME NEW q \in Seq(Packet), NEW l \in Tables, NEW x \in Indices, NEW w \in Indices,
         NEW k, Few(k), FlowOf(q, l, x, w, k), Len(q) > 0, q[1].idx = w
  PROVE  FlowOf(RemoveAt(Passing(q, 1), 1), l, x, After(w), k)
<1> DEFINE r == RemoveAt(Passing(q, 1), 1)
           w1 == After(w)
           L == Len(q)
           D == Ahead(q, w)
           P == Passed(q)
           K == Kept(l)
           E == Early(l, w)
           n == Dist(x, w)
           L1 == L - 1
           D1 == Ahead(r, w1)
           P1 == Passed(r)
           E1 == Early(l, w1)
           n1 == Dist(x, w1)
<1>1. Flow(L, D, P, K, E, n, k) /\ Numbers(L, D, P, K, E, n, k)
  BY WireTypes, ListTypes, SentType DEF FlowOf, Few, Numbers
<1>2. w1 \in Indices /\ 1 \in 1 .. L /\ L \in Nat
  BY AfterValue, WireTypes
<1>3. /\ \A a \in 1 .. L : q[a].idx \in Indices /\ D[a] = Dist(q[a].idx, w)
      /\ \A i \in K : i \in Slot /\ l[i].idx \in Indices /\ E[i] = Dist(l[i].idx, w)
      /\ \A i \in K : E1[i] = Dist(l[i].idx, w1)
  BY WireTypes DEF Ahead, Tables, Kept, Early
<1>4. /\ Len(r) = L1 /\ r \in Seq(Packet)
      /\ D1 \in [1 .. L1 -> Nat] /\ P1 \in [1 .. L1 -> Nat]
      /\ \A a \in 1 .. L1 : P1[a] = P[a + 1] /\ Ahead(r, w)[a] = D[a + 1]
  BY <1>2, Left
<1>5. E1 \in [Slot -> Int]
  BY <1>2, ListTypes
<1>6. D[1] = 0
  <2>1. D[1] = Dist(w, w)
    BY <1>2, <1>3
  <2> QED
    BY <2>1, DistFacts
<1>7. ASSUME NEW a \in 1 .. L1 PROVE D1[a] = D[a + 1] - 1
  <2>1. a \in 1 .. Len(r) /\ a + 1 \in 1 .. L /\ 1 < a + 1
    BY <1>2, <1>4
  <2>2. D1[a] = Dist(r[a].idx, w1) /\ D[a + 1] = Dist(r[a].idx, w) /\ r[a].idx \in Indices
    <3>1. Ahead(r, w)[a] = Dist(r[a].idx, w) /\ D1[a] = Dist(r[a].idx, w1)
      BY <2>1 DEF Ahead
    <3>2. r[a].idx \in Indices
      BY <1>4, <2>1, WireTypes
    <3> QED
      BY <1>4, <3>1, <3>2
  <2>3. D[a + 1] > 0
    <3>1. D[1] < D[a + 1]
      BY <1>1, <1>2, <2>1 DEF Flow, Ordered
    <3> QED
      BY <1>6, <3>1
  <2> QED
    BY <2>2, <2>3, DistFacts
<1>8. ASSUME NEW i \in K PROVE E1[i] = E[i] - 1
  <2>1. E[i] # D[1] /\ E[i] \in Nat
    BY <1>1, <1>2 DEF Flow, Apart
  <2>2. E[i] > 0
    BY <1>6, <2>1
  <2> QED
    BY <1>3, <2>2, DistFacts
<1>9. n1 = n - 1
  <2>1. D[1] + ((L - 1) + 1) + P[1] = n /\ P[1] \in Nat
    BY <1>1, <1>2 DEF Flow, Counted, Numbers
  <2>2. n > 0
    BY <1>2, <1>6, <2>1
  <2> QED
    BY <2>2, DistFacts
<1> HIDE DEF r, w1, L, D, P, K, E, n, D1, P1, E1, n1
<1>10. Takes(L, D, P, K, E, n, L1, D1, P1, E1, n1)
  BY <1>2, <1>4, <1>5, <1>6, <1>7, <1>8, <1>9, SMTT(40) DEF Takes
<1> HIDE DEF L1
<1>11. Flow(L1, D1, P1, K, E1, n1, k)
  BY <1>1, <1>10, FlowTake
<1>12. FlowOf(r, l, x, w1, k)
  BY <1>4, <1>11 DEF FlowOf, D1, P1, K, E1, n1
<1> QED
  BY <1>12 DEF r, w1
(* A packet ahead of its turn arrives and is put into a free slot. *)
LEMMA KeepKeeps ==
  ASSUME NEW q \in Seq(Packet), NEW l \in Tables, NEW x \in Indices, NEW w \in Indices,
         NEW k, Few(k), FlowOf(q, l, x, w, k),
         \A i \in Kept(l) : Early(l, w)[i] # 0,
         NEW c \in 2 .. Len(q), \A j \in 1 .. c - 1 : q[j].passed < k,
         Ahead(q, w)[c] > 0, Ahead(q, w)[c] < TxCount, Dist(x, w) + 1 <= Len(q) + k,
         NEW f \in Slot \ Kept(l), NEW o \in Streams
  PROVE  LET l1 == [l EXCEPT ![f] = [idx |-> q[c].idx, owner |-> o]] IN
         /\ l1 \in Tables
         /\ FlowOf(RemoveAt(Passing(q, c), c), l1, x, w, k)
         /\ \A i \in Kept(l1) : Early(l1, w)[i] # 0
<1> DEFINE r == RemoveAt(Passing(q, c), c)
           p == [idx |-> q[c].idx, owner |-> o]
           l1 == [l EXCEPT ![f] = p]
           L == Len(q)
           D == Ahead(q, w)
           P == Passed(q)
           K == Kept(l)
           E == Early(l, w)
           n == Dist(x, w)
           L1 == L - 1
           D1 == Ahead(r, w)
           P1 == Passed(r)
           E1 == Early(l1, w)
<1>1. Flow(L, D, P, K, E, n, k) /\ Numbers(L, D, P, K, E, n, k)
  BY WireTypes, ListTypes, SentType DEF FlowOf, Few, Numbers
<1>2. c \in 1 .. L /\ L \in Nat /\ q[c].idx \in Indices /\ f \in Slot
  BY WireTypes
<1>3. p # Free /\ p \in [idx : Int, owner : Streams \cup {"none"}] /\ p.idx = q[c].idx
  <2>1. q[c].idx # -1 /\ q[c].idx \in Int
    BY <1>2, TurnFacts
  <2>2. p.idx = q[c].idx /\ Free.idx = -1
    BY DEF Free
  <2> QED
    BY <2>1, <2>2
<1> HIDE DEF p
<1>4. /\ l1 \in [Slot -> [idx : Int, owner : Streams \cup {"none"}]]
      /\ l1[f] = p /\ \A i \in Slot \ {f} : l1[i] = l[i]
  BY <1>2, <1>3 DEF Tables
<1> HIDE DEF l1
<1>5. Kept(l1) = K \cup {f}
  BY <1>2, <1>3, <1>4 DEF Kept
<1>6. l1 \in Tables
  <2>1. \A i \in K \cup {f} : l1[i].idx \in Indices
    BY <1>2, <1>3, <1>4 DEF Tables, Kept
  <2> QED
    BY <1>4, <1>5, <2>1 DEF Tables
<1>7. /\ Len(r) = L1
      /\ D1 \in [1 .. L1 -> Nat] /\ P1 \in [1 .. L1 -> Nat]
      /\ \A a \in 1 .. c - 1 : D1[a] = D[a] /\ P1[a] = P[a] + 1
      /\ \A a \in c .. L1 : D1[a] = D[a + 1] /\ P1[a] = P[a + 1]
  BY <1>2, Left
<1>8. E1 \in [Slot -> Int]
  BY <1>6, ListTypes
<1>9. (\A i \in K : E1[i] = E[i]) /\ E1[f] = D[c]
  <2>1. ASSUME NEW i \in K PROVE E1[i] = E[i]
    <3>1. i \in Slot /\ l1[i] = l[i]
      BY <1>4 DEF Kept
    <3> QED
      BY <3>1 DEF Early
  <2>2. E1[f] = D[c]
    BY <1>2, <1>3, <1>4 DEF Early, Ahead
  <2> QED
    BY <2>1, <2>2
<1>10. \A a \in 1 .. c - 1 : P[a] < k
  <2> SUFFICES ASSUME NEW a \in 1 .. c - 1 PROVE P[a] < k
    OBVIOUS
  <2>1. a \in 1 .. L
    BY <1>2
  <2> QED
    BY <2>1 DEF Passed
<1>11. D[c] > 0 /\ D[c] < TxCount /\ n + 1 <= L + k /\ f \notin K /\ \A i \in K : E[i] # 0
  OBVIOUS
<1>12. L - 1 \in Nat /\ c \in 2 .. L
  BY <1>2
<1> HIDE DEF r, L, D, P, K, E, n, D1, P1, E1
<1>13. Keeps(L, D, P, K, E, n, k, c, f, L1, D1, P1, E1)
  BY <1>2, <1>7, <1>8, <1>9, <1>10, <1>11, <1>12 DEF Keeps
<1>14. \A i \in K \cup {f} : E1[i] # 0
  BY <1>9, <1>11
<1> HIDE DEF L1
<1>15. Flow(L1, D1, P1, K \cup {f}, E1, n, k)
  BY <1>1, <1>13, FlowKeep
<1>16. FlowOf(r, l1, x, w, k)
  BY <1>5, <1>7, <1>15 DEF FlowOf, D1, P1, K, E1, n
<1> QED
  BY <1>5, <1>6, <1>14, <1>16 DEF r, p, l1, E1

(* A slot whose packet has the number the file needs has the packet it needs. *)
LEMMA Matching ==
  ASSUME NEW q \in Seq(Packet), NEW l \in Tables, NEW x \in Indices, NEW w \in Indices,
         NEW k, Few(k), FlowOf(q, l, x, w, k), NEW f \in Kept(l)
  PROVE  /\ Seqnum(l[f].idx) = Seqnum(w) => l[f].idx = w
         /\ Early(l, w)[f] = 0 <=> l[f].idx = w
<1>1. f \in Slot /\ l[f].idx \in Indices /\ Early(l, w)[f] = Dist(l[f].idx, w)
  BY DEF Kept, Tables, Early
<1>2. Early(l, w)[f] < TxCount
  BY DEF FlowOf, Flow, Apart
<1> QED
  BY <1>1, <1>2, SeqnumFacts, DistFacts

(* The packet the file needs is taken from list and written. *)
LEMMA DrainKeeps ==
  ASSUME NEW q \in Seq(Packet), NEW l \in Tables, NEW x \in Indices, NEW w \in Indices,
         NEW k, Few(k), FlowOf(q, l, x, w, k), NEW f \in Kept(l), l[f].idx = w
  PROVE  LET l1 == [l EXCEPT ![f] = Free] IN
         l1 \in Tables /\ FlowOf(q, l1, x, After(w), k)
<1> DEFINE l1 == [l EXCEPT ![f] = Free]
           w1 == After(w)
           L == Len(q)
           D == Ahead(q, w)
           P == Passed(q)
           K == Kept(l)
           E == Early(l, w)
           n == Dist(x, w)
           D1 == Ahead(q, w1)
           E1 == Early(l1, w1)
           n1 == Dist(x, w1)
<1>1. Flow(L, D, P, K, E, n, k) /\ Numbers(L, D, P, K, E, n, k)
  BY WireTypes, ListTypes, SentType DEF FlowOf, Few, Numbers
<1>2. w1 \in Indices /\ L \in Nat /\ f \in Slot
  BY AfterValue, WireTypes DEF Kept
<1>3. /\ \A a \in 1 .. L : /\ q[a].idx \in Indices /\ D[a] = Dist(q[a].idx, w)
                           /\ D1[a] = Dist(q[a].idx, w1)
      /\ \A i \in K : i \in Slot /\ l[i].idx \in Indices /\ E[i] = Dist(l[i].idx, w)
  BY WireTypes DEF Ahead, Tables, Kept, Early
<1>4. Free \in [idx : Int, owner : Streams \cup {"none"}]
  BY DEF Free
<1>5. /\ l1 \in [Slot -> [idx : Int, owner : Streams \cup {"none"}]]
      /\ l1[f] = Free /\ \A i \in Slot \ {f} : l1[i] = l[i]
  BY <1>2, <1>4 DEF Tables
<1> HIDE DEF l1
<1>6. Kept(l1) = K \ {f}
  BY <1>2, <1>5 DEF Kept
<1>7. l1 \in Tables
  <2>1. \A i \in K \ {f} : l1[i].idx \in Indices
    BY <1>3, <1>5
  <2> QED
    BY <1>5, <1>6, <2>1 DEF Tables
<1>8. D1 \in [1 .. L -> Nat] /\ E1 \in [Slot -> Int]
  BY <1>2, <1>7, WireTypes, ListTypes
<1>9. E[f] = 0
  BY Matching
<1>10. ASSUME NEW a \in 1 .. L PROVE D1[a] = D[a] - 1
  <2>1. E[f] # D[a] /\ D[a] \in Nat
    BY <1>1 DEF Flow, Apart, Numbers
  <2>2. D[a] > 0
    BY <1>9, <2>1
  <2> QED
    BY <1>3, <2>2, DistFacts, SMTT(40)
<1>11. ASSUME NEW i \in K \ {f} PROVE E1[i] = E[i] - 1
  <2>1. E[i] # E[f] /\ E[i] \in Nat
    BY <1>1 DEF Flow, Apart
  <2>2. E[i] > 0
    BY <1>9, <2>1
  <2>3. E1[i] = Dist(l[i].idx, w1)
    BY <1>3, <1>5 DEF Early
  <2> QED
    BY <1>3, <2>2, <2>3, DistFacts
<1>12. n1 = n - 1
  <2>1. E[f] < n /\ n \in Nat
    BY <1>1 DEF Flow, Apart, Numbers
  <2>2. n > 0
    BY <1>9, <2>1
  <2> QED
    BY <2>2, DistFacts
<1>13. f \in K
  OBVIOUS
<1> HIDE DEF w1, L, D, P, K, E, n, D1, E1, n1
<1>14. Drains(L, D, K, E, n, f, D1, E1, n1)
  BY <1>8, <1>9, <1>10, <1>11, <1>12, <1>13 DEF Drains
<1>15. Flow(L, D1, P, K \ {f}, E1, n1, k)
  BY <1>1, <1>14, FlowDrain
<1>16. FlowOf(q, l1, x, w1, k)
  BY <1>6, <1>15 DEF FlowOf, L, D1, P, K, E1, n1
<1> QED
  BY <1>7, <1>16 DEF l1, w1
-----------------------------------------------------------------------------
(* The invariant is inductive. *)

(* What the network may do. *)
LEMMA NetworkFacts ==
  ASSUME OneReceiver, network \in Networks
  PROVE  Few(network.overtakes)
  BY FlowAssumption DEF OneReceiver, Few

(* A thread that is in step, with its parts named. *)
LEMMA Parts ==
  ASSUME Typed, NEW s \in Streams
  PROVE  /\ wire[s] \in Seq(Packet) /\ list \in Tables
         /\ next[s] \in Indices /\ written[s] \in Indices
         /\ verify[s] \in Nat
  BY DEF Typed

(* At first nothing is under way or kept. *)
LEMMA FlowInit ==
  ASSUME Init
  PROVE  FlowInv
<1>1. losses = 0 /\ network \in Networks
  BY DEF Init
<1>2. 0 \in Indices
  BY TurnFacts
<1>3. Kept(list) = {} /\ list = [i \in Slot |-> Free]
  BY DEF Init, Kept
<1>4. list \in Tables
  BY <1>3 DEF Tables, Free
<1>5. Typed
  <2>1. << >> \in Seq(Packet)
    OBVIOUS
  <2>2. wire \in [Streams -> Seq(Packet)]
    BY <2>1 DEF Init
  <2>3. next \in [Streams -> Indices] /\ written \in [Streams -> Indices]
    BY <1>2 DEF Init
  <2>4. verify \in [Streams -> Nat]
    BY DEF Init
  <2>5. pc \in [Streams -> Places]
    BY DEF Init, Places
  <2> QED
    BY <1>4, <2>2, <2>3, <2>4, <2>5 DEF Typed
<1>6. ASSUME NEW s \in Streams PROVE InStep(s)
  <2>1. wire[s] = << >> /\ next[s] = 0 /\ written[s] = 0 /\ pc[s] = "receive" /\ verify[s] = 1
    BY DEF Init
  <2>2. network.overtakes \in Nat
    BY <1>1, FlowAssumption
  <2>3. Dist(0, 0) = 0
    BY <1>2, DistFacts
  <2>4. Len(<< >>) = 0
    OBVIOUS
  <2> DEFINE D == Ahead(wire[s], written[s])
             P == Passed(wire[s])
             E == Early(list, written[s])
             k == network.overtakes
  <2> HIDE DEF D, P, E, k
  <2>5. Flow(0, D, P, {}, E, 0, k)
    <3>1. Counted(0, D, P, 0, k)
      BY <2>2 DEF Counted, k
    <3>2. /\ Ordered(0, D) /\ Apart(0, D, {}, E, 0) /\ Complete(0, D, {}, E, 0)
          /\ Overtaken(0, D, P, {}, E)
      BY DEF Ordered, Apart, Complete, Overtaken
    <3> QED
      BY <3>1, <3>2 DEF Flow
  <2>6. FlowOf(wire[s], list, next[s], written[s], network.overtakes)
    BY <1>3, <2>1, <2>3, <2>4, <2>5 DEF FlowOf, D, P, E, k
  <2>7. Seqnum(0) = 1
    <3>1. TxCount \in Nat \ {0} /\ 0 = TxCount * 0 + 0
      BY FlowAssumption
    <3>2. 0 \in 0 .. TxCount - 1
      BY <3>1
    <3>3. 0 % TxCount = 0
      BY <3>1, <3>2, Remainder
    <3> QED
      BY <3>3 DEF Seqnum
  <2> QED
    BY <1>3, <2>1, <2>6, <2>7 DEF InStep
<1> QED
  BY <1>1, <1>5, <1>6 DEF FlowInv

(* A packet is sent. *)
LEMMA SendStep ==
  ASSUME OneReceiver, network \in Networks, Typed, NEW s \in Streams, InStep(s), Send(s)
  PROVE  Typed' /\ InStep(s)'
<1> DEFINE p == [idx |-> next[s], passed |-> 0]
           q1 == Append(wire[s], p)
           x1 == After(next[s])
<1>1. /\ Len(wire[s]) <= network.overtakes
      /\ wire' = [wire EXCEPT ![s] = q1]
      /\ next' = [next EXCEPT ![s] = x1]
      /\ UNCHANGED <<network, quit, losses, pc, verify, list, written, files>>
  BY DEF Send
<1>2. /\ wire[s] \in Seq(Packet) /\ list \in Tables
      /\ next[s] \in Indices /\ written[s] \in Indices
  BY Parts
<1>3. q1 \in Seq(Packet) /\ FlowOf(q1, list, x1, written[s], network.overtakes)
  <2>1. Few(network.overtakes)
    BY NetworkFacts
  <2>2. FlowOf(wire[s], list, next[s], written[s], network.overtakes)
    BY DEF InStep
  <2> DEFINE q == wire[s]
             x == next[s]
             w == written[s]
             k == network.overtakes
  <2>3. /\ q \in Seq(Packet) /\ list \in Tables /\ x \in Indices /\ w \in Indices
        /\ Few(k) /\ FlowOf(q, list, x, w, k) /\ Len(q) <= k
    BY <1>1, <1>2, <2>1, <2>2
  <2> DEFINE q2 == Append(q, [idx |-> x, passed |-> 0])
  <2>4. q2 \in Seq(Packet) /\ FlowOf(q2, list, After(x), w, k)
    <3> HIDE DEF q, x, w, k
    <3> QED
      BY <2>3, SendKeeps
  <2> QED
    BY <2>4
<1>4. x1 \in Indices
  BY <1>2, AfterValue
<1> HIDE DEF q1, x1
<1>5. wire'[s] = q1 /\ next'[s] = x1
  BY <1>1 DEF Typed
<1>6. Typed'
  BY <1>1, <1>3, <1>4 DEF Typed
<1> QED
  BY <1>1, <1>3, <1>5, <1>6 DEF InStep

(* The packet the file needs next, after the one that is written. *)
LEMMA WriteStep ==
  ASSUME OneReceiver, network \in Networks, Typed, NEW s \in Streams, InStep(s),
         Write(s, written[s])
  PROVE  /\ written' = [written EXCEPT ![s] = After(written[s])]
         /\ After(written[s]) \in Indices
         /\ written'[s] = After(written[s])
         /\ verify'[s] = Seqnum(After(written[s]))
         /\ verify' \in [Streams -> Nat]
<1>1. written[s] \in Indices /\ verify[s] = Seqnum(written[s]) /\ verify[s] \in Nat
  BY Parts DEF InStep
<1>2. After(written[s]) \in Indices
  BY <1>1, AfterValue
<1>3. written' = [written EXCEPT ![s] = After(written[s])]
  BY DEF Write
<1>4. /\ verify' = [verify EXCEPT ![s] = IF ClosesFile(verify[s]) THEN 1 ELSE verify[s] + 1]
  BY DEF Write
<1>5. ClosesFile(verify[s]) <=> verify[s] = TxCount
  BY NetworkFacts DEF ClosesFile, Few
<1>6. verify'[s] = Seqnum(After(written[s])) /\ verify' \in [Streams -> Nat]
  <2>1. verify'[s] = IF verify[s] = TxCount THEN 1 ELSE verify[s] + 1
    BY <1>4, <1>5 DEF Typed
  <2>2. verify' \in [Streams -> Nat]
    BY <1>1, <1>4 DEF Typed
  <2> QED
    BY <1>1, <2>1, <2>2, SeqnumFacts
<1> QED
  BY <1>2, <1>3, <1>6 DEF Typed

(* A packet arrives. *)
LEMMA ArriveStep ==
  ASSUME OneReceiver, network \in Networks, Typed, NEW s \in Streams, InStep(s),
         ReceiveInOrder(s) \/ ReceiveAhead(s) \/ GiveUp(s)
  PROVE  Typed' /\ InStep(s)'
<1> DEFINE q == wire[s]
           w == written[s]
           k == network.overtakes
<1>1. /\ q \in Seq(Packet) /\ list \in Tables /\ next[s] \in Indices /\ w \in Indices
      /\ Few(k) /\ FlowOf(q, list, next[s], w, k)
      /\ verify[s] = Seqnum(w)
  BY Parts, NetworkFacts DEF InStep
<1>2. pc[s] = "receive" /\ \A i \in Kept(list) : Early(list, w)[i] # 0
  BY DEF InStep, ReceiveInOrder, ReceiveAhead, GiveUp
<1>3. FreeSlots = Slot \ Kept(list)
  BY DEF FreeSlots, Kept
<1>4. ASSUME NEW c \in Arrivals(s)
      PROVE  /\ c \in 1 .. Len(q) /\ \A j \in 1 .. c - 1 : q[j].passed < k
             /\ Leave(s, c) => wire' = [wire EXCEPT ![s] = RemoveAt(Passing(q, c), c)]
  <2>1. DOMAIN q = 1 .. Len(q)
    BY <1>1
  <2> QED
    BY <2>1 DEF Arrivals, Leave, Passing
<1>5. ASSUME NEW c \in Arrivals(s)
      PROVE  \/ c = 1 /\ q[c].idx = w
             \/ /\ c \in 2 .. Len(q) /\ Seqnum(q[c].idx) # Seqnum(w)
                /\ Ahead(q, w)[c] > 0 /\ Ahead(q, w)[c] < TxCount
                /\ Dist(next[s], w) + 1 <= Len(q) + k
                /\ Kept(list) # Slot
  <2> HIDE DEF q, w, k
  <2> QED
    BY <1>1, <1>2, <1>4, Arriving
<1>6. ASSUME NEW c \in Arrivals(s), Leave(s, c)
      PROVE  /\ wire' \in [Streams -> Seq(Packet)]
             /\ wire'[s] = RemoveAt(Passing(q, c), c)
  <2> DEFINE r == RemoveAt(Passing(q, c), c)
  <2>1. r \in Seq(Packet)
    <3> HIDE DEF q, w
    <3> QED
      BY <1>1, <1>4, Left
  <2>2. wire' = [wire EXCEPT ![s] = r]
    BY <1>4, <1>6
  <2> HIDE DEF r
  <2>3. wire' \in [Streams -> Seq(Packet)] /\ wire'[s] = r
    BY <2>1, <2>2 DEF Typed
  <2> QED
    BY <2>3 DEF r
<1>7. CASE ReceiveInOrder(s)
  <2>1. PICK c \in Arrivals(s) : /\ Seqnum(q[c].idx) = verify[s]
                                 /\ Write(s, q[c].idx) /\ Leave(s, c)
    BY <1>7 DEF ReceiveInOrder
  <2>2. /\ pc' = [pc EXCEPT ![s] = "drain"]
        /\ UNCHANGED <<network, next, quit, losses, list>>
    BY <1>7 DEF ReceiveInOrder
  <2>3. c = 1 /\ q[1].idx = w /\ Len(q) > 0
    BY <1>1, <1>4, <1>5, <2>1
  <2>4. Write(s, w)
    BY <2>1, <2>3
  <2>5. /\ written' = [written EXCEPT ![s] = After(w)] /\ After(w) \in Indices
        /\ written'[s] = After(w) /\ verify'[s] = Seqnum(After(w))
        /\ verify' \in [Streams -> Nat]
    BY <2>4, WriteStep
  <2>6. /\ wire' \in [Streams -> Seq(Packet)]
        /\ wire'[s] = RemoveAt(Passing(q, 1), 1)
    BY <1>6, <2>1, <2>3
  <2>7. FlowOf(RemoveAt(Passing(q, 1), 1), list, next[s], After(w), k)
    <3> HIDE DEF q, w, k
    <3> QED
      BY <1>1, <2>3, TakeKeeps
  <2>8. written' \in [Streams -> Indices] /\ pc' \in [Streams -> Places] /\ pc'[s] = "drain"
    <3>1. pc' \in [Streams -> Places] /\ pc'[s] = "drain"
      BY <2>2 DEF Typed, Places
    <3> DEFINE v == After(w)
    <3>2. written' = [written EXCEPT ![s] = v] /\ v \in Indices
      BY <2>5
    <3> HIDE DEF v
    <3>3. written' \in [Streams -> Indices]
      BY <3>2 DEF Typed
    <3> QED
      BY <3>1, <3>3
  <2>9. Typed'
    BY <2>2, <2>5, <2>6, <2>8 DEF Typed
  <2>10. FlowOf(wire'[s], list', next'[s], written'[s], network'.overtakes)
    BY <2>2, <2>5, <2>6, <2>7
  <2> QED
    BY <2>5, <2>8, <2>9, <2>10 DEF InStep
<1>8. CASE ReceiveAhead(s)
  <2>1. PICK c \in Arrivals(s) :
          /\ Seqnum(q[c].idx) # verify[s]
          /\ list' = [list EXCEPT ![FirstSlot(FreeSlots)] = [idx |-> q[c].idx, owner |-> s]]
          /\ Leave(s, c)
    BY <1>8 DEF ReceiveAhead
  <2>2. /\ FreeSlots # {}
        /\ UNCHANGED <<network, next, quit, losses, pc, verify, written, files>>
    BY <1>8 DEF ReceiveAhead
  <2> DEFINE f == FirstSlot(FreeSlots)
             r == RemoveAt(Passing(q, c), c)
             l1 == [list EXCEPT ![f] = [idx |-> q[c].idx, owner |-> s]]
  <2>3. f \in Slot \ Kept(list)
    BY <1>3, <2>2, FirstOf
  <2>4. /\ c \in 2 .. Len(q)
        /\ Ahead(q, w)[c] > 0 /\ Ahead(q, w)[c] < TxCount
        /\ Dist(next[s], w) + 1 <= Len(q) + k
    BY <1>1, <1>5, <2>1
  <2>5. /\ l1 \in Tables /\ FlowOf(r, l1, next[s], w, k)
        /\ \A i \in Kept(l1) : Early(l1, w)[i] # 0
    <3>1. \A j \in 1 .. c - 1 : q[j].passed < k
      BY <1>4
    <3> HIDE DEF q, w, k, f
    <3> QED
      BY <1>1, <1>2, <2>3, <2>4, <3>1, KeepKeeps
  <2>6. wire' \in [Streams -> Seq(Packet)] /\ wire'[s] = r
    BY <1>6, <2>1
  <2>7. list' = l1
    BY <2>1
  <2> HIDE DEF f, r, l1
  <2>8. Typed'
    BY <2>2, <2>5, <2>6, <2>7 DEF Typed
  <2>9. FlowOf(wire'[s], list', next'[s], written'[s], network'.overtakes)
    BY <2>2, <2>5, <2>6, <2>7
  <2> QED
    BY <1>1, <1>2, <2>2, <2>5, <2>7, <2>8, <2>9 DEF InStep
<1>9. CASE GiveUp(s)
  <2>1. PICK c \in Arrivals(s) : Seqnum(q[c].idx) # verify[s] /\ Leave(s, c)
    BY <1>9 DEF GiveUp
  <2>2. Kept(list) = Slot
    BY <1>3, <1>9 DEF GiveUp, Kept
  <2> QED
    BY <1>1, <1>5, <2>1, <2>2
<1> QED
  BY <1>7, <1>8, <1>9
(* list is looked through for the packet with the number verify. *)
LEMMA DrainStep ==
  ASSUME OneReceiver, network \in Networks, Typed, NEW s \in Streams, InStep(s),
         DrainOne(s) \/ DrainEnd(s)
  PROVE  Typed' /\ InStep(s)'
<1> DEFINE q == wire[s]
           x == next[s]
           w == written[s]
           k == network.overtakes
<1>1. /\ q \in Seq(Packet) /\ list \in Tables /\ x \in Indices /\ w \in Indices
      /\ Few(k) /\ FlowOf(q, list, x, w, k)
      /\ verify[s] = Seqnum(w)
  BY Parts, NetworkFacts DEF InStep
<1>2. pc[s] = "drain"
  BY DEF DrainOne, DrainEnd
<1>3. Wanted(s) = {i \in Kept(list) : Seqnum(list[i].idx) = Seqnum(w)}
  BY <1>1 DEF Wanted, Kept
<1>4. ASSUME NEW i \in Kept(list)
      PROVE  /\ i \in Wanted(s) => list[i].idx = w
             /\ Early(list, w)[i] = 0 => i \in Wanted(s)
  <2> DEFINE W == Wanted(s)
  <2>1. W = {j \in Kept(list) : Seqnum(list[j].idx) = Seqnum(w)}
    BY <1>3
  <2> HIDE DEF q, x, w, k, W
  <2>2. /\ Seqnum(list[i].idx) = Seqnum(w) => list[i].idx = w
        /\ Early(list, w)[i] = 0 <=> list[i].idx = w
    BY <1>1, Matching
  <2>3. /\ i \in W => list[i].idx = w
        /\ Early(list, w)[i] = 0 => i \in W
    BY <2>1, <2>2
  <2> QED
    BY <2>3 DEF W
<1>5. CASE DrainOne(s)
  <2> DEFINE f == FirstSlot(Wanted(s))
             l1 == [list EXCEPT ![f] = Free]
             v == After(w)
  <2>1. /\ Wanted(s) # {} /\ Write(s, list[f].idx) /\ list' = l1
        /\ UNCHANGED <<network, next, quit, wire, losses, pc>>
    BY <1>5 DEF DrainOne
  <2>2. f \in Wanted(s) /\ f \in Kept(list)
    <3>1. Wanted(s) \in SUBSET Slot
      BY DEF Wanted
    <3>2. f \in Wanted(s)
      BY <2>1, <3>1, FirstOf
    <3> QED
      BY <1>3, <3>2
  <2> HIDE DEF f
  <2>3. list[f].idx = w
    BY <1>4, <2>2
  <2>4. /\ written' = [written EXCEPT ![s] = v] /\ v \in Indices
        /\ written'[s] = v /\ verify'[s] = Seqnum(v)
        /\ verify' \in [Streams -> Nat]
    <3>1. Write(s, written[s])
      BY <2>1, <2>3
    <3> QED
      BY <3>1, WriteStep
  <2>5. l1 \in Tables /\ FlowOf(q, l1, x, v, k)
    <3> HIDE DEF q, x, w, k
    <3> QED
      BY <1>1, <2>2, <2>3, DrainKeeps
  <2> HIDE DEF l1, v
  <2>6. written' \in [Streams -> Indices]
    BY <2>4 DEF Typed
  <2>7. Typed'
    BY <2>1, <2>4, <2>5, <2>6 DEF Typed
  <2>8. FlowOf(wire'[s], list', next'[s], written'[s], network'.overtakes)
    BY <2>1, <2>4, <2>5
  <2>9. pc'[s] = "drain"
    BY <1>2, <2>1
  <2> QED
    BY <2>4, <2>7, <2>8, <2>9 DEF InStep
<1>6. CASE DrainEnd(s)
  <2>1. /\ Wanted(s) = {} /\ pc' = [pc EXCEPT ![s] = "receive"]
        /\ UNCHANGED <<network, next, quit, wire, losses, verify, list, written, files>>
    BY <1>6 DEF DrainEnd
  <2>2. pc'[s] = "receive" /\ pc' \in [Streams -> Places]
    BY <2>1 DEF Typed, Places
  <2>3. Typed'
    BY <2>1, <2>2 DEF Typed
  <2>4. \A i \in Kept(list) : Early(list, w)[i] # 0
    BY <1>4, <2>1
  <2>5. FlowOf(wire'[s], list', next'[s], written'[s], network'.overtakes)
    BY <1>1, <2>1
  <2> QED
    BY <1>1, <2>1, <2>2, <2>3, <2>4, <2>5 DEF InStep
<1> QED
  BY <1>5, <1>6

(* The other steps leave the packets where they are. *)
LEMMA OtherSteps ==
  ASSUME Typed, NEW s \in Streams, InStep(s), SendQuit(s) \/ TimeOut(s)
  PROVE  Typed' /\ InStep(s)'
<1>1. UNCHANGED <<network, next, wire, losses, verify, list, written>>
  BY DEF SendQuit, TimeOut
<1>2. /\ pc' \in [Streams -> Places]
      /\ pc'[s] = pc[s] \/ (pc[s] = "receive" /\ pc'[s] = "stopped")
  BY DEF SendQuit, TimeOut, Typed, Places
<1>3. Typed'
  BY <1>1, <1>2 DEF Typed
<1>4. FlowOf(wire'[s], list', next'[s], written'[s], network'.overtakes)
  BY <1>1 DEF InStep
<1> QED
  BY <1>1, <1>2, <1>3, <1>4 DEF InStep

(* Every step keeps the invariant; a loss ends what it promises. *)
LEMMA FlowStep ==
  ASSUME OneReceiver, FlowInv, [Next]_vars
  PROVE  FlowInv'
<1>1. losses \in Nat /\ network \in Networks
  BY DEF FlowInv
<1>2. CASE UNCHANGED vars
  <2>1. /\ network' = network /\ next' = next /\ wire' = wire /\ losses' = losses
        /\ pc' = pc /\ verify' = verify /\ list' = list /\ written' = written
    BY <1>2 DEF vars
  <2>2. Typed' <=> Typed
    BY <2>1 DEF Typed
  <2>3. ASSUME NEW s \in Streams PROVE InStep(s)' <=> InStep(s)
    BY <2>1 DEF InStep
  <2> QED
    BY <2>1, <2>2, <2>3 DEF FlowInv
<1>3. CASE Next
  <2>1. PICK s \in Streams : Send(s) \/ SendQuit(s) \/ Lose(s) \/ Receive(s)
    BY <1>3 DEF Next
  <2>2. \A t \in Streams : t = s
    BY DEF OneReceiver
  <2>3. CASE Lose(s)
    <3>1. losses' = losses + 1 /\ network' = network
      BY <2>3 DEF Lose
    <3>2. losses' \in Nat /\ losses' # 0
      BY <1>1, <3>1
    <3> QED
      BY <1>1, <3>1, <3>2 DEF FlowInv
  <2>4. CASE ~Lose(s)
    <3>1. Send(s) \/ SendQuit(s) \/ Receive(s)
      BY <2>1, <2>4
    <3>2. losses' = losses /\ network' = network
      BY <3>1 DEF Send, SendQuit, Receive, ReceiveInOrder, ReceiveAhead, GiveUp, DrainOne,
                  DrainEnd, TimeOut
    <3>3. ASSUME losses = 0 PROVE Typed' /\ InStep(s)'
      <4>1. Typed /\ InStep(s)
        BY <3>3 DEF FlowInv
      <4>2. \/ Send(s)
            \/ ReceiveInOrder(s) \/ ReceiveAhead(s) \/ GiveUp(s)
            \/ DrainOne(s) \/ DrainEnd(s)
            \/ SendQuit(s) \/ TimeOut(s)
        BY <3>1 DEF Receive
      <4> QED
        BY <1>1, <4>1, <4>2, SendStep, ArriveStep, DrainStep, OtherSteps
    <3> QED
      BY <1>1, <2>2, <3>2, <3>3 DEF FlowInv
  <2> QED
    BY <2>3, <2>4
<1> QED
  BY <1>2, <1>3

-----------------------------------------------------------------------------
(* The packets a thread has not yet written are, without a gap and none twice, under
   way or in list, and those in list have overtaken the first that is missing: in
   every state before a packet is lost (run_rx, find_nextpacketinlist). *)
THEOREM FlowInductive == OneReceiver /\ Spec => []FlowInv
<1> SUFFICES ASSUME OneReceiver PROVE Spec => []FlowInv
  OBVIOUS
<1>1. Init => FlowInv
  BY FlowInit
<1>2. FlowInv /\ [Next]_vars => FlowInv'
  BY FlowStep
<1> QED
  BY <1>1, <1>2, PTL DEF Spec

(* What run_rx and find_nextpacketinlist write into the file are the packets in the
   order they were sent, although a slot is looked up by the place in the round. *)
THEOREM WrittenInOrder == OneReceiver /\ Spec => []InOrder
<1> SUFFICES ASSUME OneReceiver PROVE Spec => []InOrder
  OBVIOUS
<1>1. FlowInv => InOrder
  BY DEF FlowInv, InOrder, InStep
<1>2. Spec => []FlowInv
  BY FlowInductive
<1> QED
  BY <1>1, <1>2, PTL

(* run_rx finds every slot in use ("lost too much chip") only after a loss. *)
THEOREM GivesUpAfterLoss == OneReceiver /\ Spec => []LostMeansLost
<1> SUFFICES ASSUME OneReceiver PROVE Spec => []LostMeansLost
  OBVIOUS
<1>1. FlowInv => LostMeansLost
  <2> SUFFICES ASSUME FlowInv, NEW s \in Streams, pc[s] = "gaveUp" PROVE losses > 0
    BY DEF LostMeansLost
  <2>1. losses # 0 /\ losses \in Nat
    BY DEF FlowInv, InStep
  <2> QED
    BY <2>1
<1>2. Spec => []FlowInv
  BY FlowInductive
<1> QED
  BY <1>1, <1>2, PTL

-----------------------------------------------------------------------------
(* The shutdown: what the threads, main and the handler have done so far. *)

ThreadStates(running) == {"none", running, "ended"}

ShutdownType ==
  /\ created \in 0 .. 2 * N /\ slept \in BOOLEAN
  /\ main \in {"create", "join", "exited"}
  /\ capture \in BOOLEAN
  /\ handler \in {"none", "waitReport", "waitAn", "stopRx", "stopTx", "closed"}
  /\ current \in StreamNumbers
  /\ shutdownInProgress \in BOOLEAN
  /\ rx \in [StreamNumbers -> ThreadStates("receiving")]
  /\ tx \in [StreamNumbers -> ThreadStates("sending")]
  /\ an_stop \in [StreamNumbers -> BOOLEAN]
  /\ idle \in [StreamNumbers -> Nat]
  /\ stalled \in [StreamNumbers -> BOOLEAN]
  /\ rxAttached \in [StreamNumbers -> BOOLEAN]
  /\ txAttached \in [StreamNumbers -> BOOLEAN]
  /\ opened \in BOOLEAN

(* main creates the threads in their order, and nobody else does. *)
CreatedInOrder ==
  \A i \in StreamNumbers :
    /\ rx[i] = "none" <=> created <= 2 * i
    /\ tx[i] = "none" <=> created <= 2 * i + 1
    /\ rx[i] = "none" => idle[i] = 0

(* A flag is set by a thread that ends. *)
FlagsTrue == \A i \in StreamNumbers : an_stop[i] => rx[i] = "ended"

(* The handler has begun to take streams away. *)
Taking == handler \in {"stopRx", "stopTx", "closed"}

StageInv ==
  /\ handler = "none" <=> ~shutdownInProgress
  /\ opened <=> handler # "closed"
  /\ Taking => \A i \in StreamNumbers : an_stop[i]
  /\ ~Taking => \A i \in StreamNumbers : /\ rx[i] # "none" => rxAttached[i]
                                         /\ tx[i] # "none" => txAttached[i]

(* Before the signal senders do not end, and main has them all sending and the
   capture on when it joins. *)
BeforeSignal ==
  ~shutdownInProgress =>
    /\ \A i \in StreamNumbers : tx[i] # "ended"
    /\ main # "create" => created = 2 * N /\ capture

(* A link is not stalled unless that has happened. *)
Unstalled == "stall" \notin fault => \A i \in StreamNumbers : ~stalled[i]

(* When the last receiver has been idle for two ticks there has been a tick since
   the signal, before which every sender had left. *)
LastIdle ==
  "stall" \notin fault =>
    /\ idle[N - 1] >= 2 \/ an_stop[N - 1] =>
         shutdownInProgress /\ \A i \in StreamNumbers : tx[i] # "sending"
    /\ created = 2 * N - 1 /\ ~slept => idle[N - 1] = 0

OrderInv ==
  ShutdownType /\ CreatedInOrder /\ FlagsTrue /\ StageInv /\ BeforeSignal /\ Unstalled

-----------------------------------------------------------------------------
(* Between the last receiver and its sender main has one thread left to create. *)
LEMMA LastCreated ==
  OrderInv /\ rx[N - 1] = "receiving" /\ created % 2 = 1 => created = 2 * N - 1
<1>1. \A c \in Nat, n \in Nat : c <= 2 * n /\ c > 2 * (n - 1) /\ c % 2 = 1 => c = 2 * n - 1
  OBVIOUS
<1>2. N \in Nat /\ N - 1 \in StreamNumbers
  BY ShutdownAssumption DEF StreamNumbers
<1>3. OrderInv => created \in Nat /\ created <= 2 * N
  BY <1>2 DEF OrderInv, ShutdownType
<1>4. OrderInv /\ rx[N - 1] = "receiving" => created > 2 * (N - 1)
  BY <1>2, <1>3 DEF OrderInv, CreatedInOrder
<1> QED
  BY <1>1, <1>2, <1>3, <1>4

(* main has created nothing yet. *)
LEMMA ShutdownBegins == ShutdownInit => OrderInv /\ LastIdle
<1> SUFFICES ASSUME ShutdownInit PROVE OrderInv /\ LastIdle
  OBVIOUS
<1>1. N \in Nat \ {0}
  BY ShutdownAssumption
<1>2. ShutdownType
  <2>1. 0 \in StreamNumbers /\ 0 \in 0 .. 2 * N
    BY <1>1 DEF StreamNumbers
  <2> QED
    BY <2>1 DEF ShutdownInit, ShutdownType, ThreadStates
<1>4. CreatedInOrder /\ FlagsTrue
  BY <1>1 DEF ShutdownInit, CreatedInOrder, FlagsTrue, StreamNumbers
<1>3. StageInv /\ BeforeSignal /\ Unstalled /\ LastIdle
  BY <1>1 DEF ShutdownInit, StageInv, Taking, BeforeSignal, Unstalled, LastIdle, StreamNumbers
<1> QED
  BY <1>2, <1>3, <1>4 DEF OrderInv

(* Each thread, main, the handler and the clock, one step. *)
LEMMA OrderStep ==
  ASSUME OrderInv, [ShutdownNext]_shutdownVars
  PROVE  OrderInv'
<1> USE ShutdownAssumption DEF OrderInv, ShutdownType, ThreadStates, CreatedInOrder, FlagsTrue,
    StageInv, Taking, BeforeSignal, Unstalled, StreamNumbers, HandlerActive,
    mainVars, handlerVars, reportVars, rxVars, txVars, cardVars
<1>1. CASE CreateRx
  <2>1. PICK i \in StreamNumbers : created = 2 * i /\ created \div 2 = i
    BY <1>1 DEF CreateRx
  <2>2. /\ rx' = [rx EXCEPT ![i] = "receiving"]
        /\ rxAttached' = [rxAttached EXCEPT ![i] = TRUE]
        /\ created' = 2 * i + 1 /\ slept' = FALSE
        /\ handler = "none"
    BY <1>1, <2>1 DEF CreateRx
  <2>3. rx[i] = "none"
    BY <2>1
  <2>4. ShutdownType'
    <3>1. /\ rx' \in [StreamNumbers -> ThreadStates("receiving")]
          /\ rxAttached' \in [StreamNumbers -> BOOLEAN]
      BY <2>1, <2>2
    <3>2. created' \in 0 .. 2 * N
      BY <2>1, <2>2
    <3> QED
      BY <1>1, <2>2, <3>1, <3>2 DEF CreateRx
  <2>5. CreatedInOrder' /\ FlagsTrue' /\ StageInv' /\ BeforeSignal' /\ Unstalled'
    BY <1>1, <2>1, <2>2, <2>3 DEF CreateRx
  <2> QED
    BY <2>4, <2>5
<1>2. CASE CreateTx
  BY <1>2 DEF CreateTx
<1>3. CASE CaptureStart
  BY <1>3 DEF CaptureStart
<1>4. CASE Exit
  BY <1>4 DEF Exit
<1>5. CASE ReportEnd
  BY <1>5 DEF ReportEnd
<1>6. CASE ReportNoLog
  BY <1>6 DEF ReportNoLog
<1>7. CASE HandlerReport
  BY <1>7 DEF HandlerReport
<1>8. CASE HandlerAn
  BY <1>8 DEF HandlerAn
<1>9. CASE HandlerRx
  BY <1>9 DEF HandlerRx
<1>10. CASE HandlerTx
  <2>1. CASE current = N - 1
    BY <1>10, <2>1 DEF HandlerTx
  <2>2. CASE current # N - 1
    BY <1>10, <2>2 DEF HandlerTx
  <2> QED
    BY <2>1, <2>2
<1>11. CASE Signal
  BY <1>11 DEF Signal
<1>12. CASE Tick
  BY <1>12 DEF Tick
<1>13. ASSUME NEW i \in StreamNumbers, RxIdleOut(i) PROVE OrderInv'
  BY <1>13 DEF RxIdleOut
<1>14. ASSUME NEW i \in StreamNumbers, TxLeave(i) PROVE OrderInv'
  BY <1>14 DEF TxLeave
<1>15. ASSUME NEW i \in StreamNumbers, RxGiveUp(i) PROVE OrderInv'
  BY <1>15 DEF RxGiveUp
<1>16. ASSUME NEW i \in StreamNumbers, LinkChange(i) PROVE OrderInv'
  BY <1>16 DEF LinkChange
<1>17. CASE UNCHANGED shutdownVars
  BY <1>17 DEF shutdownVars
<1> QED
  BY <1>1, <1>2, <1>3, <1>4, <1>5, <1>6, <1>7, <1>8, <1>9, <1>10, <1>11, <1>12, <1>13,
     <1>14, <1>15, <1>16, <1>17 DEF ShutdownNext, ThreadStep

(* The clock is what LastIdle is about: main does not let two ticks pass without
   the capture, and no sender lets one pass after the signal. *)
LEMMA LastIdleStep ==
  ASSUME OrderInv, IdleLimit >= 2, LastIdle, [ShutdownNext]_shutdownVars
  PROVE  LastIdle'
<1> USE ShutdownAssumption DEF OrderInv, ShutdownType, ThreadStates, CreatedInOrder, FlagsTrue,
    StageInv, BeforeSignal, Unstalled, LastIdle, StreamNumbers, HandlerActive,
    Runnable, Flowing, mainVars, handlerVars, reportVars, rxVars, txVars, cardVars
<1>1. CASE CreateRx
  BY <1>1 DEF CreateRx
<1>2. CASE CreateTx
  BY <1>2 DEF CreateTx
<1>3. CASE CaptureStart
  BY <1>3 DEF CaptureStart
<1>4. CASE Exit
  BY <1>4 DEF Exit
<1>5. CASE ReportEnd
  BY <1>5 DEF ReportEnd
<1>6. CASE ReportNoLog
  BY <1>6 DEF ReportNoLog
<1>7. CASE HandlerReport
  BY <1>7 DEF HandlerReport
<1>8. CASE HandlerAn
  BY <1>8 DEF HandlerAn
<1>9. CASE HandlerRx
  BY <1>9 DEF HandlerRx
<1>10. CASE HandlerTx
  BY <1>10 DEF HandlerTx
<1>11. CASE Signal
  BY <1>11 DEF Signal
<1>12. CASE Tick
  <2> SUFFICES ASSUME "stall" \notin fault PROVE LastIdle'
    BY <1>12 DEF Tick
  <2>1. /\ N - 1 \in StreamNumbers /\ idle[N - 1] \in Nat
        /\ \A i \in StreamNumbers : ~stalled[i]
        /\ idle'[N - 1] = IF rx[N - 1] = "receiving" /\ ~Flowing(N - 1)
                          THEN idle[N - 1] + 1 ELSE 0
        /\ ~Runnable /\ slept'
        /\ UNCHANGED <<fault, an_stop, created, shutdownInProgress, tx>>
    BY <1>12 DEF Tick
  <2>2. CASE shutdownInProgress
    BY <2>1, <2>2
  <2>3. CASE ~shutdownInProgress /\ main = "create"
    <3>1. created % 2 = 1 /\ ~slept
      BY <2>1, <2>3
    <3>2. idle'[N - 1] < 2
      <4>1. CASE rx[N - 1] # "receiving" \/ Flowing(N - 1)
        BY <2>1, <4>1
      <4>2. CASE rx[N - 1] = "receiving" /\ ~Flowing(N - 1)
        <5>1. created = 2 * N - 1
          BY <3>1, <4>2, LastCreated
        <5> QED
          BY <2>1, <3>1, <4>2, <5>1
      <4> QED
        BY <4>1, <4>2
    <3> QED
      BY <2>1, <2>3, <3>1, <3>2
  <2>4. CASE ~shutdownInProgress /\ main # "create"
    <3>1. tx[N - 1] = "sending" /\ capture
      BY <2>1, <2>4
    <3>2. idle'[N - 1] = 0
      BY <2>1, <3>1
    <3> QED
      BY <2>1, <2>4, <3>2
  <2> QED
    BY <2>2, <2>3, <2>4
<1>13. ASSUME NEW i \in StreamNumbers, RxIdleOut(i) PROVE LastIdle'
  <2>1. /\ N - 1 \in StreamNumbers /\ idle[i] \in Nat
        /\ an_stop' = [an_stop EXCEPT ![i] = TRUE] /\ idle[i] >= IdleLimit
        /\ UNCHANGED <<fault, idle, created, slept, shutdownInProgress, tx>>
    BY <1>13 DEF RxIdleOut
  <2>2. an_stop'[N - 1] => an_stop[N - 1] \/ idle[N - 1] >= 2
    BY <2>1
  <2> QED
    BY <2>1, <2>2
<1>14. ASSUME NEW i \in StreamNumbers, TxLeave(i) PROVE LastIdle'
  BY <1>14 DEF TxLeave
<1>15. ASSUME NEW i \in StreamNumbers, RxGiveUp(i) PROVE LastIdle'
  BY <1>15 DEF RxGiveUp
<1>16. ASSUME NEW i \in StreamNumbers, LinkChange(i) PROVE LastIdle'
  BY <1>16 DEF LinkChange
<1>17. CASE UNCHANGED shutdownVars
  BY <1>17 DEF shutdownVars
<1> QED
  BY <1>1, <1>2, <1>3, <1>4, <1>5, <1>6, <1>7, <1>8, <1>9, <1>10, <1>11, <1>12, <1>13,
     <1>14, <1>15, <1>16, <1>17 DEF ShutdownNext, ThreadStep

-----------------------------------------------------------------------------
(* No receive stream is detached and the card is not closed while its thread
   receives, whatever faults happen and however short the limit is. *)
THEOREM ReceiversKept == ShutdownSpec => []RxDetachedUnused
<1>1. ASSUME OrderInv PROVE RxDetachedUnused
  <2> SUFFICES ASSUME NEW i \in StreamNumbers, rx[i] = "receiving"
               PROVE  rxAttached[i] /\ opened
    BY DEF RxDetachedUnused
  <2>1. ~an_stop[i]
    BY <1>1 DEF OrderInv, FlagsTrue
  <2>2. ~Taking
    BY <1>1, <2>1 DEF OrderInv, StageInv
  <2>3. opened
    BY <1>1, <2>2 DEF OrderInv, StageInv, Taking
  <2>4. StageInv
    BY <1>1 DEF OrderInv
  <2>5. rx[i] # "none" => rxAttached[i]
    BY <2>2, <2>4, Zenon DEF StageInv
  <2> QED
    BY <2>3, <2>5
<1> QED
  BY <1>1, ShutdownBegins, OrderStep, PTL DEF ShutdownSpec

(* No transmit stream is detached while its thread sends, though nothing waits for
   it, as long as the link has not been stalled and the limit of the receivers is
   longer than one sleep of main: with a shorter one every receiver can time out
   before the capture starts, and the shutdown does not take a tick. *)
THEOREM SendersKept == IdleLimit >= 2 /\ ShutdownSpec => []TxDetachedUnused
<1> SUFFICES ASSUME IdleLimit >= 2 PROVE ShutdownSpec => []TxDetachedUnused
  OBVIOUS
<1>1. ASSUME OrderInv, LastIdle PROVE TxDetachedUnused
  <2> SUFFICES ASSUME "stall" \notin fault, NEW i \in StreamNumbers, tx[i] = "sending"
               PROVE  txAttached[i] /\ opened
    BY DEF TxDetachedUnused
  <2>1. N - 1 \in StreamNumbers
    BY ShutdownAssumption DEF StreamNumbers
  <2>2. ~an_stop[N - 1]
    BY <1>1 DEF LastIdle
  <2>3. ~Taking
    BY <1>1, <2>1, <2>2 DEF OrderInv, StageInv
  <2>4. opened
    BY <1>1, <2>3 DEF OrderInv, StageInv, Taking
  <2>5. StageInv
    BY <1>1 DEF OrderInv
  <2>6. tx[i] # "none" => txAttached[i]
    BY <2>3, <2>5, Zenon DEF StageInv
  <2> QED
    BY <2>4, <2>6
<1>2. OrderInv /\ LastIdle /\ [ShutdownNext]_shutdownVars => OrderInv' /\ LastIdle'
  BY OrderStep, LastIdleStep
<1> QED
  BY <1>1, <1>2, ShutdownBegins, PTL DEF ShutdownSpec
===============================================================================
