-------------------------- MODULE NacRxRing_proofs --------------------------
(***************************************************************************)
(* Proofs about the receive ring, for every buffer size, safety window,    *)
(* extra window and record length.                                         *)
(*                                                                         *)
(* The properties are not inductive: that the card cannot overrun the      *)
(* reader depends on where the limit was when it last wrapped.  The        *)
(* inductive invariant IInv keeps, in the reader's coordinates, where the  *)
(* limit pointer is: either ahead of record on the lap bottom is on, or    *)
(* one window below a block boundary that bottom has reached, one lap on.  *)
(* With it the ring is shown to implement CaptureFifo: the cell the card   *)
(* writes is the one behind the pending bytes modulo the size, and none of *)
(* theirs (WrittenCell).                                                   *)
(***************************************************************************)
EXTENDS NacRxRing, NumberFacts, Sequences, SequenceTheorems, TLAPS

(* record has not wrapped past bottom and runs towards a limit pointer that
   is ahead of it in the buffer (at its end, except between the wrap of
   bottom and the write of the limit). *)
ThisLap(rec, lim, bot, pen) == rec = bot + pen /\ rec <= lim

(* The limit pointer is one window below a block boundary that bottom has
   reached, on the next lap. *)
NextLap(rec, lim, bot, pen) ==
  /\ 0 < lim /\ lim + Window <= Size
  /\ (lim + Window) % Window = 0
  /\ lim + Window <= bot
  /\ bot + pen = IF lim >= rec THEN rec + Size ELSE rec

LimitInv ==
  pc # "attached" => \/ ThisLap(record, limit, bottom, pending)
                     \/ NextLap(record, limit, bottom, pending)

(* Before the stream is started the card is paused and nothing happened. *)
AttachedInv ==
  pc = "attached" =>
    record = 0 /\ bottom = 0 /\ top = 0 /\ pending = 0 /\ paused

(* The record position o as seen from the aligned bottom b. *)
SeenFrom(o, b) == IF o < b THEN o + Size ELSE o

Inside == {"snapshot", "paused", "limited", "wait"}

(* The record value the reader holds is old, never too new. *)
OffsetInv ==
  pc \in Inside => /\ bottom <= Size
                   /\ SeenFrom(offset, Align(bottom)) <= bottom + pending

WindowInv == pc \in {"idle", "stopped"} => top <= bottom + pending

(* TypeOK in two parts: the numbers, and the flags. *)
Ranges ==
  /\ record \in 0 .. Size /\ limit \in 0 .. Size /\ offset \in 0 .. Size
  /\ bottom \in 0 .. Size + ExtraWindow /\ top \in 0 .. Size + ExtraWindow
  /\ pending \in 0 .. Size
  /\ mem \in [0 .. Size - 1 -> Tags \cup {Blank}] /\ seq \in Tags
  /\ pc \in {"attached", "idle", "stopped"} \cup Inside

Flags ==
  /\ paused \in BOOLEAN /\ maxwait \in BOOLEAN /\ late \in BOOLEAN /\ now \in BOOLEAN
  /\ mindata \in MinDataChoices

IInv == Ranges /\ Flags /\ AttachedInv /\ LimitInv /\ OffsetInv /\ WindowInv

-----------------------------------------------------------------------------
(* What masking the low bits of a pointer does: Align(x) is the greatest
   multiple of Window that is not above x. *)
LEMMA AlignFacts ==
  ASSUME NEW x \in Nat
  PROVE  /\ Align(x) \in Nat
         /\ Align(x) <= x
         /\ Align(x) % Window = 0
         /\ \A y \in Nat : y % Window = 0 /\ y <= x => y <= Align(x)
<1>1. PICK q \in Nat, r \in 0 .. Window - 1 : x = Window * q + r /\ x % Window = r
  BY RingAssumption, SMT
<1>2. Align(x) = Window * q
  BY <1>1, RingAssumption DEF Align
<1>3. Window * q \in Nat
  BY <1>1, RingAssumption
<1>4. (Window * q) % Window = 0
  BY <1>1, RingAssumption
<1>5. ASSUME NEW y \in Nat, y % Window = 0, y <= x
      PROVE  y <= Align(x)
  <2>1. PICK p \in Nat : y = Window * p
    BY <1>5, RingAssumption
  <2>2. p <= q
    BY <2>1, <1>1, <1>5, RingAssumption
  <2> QED
    BY <2>1, <2>2, <1>2, RingAssumption
<1> QED
  BY <1>1, <1>2, <1>3, <1>4, <1>5, RingAssumption

-----------------------------------------------------------------------------
(* The arithmetic of one step each, about any values of the pointers. *)

(* The reader sees record exactly pen bytes ahead of its bottom; if record
   has wrapped it is below the block bottom lies in and held there. *)
LEMMA RecordSeen ==
  ASSUME NEW rec \in 0 .. Size, NEW lim \in 0 .. Size,
         NEW bot \in 0 .. Size, NEW pen \in 0 .. Size,
         ThisLap(rec, lim, bot, pen) \/ NextLap(rec, lim, bot, pen)
  PROVE  /\ SeenFrom(rec, Align(bot)) = bot + pen
         /\ rec = bot + pen \/ (rec + Size = bot + pen /\ rec <= lim /\ 0 < lim
                                /\ lim + Window <= Align(bot))
<1>1. Size \in Nat /\ Window \in Nat \ {0}
  BY RingAssumption
<1>2. /\ Align(bot) \in Nat /\ Align(bot) <= bot
      /\ \A y \in Nat : y % Window = 0 /\ y <= bot => y <= Align(bot)
  BY <1>1, AlignFacts
<1>3. CASE rec = bot + pen
  BY <1>3, <1>1, <1>2 DEF SeenFrom
<1>4. CASE NextLap(rec, lim, bot, pen) /\ rec <= lim
  <2>1. lim + Window <= Align(bot)
    BY <1>1, <1>2, <1>4 DEF NextLap
  <2>2. rec + Size = bot + pen
    BY <1>1, <1>4 DEF NextLap
  <2> QED
    BY <2>1, <2>2, <1>1, <1>2, <1>4 DEF SeenFrom, NextLap
<1> QED
  BY <1>3, <1>4, <1>1 DEF ThisLap, NextLap

(* Taking bottom back into the first mapping. *)
LEMMA AfterNormalise ==
  ASSUME NEW rec \in 0 .. Size, NEW lim \in 0 .. Size,
         NEW bot \in 0 .. Size + ExtraWindow, NEW pen \in 0 .. Size,
         ThisLap(rec, lim, bot, pen) \/ NextLap(rec, lim, bot, pen)
  PROVE  /\ Normalise(bot) \in 0 .. Size
         /\ \/ ThisLap(rec, lim, Normalise(bot), pen)
            \/ NextLap(rec, lim, Normalise(bot), pen)
<1>1. /\ Size \in Nat \ {0} /\ Window \in Nat \ {0} /\ ExtraWindow \in 1 .. Size
  BY RingAssumption
<1>2. Normalise(bot) \in 0 .. Size
  BY <1>1 DEF Normalise
<1>3. CASE bot <= Size
  BY <1>1, <1>2, <1>3 DEF Normalise
<1>4. CASE bot > Size
  <2>1. NextLap(rec, lim, bot, pen)
    BY <1>1, <1>4 DEF ThisLap
  <2> QED
    BY <2>1, <1>1, <1>2, <1>4 DEF Normalise, NextLap, ThisLap
<1> QED
  BY <1>3, <1>4, <1>1

(* Writing the limit pointer. *)
LEMMA AfterWrsafe ==
  ASSUME NEW rec \in 0 .. Size, NEW lim \in 0 .. Size,
         NEW bot \in 0 .. Size, NEW pen \in 0 .. Size,
         ThisLap(rec, lim, bot, pen) \/ NextLap(rec, lim, bot, pen)
  PROVE  /\ Wrsafe(Align(bot)) \in 0 .. Size
         /\ \/ ThisLap(rec, Wrsafe(Align(bot)), bot, pen)
            \/ NextLap(rec, Wrsafe(Align(bot)), bot, pen)
<1> DEFINE A == Align(bot)
<1>1. Size \in Nat \ {0} /\ Window \in Nat \ {0}
  BY RingAssumption
<1>2. A \in Nat /\ A <= bot /\ A % Window = 0
  BY <1>1, AlignFacts
<1>3. \/ rec = bot + pen
      \/ rec + Size = bot + pen /\ rec <= lim /\ 0 < lim /\ lim + Window <= A
  BY RecordSeen
<1> HIDE DEF A
<1>4. CASE A <= Window
  <2>1. Wrsafe(A) = Size
    BY <1>1, <1>2, <1>4 DEF Wrsafe
  <2> QED
    BY <2>1, <1>1, <1>2, <1>3, <1>4 DEF ThisLap, A
<1>5. CASE A > Window
  <2>1. Wrsafe(A) = A - Window /\ A - Window + Window = A
    BY <1>1, <1>2, <1>5 DEF Wrsafe
  <2>2. NextLap(rec, Wrsafe(A), bot, pen)
    BY <2>1, <1>1, <1>2, <1>3, <1>5 DEF NextLap
  <2> QED
    BY <2>1, <2>2, <1>1, <1>2, <1>5 DEF A
<1> QED
  BY <1>4, <1>5, <1>1, <1>2

(* The card stores one byte. *)
LEMMA AfterCardWrite ==
  ASSUME NEW rec \in 0 .. Size, NEW lim \in 0 .. Size,
         NEW bot \in 0 .. Size + ExtraWindow, NEW pen \in 0 .. Size,
         ThisLap(rec, lim, bot, pen) \/ NextLap(rec, lim, bot, pen),
         rec # lim, rec < Size
  PROVE  /\ pen + 1 <= Size
         /\ ThisLap(rec + 1, lim, bot, pen + 1) \/ NextLap(rec + 1, lim, bot, pen + 1)
<1>1. Size \in Nat \ {0} /\ Window \in Nat \ {0} /\ ExtraWindow \in Nat
  BY RingAssumption
<1>2. CASE ThisLap(rec, lim, bot, pen)
  BY <1>1, <1>2 DEF ThisLap
<1>3. CASE NextLap(rec, lim, bot, pen)
  <2>1. pen + 1 <= Size
    BY <1>1, <1>3 DEF NextLap
  <2>2. bot + (pen + 1) = IF lim >= rec + 1 THEN (rec + 1) + Size ELSE rec + 1
    BY <1>1, <1>3 DEF NextLap
  <2> QED
    BY <2>1, <2>2, <1>3 DEF NextLap
<1> QED
  BY <1>2, <1>3

(* The card goes on at the start of the buffer. *)
LEMMA AfterCardWrap ==
  ASSUME NEW lim \in 0 .. Size, lim # Size,
         NEW bot \in 0 .. Size + ExtraWindow, NEW pen \in 0 .. Size,
         ThisLap(Size, lim, bot, pen) \/ NextLap(Size, lim, bot, pen)
  PROVE  NextLap(0, lim, bot, pen)
<1>1. Size \in Nat \ {0} /\ Window \in Nat \ {0} /\ ExtraWindow \in Nat
  BY RingAssumption
<1>2. NextLap(Size, lim, bot, pen)
  BY <1>1 DEF ThisLap
<1> QED
  BY <1>1, <1>2 DEF NextLap

(* The reader consumes n bytes. *)
LEMMA AfterConsume ==
  ASSUME NEW rec \in 0 .. Size, NEW lim \in 0 .. Size,
         NEW bot \in 0 .. Size + ExtraWindow, NEW pen \in 0 .. Size,
         ThisLap(rec, lim, bot, pen) \/ NextLap(rec, lim, bot, pen),
         NEW n \in 1 .. pen
  PROVE  \/ ThisLap(rec, lim, bot + n, pen - n)
         \/ NextLap(rec, lim, bot + n, pen - n)
<1>1. Size \in Nat \ {0} /\ Window \in Nat \ {0} /\ ExtraWindow \in Nat
  BY RingAssumption
<1>2. (bot + n) + (pen - n) = bot + pen /\ bot + n >= bot
  BY <1>1
<1> QED
  BY <1>1, <1>2 DEF ThisLap, NextLap
-----------------------------------------------------------------------------
(* TypeOK is the conjunction of its numeric and Boolean parts. *)
LEMMA TypeSplit == TypeOK <=> Ranges /\ Flags
BY DEF TypeOK, Ranges, Flags, Inside

(* The stream starts with nothing captured and the card paused. *)
LEMMA InitIInv == Init => IInv
<1> SUFFICES ASSUME Init PROVE IInv
  OBVIOUS
<1>1. Ranges
  <2>1. mem \in [0 .. Size - 1 -> Tags \cup {Blank}]
    BY DEF Init
  <2>2. 0 \in Tags
    BY CallerAssumption DEF Tags
  <2> QED
    BY <2>1, <2>2, RingAssumption DEF Init, Ranges
<1>2. Flags
  BY CallerAssumption, Zenon DEF Init, Flags
<1>3. AttachedInv
  BY Zenon DEF Init, AttachedInv
<1>4. LimitInv /\ OffsetInv /\ WindowInv
  BY DEF Init, LimitInv, OffsetInv, WindowInv, Inside
<1> QED
  BY <1>1, <1>2, <1>3, <1>4 DEF IInv

(* The flags stay Boolean. *)
LEMMA NextFlags == Flags /\ [Next]_vars => Flags'
<1> SUFFICES ASSUME Flags, [Next]_vars PROVE Flags'
  OBVIOUS
<1> USE DEF Flags, clockVars, pollVars
<1>1. CASE StartStream \/ StopStream \/ PauseDma \/ WriteLimit \/ ResumeDma
  BY <1>1, Zenon DEF StartStream, StopStream, PauseDma, WriteLimit, ResumeDma
<1>2. CASE AdvanceBegin \/ Poll \/ AdvanceReturn \/ TimePasses \/ CardWrite \/ CardWrap
  BY <1>2, Zenon DEF AdvanceBegin, Poll, AdvanceReturn, TimePasses, CardWrite, CardWrap
<1>3. CASE \E n \in 1 .. MaxRecord : Consume(n)
  BY <1>3, Zenon DEF Consume
<1>4. CASE \E m \in MinDataChoices, w \in BOOLEAN : SetStreamPoll(m, w)
  BY <1>4, Zenon DEF SetStreamPoll
<1>5. CASE UNCHANGED vars
  BY <1>5, Zenon DEF vars
<1> QED
  BY <1>1, <1>2, <1>3, <1>4, <1>5, Zenon DEF Next

(* Before StartStream no other action changes what AttachedInv fixes. *)
LEMMA NextAttached == AttachedInv /\ [Next]_vars => AttachedInv'
<1> SUFFICES ASSUME AttachedInv, [Next]_vars, pc' = "attached"
             PROVE  (record = 0 /\ bottom = 0 /\ top = 0 /\ pending = 0 /\ paused)'
  BY DEF AttachedInv
<1>1. ~(StartStream \/ StopStream \/ AdvanceBegin \/ PauseDma \/ WriteLimit
          \/ ResumeDma)
  BY Zenon DEF StartStream, StopStream, AdvanceBegin, PauseDma, WriteLimit, ResumeDma
<1>2. ~(Poll \/ AdvanceReturn \/ \E n \in 1 .. MaxRecord : Consume(n))
  BY Zenon DEF Poll, AdvanceReturn, Consume
<1>3. ~TimePasses
  BY DEF TimePasses
<1>4. CASE CardWrite \/ CardWrap
  BY <1>4, Zenon DEF CardWrite, CardWrap, AttachedInv
<1>5. CASE \E m \in MinDataChoices, w \in BOOLEAN : SetStreamPoll(m, w)
  <2>1. UNCHANGED <<record, bottom, top, pending, paused>> /\ pc = "attached"
    BY <1>5, Zenon DEF SetStreamPoll, cardVars
  <2> QED
    BY <2>1, Zenon DEF AttachedInv
<1>6. CASE UNCHANGED vars
  BY <1>6, Zenon DEF vars, AttachedInv
<1> QED
  BY <1>1, <1>2, <1>3, <1>4, <1>5, <1>6, Zenon DEF Next

(* Every step of the thread, the clock and the card preserves the invariant. *)
LEMMA NextIInv == IInv /\ [Next]_vars => IInv'
<1> SUFFICES ASSUME IInv, [Next]_vars
             PROVE  (Ranges /\ LimitInv /\ OffsetInv /\ WindowInv)'
  BY NextFlags, NextAttached DEF IInv
<1> USE RingAssumption
<1>t. /\ record \in 0 .. Size /\ limit \in 0 .. Size /\ offset \in 0 .. Size
      /\ bottom \in 0 .. Size + ExtraWindow /\ top \in 0 .. Size + ExtraWindow
      /\ pending \in 0 .. Size
  BY DEF IInv, Ranges
<1>r. Ranges /\ LimitInv /\ OffsetInv /\ WindowInv
  BY DEF IInv
<1>1. CASE StartStream
  <2>1. /\ UNCHANGED <<record, mem, seq, bottom, top, offset, pending>>
        /\ limit' = Size /\ pc = "attached" /\ pc' = "idle"
    BY <1>1 DEF StartStream, cardVars
  <2>2. record = 0 /\ bottom = 0 /\ top = 0 /\ pending = 0
    BY <2>1 DEF IInv, AttachedInv
  <2> QED
    BY <1>r, <2>1, <2>2
       DEF Ranges, LimitInv, ThisLap, OffsetInv, WindowInv, Inside
<1>2. CASE StopStream
  <2>1. /\ UNCHANGED <<record, mem, seq, limit, bottom, top, offset, pending>>
        /\ pc = "idle" /\ pc' = "stopped"
    BY <1>2 DEF StopStream, cardVars
  <2> QED
    BY <1>r, <2>1 DEF Ranges, LimitInv, OffsetInv, WindowInv, Inside
<1>3. CASE AdvanceBegin
  <2>1. /\ UNCHANGED <<record, mem, seq, limit, top, pending>>
        /\ bottom' = Normalise(bottom) /\ offset' = record
        /\ pc = "idle" /\ pc' = "snapshot"
    BY <1>3 DEF AdvanceBegin, cardVars
  <2>2. \/ ThisLap(record, limit, bottom, pending)
        \/ NextLap(record, limit, bottom, pending)
    BY <1>r, <2>1 DEF LimitInv
  <2>3. /\ bottom' \in 0 .. Size
        /\ \/ ThisLap(record, limit, bottom', pending)
           \/ NextLap(record, limit, bottom', pending)
    BY <1>t, <2>1, <2>2, AfterNormalise
  <2>4. SeenFrom(record, Align(bottom')) = bottom' + pending
    BY <1>t, <2>3, RecordSeen
  <2>5. Ranges'
    BY <1>r, <2>1, <2>3 DEF Ranges, Inside
  <2>6. OffsetInv'
    BY <1>t, <2>1, <2>3, <2>4 DEF OffsetInv
  <2> QED
    BY <2>1, <2>3, <2>5, <2>6 DEF LimitInv, WindowInv
<1>4. CASE PauseDma \/ ResumeDma
  <2>1. /\ UNCHANGED <<record, mem, seq, limit, bottom, top, offset, pending>>
        /\ pc \in Inside /\ pc' \in {"paused", "wait"}
    BY <1>4 DEF PauseDma, ResumeDma, cardVars, Inside
  <2> QED
    BY <1>r, <2>1 DEF Ranges, LimitInv, OffsetInv, WindowInv, Inside
<1>5. CASE WriteLimit
  <2>1. /\ UNCHANGED <<record, mem, seq, bottom, top, offset, pending>>
        /\ limit' = Wrsafe(Align(bottom)) /\ pc = "paused" /\ pc' = "limited"
    BY <1>5 DEF WriteLimit, cardVars
  <2>2. /\ bottom \in 0 .. Size
        /\ \/ ThisLap(record, limit, bottom, pending)
           \/ NextLap(record, limit, bottom, pending)
    BY <1>t, <1>r, <2>1 DEF LimitInv, OffsetInv, Inside
  <2>3. /\ limit' \in 0 .. Size
        /\ \/ ThisLap(record, limit', bottom, pending)
           \/ NextLap(record, limit', bottom, pending)
    BY <1>t, <2>1, <2>2, AfterWrsafe
  <2> QED
    BY <1>r, <2>1, <2>3 DEF Ranges, LimitInv, OffsetInv, WindowInv, Inside
<1>6. CASE Poll
  <2>1. /\ UNCHANGED <<record, mem, seq, limit, bottom, top, pending, pc>>
        /\ offset' = record /\ pc = "wait"
    BY <1>6 DEF Poll, cardVars
  <2>2. /\ bottom \in 0 .. Size
        /\ \/ ThisLap(record, limit, bottom, pending)
           \/ NextLap(record, limit, bottom, pending)
    BY <1>t, <1>r, <2>1 DEF LimitInv, OffsetInv, Inside
  <2>3. SeenFrom(record, Align(bottom)) = bottom + pending
    BY <1>t, <2>2, RecordSeen
  <2>4. OffsetInv'
    BY <1>t, <2>1, <2>2, <2>3 DEF OffsetInv
  <2> QED
    BY <1>r, <2>1, <2>4 DEF Ranges, LimitInv, WindowInv
<1>7. CASE AdvanceReturn
  <2>1. /\ UNCHANGED <<record, mem, seq, limit, bottom, offset, pending>>
        /\ top' = TopOf(offset, Align(bottom)) /\ pc = "wait" /\ pc' = "idle"
    BY <1>7 DEF AdvanceReturn, cardVars
  <2>2. /\ bottom \in 0 .. Size
        /\ SeenFrom(offset, Align(bottom)) <= bottom + pending
    BY <1>t, <1>r, <2>1 DEF OffsetInv, Inside
  <2>3. Align(bottom) \in 0 .. Size
    BY <2>2, AlignFacts
  <2>4. top' \in 0 .. Size + ExtraWindow /\ top' <= bottom + pending
    BY <1>t, <2>1, <2>2, <2>3 DEF TopOf, SeenFrom
  <2> QED
    BY <1>r, <2>1, <2>4 DEF Ranges, LimitInv, OffsetInv, WindowInv, Inside
<1>8. ASSUME NEW n \in 1 .. MaxRecord, Consume(n)
      PROVE  (Ranges /\ LimitInv /\ OffsetInv /\ WindowInv)'
  <2>1. /\ UNCHANGED <<record, mem, seq, limit, top, offset, pc>>
        /\ bottom' = bottom + n /\ pending' = pending - n /\ bottom + n <= top
        /\ pc = "idle"
    BY <1>8 DEF Consume, cardVars
  <2>2. n \in Nat /\ n >= 1
    BY CallerAssumption
  <2>3. n \in 1 .. pending /\ bottom' + pending' = bottom + pending
    BY <1>t, <1>r, <2>1, <2>2 DEF WindowInv
  <2>4. \/ ThisLap(record, limit, bottom', pending')
        \/ NextLap(record, limit, bottom', pending')
    BY <1>t, <1>r, <2>1, <2>3, AfterConsume DEF LimitInv
  <2>5. Ranges'
    BY <1>r, <1>t, <2>1, <2>2, <2>3 DEF Ranges
  <2> QED
    BY <1>r, <2>1, <2>3, <2>4, <2>5 DEF LimitInv, OffsetInv, WindowInv, Inside
<1>9. CASE TimePasses
  <2>1. UNCHANGED <<record, mem, seq, limit, bottom, top, offset, pending, pc>>
    BY <1>9 DEF TimePasses, cardVars
  <2> QED
    BY <1>r, <2>1 DEF Ranges, LimitInv, OffsetInv, WindowInv
<1>10. CASE CardWrite
  <2>1. /\ UNCHANGED <<limit, bottom, top, offset, pc>>
        /\ record # limit /\ record < Size /\ record' = record + 1
        /\ pending' = pending + 1
        /\ mem' = [mem EXCEPT ![record] = seq] /\ seq' = (seq + 1) % TagCount
    BY <1>10 DEF CardWrite
  <2>2. pc # "attached"
    BY <1>10, Zenon DEF CardWrite, IInv, AttachedInv
  <2>3. /\ pending' <= Size
        /\ \/ ThisLap(record', limit, bottom, pending')
           \/ NextLap(record', limit, bottom, pending')
    BY <1>t, <1>r, <2>1, <2>2, AfterCardWrite DEF LimitInv
  <2>4. seq' \in Tags
    BY <1>r, <2>1, CallerAssumption DEF Ranges, Tags
  <2>5. mem' \in [0 .. Size - 1 -> Tags \cup {Blank}]
    BY <1>r, <2>1 DEF Ranges
  <2>6. Ranges'
    BY <1>r, <1>t, <2>1, <2>3, <2>4, <2>5 DEF Ranges
  <2>7. SeenFrom(offset, Align(bottom)) \in Int
    BY <1>t, AlignFacts DEF SeenFrom
  <2>8. OffsetInv'
    BY <1>r, <1>t, <2>1, <2>7 DEF OffsetInv
  <2>9. LimitInv' /\ WindowInv'
    BY <1>r, <1>t, <2>1, <2>2, <2>3 DEF LimitInv, WindowInv
  <2> QED
    BY <2>6, <2>8, <2>9
<1>11. CASE CardWrap
  <2>1. /\ UNCHANGED <<limit, bottom, top, offset, pc, pending, mem, seq>>
        /\ record # limit /\ record = Size /\ record' = 0
    BY <1>11 DEF CardWrap
  <2>2. pc # "attached"
    BY <1>11, Zenon DEF CardWrap, IInv, AttachedInv
  <2>3. NextLap(record', limit, bottom, pending)
    BY <1>t, <1>r, <2>1, <2>2, AfterCardWrap DEF LimitInv
  <2> QED
    BY <1>r, <2>1, <2>2, <2>3 DEF Ranges, LimitInv, OffsetInv, WindowInv
<1>12. ASSUME NEW m \in MinDataChoices, NEW w \in BOOLEAN, SetStreamPoll(m, w)
       PROVE  (Ranges /\ LimitInv /\ OffsetInv /\ WindowInv)'
  <2>1. UNCHANGED <<record, mem, seq, limit, bottom, top, offset, pending, pc>>
    BY <1>12 DEF SetStreamPoll, cardVars
  <2> QED
    BY <1>r, <2>1 DEF Ranges, LimitInv, OffsetInv, WindowInv
<1>13. CASE UNCHANGED vars
  <2>1. UNCHANGED <<record, mem, seq, limit, bottom, top, offset, pending, pc>>
    BY <1>13 DEF vars
  <2> QED
    BY <1>r, <2>1 DEF Ranges, LimitInv, OffsetInv, WindowInv
<1> QED
  BY <1>1, <1>2, <1>3, <1>4, <1>5, <1>6, <1>7, <1>8, <1>9, <1>10,
     <1>11, <1>12, <1>13 DEF Next

(* What the runs check follows from the invariant. *)
LEMMA IInvImplies == IInv => TypeOK /\ NoOverrun /\ LentIsCaptured
<1> SUFFICES ASSUME IInv PROVE TypeOK /\ NoOverrun /\ LentIsCaptured
  OBVIOUS
<1>1. TypeOK
  BY TypeSplit DEF IInv
<1>2. Ranges /\ LimitInv /\ WindowInv
  BY DEF IInv
<1>3. NoOverrun
  BY <1>2, RingAssumption DEF Ranges, LimitInv, ThisLap, NextLap, NoOverrun, Room
<1>4. LentIsCaptured
  BY <1>2 DEF WindowInv, LentIsCaptured
<1> QED
  BY <1>1, <1>3, <1>4

-----------------------------------------------------------------------------
(* IInv is an invariant of the stream. *)
THEOREM Invariance == Spec => []IInv
BY InitIInv, NextIInv, PTL DEF Spec

(* The registers and the application's pointers stay inside the buffer and
   its double mapping (nac_advance_stream, nac_attach_stream). *)
THEOREM TypeCorrect == Spec => []TypeOK
BY Invariance, IInvImplies, PTL

(* For every ring, window and interleaving, the limit pointer written by
   nac_advance_stream keeps the card off the bytes not yet consumed. *)
THEOREM NeverOverrun == Spec => []NoOverrun
BY Invariance, IInvImplies, PTL

(* The pointer nac_advance_stream returns is never past what the card has
   captured. *)
THEOREM OnlyCapturedLent == Spec => []LentIsCaptured
BY Invariance, IInvImplies, PTL

(* nac_advance_stream never takes back room the card has been given, so the
   limit register can be rewritten under a card that is about to use it. *)
THEOREM LimitNeverRetreats == Spec => LimitOnlyAdvances
<1>1. IInv /\ [Next]_vars => [WriteLimit => Room' >= Room]_vars
  <2> SUFFICES ASSUME IInv, [Next]_vars, WriteLimit PROVE Room' >= Room
    OBVIOUS
  <2>1. /\ UNCHANGED <<record, bottom, pending>>
        /\ limit' = Wrsafe(Align(bottom)) /\ pc = "paused" /\ pc' = "limited"
    BY DEF WriteLimit, cardVars
  <2>2. /\ record \in 0 .. Size /\ limit \in 0 .. Size /\ bottom \in 0 .. Size
        /\ pending \in 0 .. Size /\ Size \in Nat \ {0} /\ Window \in Nat \ {0}
    BY <2>1, RingAssumption DEF IInv, Ranges, OffsetInv, Inside
  <2>3. /\ Align(bottom) \in Nat /\ Align(bottom) <= bottom
        /\ \A y \in Nat : y % Window = 0 /\ y <= bottom => y <= Align(bottom)
    BY <2>2, AlignFacts
  <2>4. limit' = IF Align(bottom) <= Window THEN Size ELSE Align(bottom) - Window
    BY <2>1, <2>2, <2>3 DEF Wrsafe
  <2>5. CASE ThisLap(record, limit, bottom, pending)
    BY <2>1, <2>2, <2>3, <2>4, <2>5 DEF ThisLap, Room
  <2>6. CASE NextLap(record, limit, bottom, pending)
    <3>1. limit + Window <= Align(bottom)
      BY <2>2, <2>3, <2>6 DEF NextLap
    <3>2. limit' = Align(bottom) - Window /\ limit' >= limit
      BY <2>2, <2>3, <2>4, <2>6, <3>1 DEF NextLap
    <3>3. record <= limit \/ record > limit'
      BY <2>2, <2>3, <2>6, <3>1, <3>2 DEF NextLap
    <3> QED
      BY <2>1, <2>2, <2>3, <3>2, <3>3 DEF Room
  <2> QED
    BY <2>1, <2>5, <2>6 DEF IInv, LimitInv
<1> QED
  BY <1>1, Invariance, PTL DEF Spec, LimitOnlyAdvances

-----------------------------------------------------------------------------
(* The refinement of CaptureFifo. *)

(* The cell of the buffer that byte i of the view from b on lies in, through
   either mapping. *)
Cell(b, i) == (b + i) % Size

(* The view reaches into the third turn at most. *)
LEMMA CellValue ==
  ASSUME NEW b \in 0 .. Size + ExtraWindow, NEW i \in 0 .. Size - 1
  PROVE  Cell(b, i) = IF b + i < Size THEN b + i
                      ELSE IF b + i < 2 * Size THEN b + i - Size
                      ELSE b + i - 2 * Size
<1> DEFINE x == b + i
<1>1. x \in Nat /\ x < 3 * Size /\ Size \in Nat \ {0} /\ 2 * Size \in Nat
  BY RingAssumption
<1>2. Cell(b, i) = x % Size
  BY DEF Cell
<1> HIDE DEF x
<1>3. CASE x < 2 * Size
  <2>1. x % Size = IF x < Size THEN x ELSE x - Size
    BY <1>1, <1>3, SmallMod
  <2> QED
    BY <1>1, <1>2, <1>3, <2>1 DEF x
<1>4. CASE x >= 2 * Size
  <2>1. x = Size * 2 + (x - 2 * Size) /\ x - 2 * Size \in 0 .. Size - 1
    BY <1>1, <1>4
  <2>2. x % Size = x - 2 * Size
    BY <1>1, <2>1, Remainder
  <2> QED
    BY <1>1, <1>2, <1>4, <2>2 DEF x
<1> QED
  BY <1>1, <1>3, <1>4

(* It is a cell of the buffer. *)
LEMMA CellIn ==
  ASSUME NEW b \in 0 .. Size + ExtraWindow, NEW i \in 0 .. Size - 1
  PROVE  Cell(b, i) \in 0 .. Size - 1
BY CellValue, RingAssumption

(* Taking bottom back into the first mapping changes no byte of the view. *)
LEMMA NormaliseCells ==
  ASSUME NEW b \in 0 .. Size + ExtraWindow, NEW i \in 0 .. Size - 1
  PROVE  Cell(Normalise(b), i) = Cell(b, i)
<1> DEFINE a == Normalise(b)
<1>1. a = (IF b > Size THEN b - Size ELSE b) /\ a \in 0 .. Size + ExtraWindow
  BY RingAssumption DEF Normalise
<1> HIDE DEF a
<1>2. Cell(a, i) = IF a + i < Size THEN a + i
                   ELSE IF a + i < 2 * Size THEN a + i - Size ELSE a + i - 2 * Size
  BY <1>1, CellValue
<1>3. Cell(b, i) = IF b + i < Size THEN b + i
                   ELSE IF b + i < 2 * Size THEN b + i - Size ELSE b + i - 2 * Size
  BY CellValue
<1>4. Cell(a, i) = Cell(b, i)
  BY <1>1, <1>2, <1>3, RingAssumption
<1> QED
  BY <1>4 DEF a

(* The card writes behind the last pending byte, in a cell that holds none of
   those pending. *)
LEMMA WrittenCell ==
  ASSUME NEW rec \in 0 .. Size - 1, NEW lim \in 0 .. Size, rec # lim,
         NEW bot \in 0 .. Size + ExtraWindow, NEW pen \in 0 .. Size - 1,
         ThisLap(rec, lim, bot, pen) \/ NextLap(rec, lim, bot, pen)
  PROVE  /\ Cell(bot, pen) = rec
         /\ \A i \in 0 .. pen - 1 : Cell(bot, i) # rec
<1>1. Size \in Nat \ {0} /\ ExtraWindow \in 1 .. Size
  BY RingAssumption
<1>2. bot + pen = rec \/ bot + pen = rec + Size
  BY <1>1 DEF ThisLap, NextLap
<1>3. Cell(bot, pen) = IF bot + pen < Size THEN bot + pen
                       ELSE IF bot + pen < 2 * Size THEN bot + pen - Size
                       ELSE bot + pen - 2 * Size
  BY CellValue
<1>4. ASSUME NEW i \in 0 .. pen - 1 PROVE Cell(bot, i) # rec
  <2>1. i \in 0 .. Size - 1
    BY <1>1
  <2>2. Cell(bot, i) = IF bot + i < Size THEN bot + i
                       ELSE IF bot + i < 2 * Size THEN bot + i - Size
                       ELSE bot + i - 2 * Size
    BY <2>1, CellValue
  <2> QED
    BY <1>1, <1>2, <2>2
<1> QED
  BY <1>1, <1>2, <1>3, <1>4

(* The queue of the refinement mapping, for any bottom pointer, number of
   pending bytes and contents of the buffer. *)
Queue(b, p, m) == [i \in 1 .. p |-> m[Cell(b, i - 1)]]

(* It is a sequence of as many bytes as are pending. *)
LEMMA QueueSeq ==
  ASSUME NEW b \in 0 .. Size + ExtraWindow, NEW p \in 0 .. Size,
         NEW m \in [0 .. Size - 1 -> Tags \cup {Blank}]
  PROVE  /\ Queue(b, p, m) \in Seq(Tags \cup {Blank})
         /\ Len(Queue(b, p, m)) = p
         /\ \A i \in 1 .. p : Queue(b, p, m)[i] = m[Cell(b, i - 1)]
<1> USE RingAssumption
<1>1. ASSUME NEW i \in 1 .. p PROVE m[Cell(b, i - 1)] \in Tags \cup {Blank}
  <2>1. i - 1 \in 0 .. Size - 1
    OBVIOUS
  <2>2. Cell(b, i - 1) \in 0 .. Size - 1
    BY <2>1, CellValue, SMTT(40)
  <2> QED
    BY <2>2
<1>2. Queue(b, p, m) \in [1 .. p -> Tags \cup {Blank}]
  BY <1>1 DEF Queue
<1>3. p \in Nat
  OBVIOUS
<1>4. Queue(b, p, m) \in Seq(Tags \cup {Blank}) /\ Len(Queue(b, p, m)) = p
  BY <1>2, <1>3
<1> QED
  BY <1>4 DEF Queue

(* A captured byte joins the queue at its end. *)
LEMMA QueueCapture ==
  ASSUME NEW b \in 0 .. Size + ExtraWindow, NEW p \in 0 .. Size - 1,
         NEW m \in [0 .. Size - 1 -> Tags \cup {Blank}],
         NEW w \in [0 .. Size - 1 -> Tags \cup {Blank}], NEW s \in Tags,
         w[Cell(b, p)] = s, \A i \in 0 .. p - 1 : w[Cell(b, i)] = m[Cell(b, i)]
  PROVE  Queue(b, p + 1, w) = Append(Queue(b, p, m), s)
<1> DEFINE S == Tags \cup {Blank}
           c == p + 1
           old == Queue(b, p, m)
           new == Queue(b, c, w)
<1>1. c \in 0 .. Size /\ p \in 0 .. Size /\ s \in S
  BY RingAssumption
<1>2. /\ old \in Seq(S) /\ Len(old) = p
      /\ \A i \in 1 .. p : old[i] = m[Cell(b, i - 1)]
  BY <1>1, QueueSeq
<1> HIDE DEF c
<1>3. /\ new \in Seq(S) /\ Len(new) = c
      /\ \A i \in 1 .. c : new[i] = w[Cell(b, i - 1)]
  BY <1>1, QueueSeq
<1> HIDE DEF old, new, S
<1>4. /\ Append(old, s) \in Seq(S) /\ Len(Append(old, s)) = p + 1
      /\ \A i \in 1 .. p : Append(old, s)[i] = old[i]
      /\ Append(old, s)[p + 1] = s
  BY <1>1, <1>2, AppendProperties
<1>6. ASSUME NEW i \in 1 .. c PROVE new[i] = Append(old, s)[i]
  <2>1. CASE i = c
    <3>1. i - 1 = p
      BY <2>1 DEF c
    <3>2. new[i] = s
      BY <1>3, <3>1
    <3> QED
      BY <1>4, <2>1, <3>2 DEF c
  <2>2. CASE i # c
    <3>1. i \in 1 .. p /\ i - 1 \in 0 .. p - 1
      BY <2>2 DEF c
    <3>2. w[Cell(b, i - 1)] = m[Cell(b, i - 1)]
      BY <3>1
    <3> QED
      BY <1>2, <1>3, <1>4, <3>1, <3>2
  <2> QED
    BY <2>1, <2>2
<1>7. new = Append(old, s)
  <2>1. Len(Append(old, s)) = c
    BY <1>4 DEF c
  <2> QED
    BY <1>3, <1>4, <1>6, <2>1, SeqEqual
<1> QED
  BY <1>7 DEF old, new, c

(* Consuming n bytes takes them off the head of the queue. *)
LEMMA QueueConsume ==
  ASSUME NEW b \in 0 .. Size + ExtraWindow, NEW p \in 0 .. Size,
         NEW m \in [0 .. Size - 1 -> Tags \cup {Blank}],
         NEW n \in 1 .. p, b + n \in 0 .. Size + ExtraWindow
  PROVE  Queue(b + n, p - n, m) = SubSeq(Queue(b, p, m), n + 1, p)
<1> DEFINE S == Tags \cup {Blank}
           a == b + n
           r == p - n
           old == Queue(b, p, m)
           new == Queue(a, r, m)
           rest == SubSeq(old, n + 1, p)
<1>1. a \in 0 .. Size + ExtraWindow /\ r \in 0 .. Size
  BY RingAssumption
<1>2. /\ old \in Seq(S) /\ Len(old) = p
      /\ \A i \in 1 .. p : old[i] = m[Cell(b, i - 1)]
  BY QueueSeq
<1>6. ASSUME NEW i \in 1 .. r PROVE Cell(a, i - 1) = Cell(b, n + i - 1)
  <2>1. i - 1 \in 0 .. Size - 1 /\ n + i - 1 \in 0 .. Size - 1
    BY RingAssumption
  <2>2. a + (i - 1) = b + (n + i - 1)
    OBVIOUS
  <2> QED
    BY <2>1, <2>2, Zenon DEF Cell
<1> HIDE DEF a, r
<1>3. /\ new \in Seq(S) /\ Len(new) = r
      /\ \A i \in 1 .. r : new[i] = m[Cell(a, i - 1)]
  BY <1>1, QueueSeq
<1> HIDE DEF old, new, S, rest
<1>4. /\ rest \in Seq(S) /\ Len(rest) = r
      /\ \A i \in 1 .. r : rest[i] = old[n + i]
  <2>1. n + 1 \in Int /\ p \in Int /\ \A i \in n + 1 .. p : old[i] \in S
    BY <1>2, ElementOfSeq
  <2>2. /\ rest \in Seq(S)
        /\ Len(rest) = IF n + 1 <= p THEN p - (n + 1) + 1 ELSE 0
        /\ \A i \in 1 .. p - (n + 1) + 1 : rest[i] = old[(n + 1) + i - 1]
    BY <2>1, SubSeqProperties DEF rest
  <2>3. Len(rest) = r
    BY <2>2 DEF r
  <2>4. ASSUME NEW i \in 1 .. r PROVE rest[i] = old[n + i]
    <3>1. i \in 1 .. p - (n + 1) + 1 /\ (n + 1) + i - 1 = n + i
      BY DEF r
    <3> QED
      BY <2>2, <3>1
  <2> QED
    BY <2>2, <2>3, <2>4
<1>5. ASSUME NEW i \in 1 .. r PROVE new[i] = rest[i]
  <2>1. n + i \in 1 .. p
    BY DEF r
  <2>2. old[n + i] = m[Cell(b, n + i - 1)]
    BY <1>2, <2>1
  <2> QED
    BY <1>3, <1>4, <1>6, <2>2
<1>7. new = rest
  BY <1>3, <1>4, <1>5, SeqEqual
<1> QED
  BY <1>7 DEF new, rest, old, a, r

-----------------------------------------------------------------------------
(* What a step does to the FIFO: a captured byte is added, consumed bytes are
   taken off, and everything else leaves the view from bottom on as it is. *)
CaptureStep ==
  /\ pc # "attached" /\ record < Size /\ record # limit /\ pending < Size
  /\ mem' = [mem EXCEPT ![record] = seq] /\ pending' = pending + 1
  /\ UNCHANGED <<bottom, top, pc>>

ConsumeStep(n) ==
  /\ pc = "idle" /\ n \in 1 .. pending /\ bottom + n <= top
  /\ bottom' = bottom + n /\ pending' = pending - n
  /\ UNCHANGED <<mem, top, pc>>

QuietStep ==
  /\ bottom' \in {bottom, Normalise(bottom)}
  /\ UNCHANGED <<mem, pending>>

(* Every step is one of these. *)
LEMMA StepKinds ==
  ASSUME IInv, IInv', [Next]_vars
  PROVE  CaptureStep \/ (\E n \in 1 .. Size : ConsumeStep(n)) \/ QuietStep
<1> USE DEF cardVars
<1>0. /\ pending \in 0 .. Size /\ pending' \in 0 .. Size /\ Size \in Nat
      /\ bottom \in 0 .. Size + ExtraWindow /\ ExtraWindow \in Nat /\ top \in Int
      /\ WindowInv
  BY RingAssumption DEF IInv, Ranges
<1>1. CASE CardWrite
  <2>1. pc # "attached"
    BY <1>1, Zenon DEF CardWrite, IInv, AttachedInv
  <2> QED
    BY <1>0, <1>1, <2>1 DEF CardWrite, CaptureStep
<1>2. ASSUME NEW n \in 1 .. MaxRecord, Consume(n)
      PROVE  ConsumeStep(n) /\ n \in 1 .. Size
  <2>1. n \in Int /\ n >= 1
    BY CallerAssumption
  <2> QED
    BY <1>0, <1>2, <2>1 DEF Consume, ConsumeStep, WindowInv
<1>3. CASE \/ \E m \in MinDataChoices, w \in BOOLEAN : SetStreamPoll(m, w)
           \/ StartStream \/ StopStream \/ AdvanceBegin \/ PauseDma \/ WriteLimit
           \/ ResumeDma \/ Poll \/ AdvanceReturn \/ TimePasses \/ CardWrap
           \/ UNCHANGED vars
  <2>1. UNCHANGED <<mem, pending>> /\ (bottom' = bottom \/ bottom' = Normalise(bottom))
    BY <1>3, Zenon DEF SetStreamPoll, StartStream, StopStream, AdvanceBegin, PauseDma,
       WriteLimit, ResumeDma, Poll, AdvanceReturn, TimePasses, CardWrap, vars
  <2> QED
    BY <2>1 DEF QuietStep
<1> QED
  BY <1>1, <1>2, <1>3 DEF Next

(* The loan of the refinement mapping. *)
Loan(p, t, b) == IF p = "idle" /\ t > b THEN t - b ELSE 0

(* It is no more than is pending, if top is not past that. *)
LEMMA LoanIn ==
  ASSUME NEW p, NEW t \in Int, NEW b \in Int, NEW n \in Nat, p = "idle" => t <= b + n
  PROVE  Loan(p, t, b) \in 0 .. n
BY DEF Loan

(* A step of the ring captures, releases, or changes the loan only. *)
LEMMA FifoStep ==
  ASSUME IInv, IInv', [Next]_vars,
         NEW q, q = Queue(bottom, pending, mem),
         NEW r, r = Queue(bottom', pending', mem'),
         NEW l, l = Loan(pc, top, bottom),
         NEW k, k = Loan(pc', top', bottom')
  PROVE  \/ /\ Len(q) < Size /\ k = l
            /\ \E d \in Tags \cup {Blank} : r = Append(q, d)
         \/ k \in 0 .. Len(q) /\ r = q
         \/ \E n \in 1 .. Size : /\ n <= l /\ k = l - n
                                /\ r = SubSeq(q, n + 1, Len(q))
<1>0. /\ record \in 0 .. Size /\ limit \in 0 .. Size /\ pending \in 0 .. Size
      /\ bottom \in 0 .. Size + ExtraWindow /\ top \in 0 .. Size + ExtraWindow
      /\ mem \in [0 .. Size - 1 -> Tags \cup {Blank}] /\ seq \in Tags
      /\ Size \in Nat \ {0} /\ ExtraWindow \in 1 .. Size
  BY RingAssumption DEF IInv, Ranges
<1>q. Len(q) = pending
  BY <1>0, QueueSeq, Zenon
<1>1. CASE CaptureStep
  <2>1. /\ record \in 0 .. Size - 1 /\ record # limit /\ pending \in 0 .. Size - 1
        /\ ThisLap(record, limit, bottom, pending) \/ NextLap(record, limit, bottom, pending)
    BY <1>0, <1>1 DEF IInv, LimitInv, CaptureStep
  <2>2. /\ Cell(bottom, pending) = record
        /\ \A i \in 0 .. pending - 1 : Cell(bottom, i) # record
    BY <1>0, <2>1, WrittenCell
  <2>3. /\ mem'[Cell(bottom, pending)] = seq
        /\ \A i \in 0 .. pending - 1 : mem'[Cell(bottom, i)] = mem[Cell(bottom, i)]
    <3>1. \A i \in 0 .. pending - 1 : Cell(bottom, i) \in 0 .. Size - 1
      <4>1. \A i \in 0 .. pending - 1 : i \in 0 .. Size - 1
        BY <1>0
      <4> QED
        BY <1>0, <4>1, CellIn
    <3> QED
      BY <1>0, <1>1, <2>1, <2>2, <3>1 DEF CaptureStep
  <2>4. r = Append(q, seq) /\ k = l
    <3>1. mem' \in [0 .. Size - 1 -> Tags \cup {Blank}]
      BY DEF IInv, Ranges
    <3> DEFINE w == mem'
    <3>2. /\ w \in [0 .. Size - 1 -> Tags \cup {Blank}]
          /\ w[Cell(bottom, pending)] = seq
          /\ \A i \in 0 .. pending - 1 : w[Cell(bottom, i)] = mem[Cell(bottom, i)]
      BY <2>3, <3>1
    <3> HIDE DEF w
    <3>3. Queue(bottom, pending + 1, w) = Append(Queue(bottom, pending, mem), seq)
      <4>1. /\ bottom \in 0 .. Size + ExtraWindow /\ pending \in 0 .. Size - 1
            /\ mem \in [0 .. Size - 1 -> Tags \cup {Blank}] /\ seq \in Tags
        BY <1>0, <2>1
      <4> QED
        BY <4>1, <3>2, QueueCapture
    <3> QED
      BY <1>1, <3>3 DEF CaptureStep, w
  <2>5. Len(q) < Size
    BY <1>0, <1>q, <2>1
  <2> QED
    BY <1>0, <2>4, <2>5
<1>2. ASSUME NEW n \in 1 .. Size, ConsumeStep(n)
      PROVE  n <= l /\ k = l - n /\ r = SubSeq(q, n + 1, Len(q))
  <2>1. n \in 1 .. pending /\ bottom + n \in 0 .. Size + ExtraWindow
    BY <1>0, <1>2 DEF ConsumeStep
  <2>2. Queue(bottom + n, pending - n, mem) = SubSeq(q, n + 1, pending)
    BY <1>0, <2>1, QueueConsume
  <2>3. n <= l /\ k = l - n
    BY <1>0, <1>2 DEF ConsumeStep, Loan
  <2> QED
    BY <1>2, <1>q, <2>2, <2>3 DEF ConsumeStep
<1>3. CASE QuietStep
  <2>1. ASSUME NEW i \in 1 .. pending
        PROVE  Cell(bottom', i - 1) = Cell(bottom, i - 1)
    <3>1. i - 1 \in 0 .. Size - 1
      BY <1>0
    <3> QED
      BY <1>0, <1>3, <3>1, NormaliseCells DEF QuietStep
  <2>2. r = q
    BY <1>3, <2>1 DEF QuietStep, Queue
  <2>3. k \in 0 .. pending'
    <3>1. /\ bottom' \in 0 .. Size + ExtraWindow /\ top' \in 0 .. Size + ExtraWindow
          /\ pending' \in 0 .. Size /\ (pc' = "idle" => top' <= bottom' + pending')
      BY DEF IInv, Ranges, WindowInv
    <3>2. top' \in Int /\ bottom' \in Int /\ pending' \in Nat
      BY <1>0, <3>1
    <3>3. Loan(pc', top', bottom') \in 0 .. pending'
      BY <3>1, <3>2, LoanIn
    <3> QED
      BY <3>3
  <2> QED
    BY <1>3, <1>q, <2>2, <2>3 DEF QuietStep
<1> QED
  BY <1>1, <1>2, <1>3, StepKinds

(* The receive ring implements CaptureFifo: what the application reads through
   the double mapping are the captured bytes, once each and in their order, and
   none of them changes before it is given back. *)
THEOREM RefinesFifo == Spec => ImplementsFifo
<1> DEFINE q == [i \in 1 .. pending |-> mem[(bottom + i - 1) % Size]]
           l == IF pc = "idle" /\ top > bottom THEN top - bottom ELSE 0
<1>1. IInv => q = Queue(bottom, pending, mem)
  <2> SUFFICES ASSUME IInv PROVE \A i \in 1 .. pending : bottom + i - 1 = bottom + (i - 1)
    BY DEF Queue, Cell
  <2> QED
    BY RingAssumption DEF IInv, Ranges
<1>2. Init => q = <<>> /\ l = 0
  BY DEF Init
<1>3. IInv /\ IInv' /\ [Next]_vars => [Fifo!FifoNext]_<<q, l>>
  <2> SUFFICES ASSUME IInv, IInv', [Next]_vars PROVE [Fifo!FifoNext]_<<q, l>>
    OBVIOUS
  <2>1. q = Queue(bottom, pending, mem) /\ l = Loan(pc, top, bottom)
    BY <1>1 DEF Loan
  <2>2. q' = Queue(bottom', pending', mem') /\ l' = Loan(pc', top', bottom')
    <3>1. \A i \in 1 .. pending' : bottom' + i - 1 = bottom' + (i - 1)
      BY RingAssumption DEF IInv, Ranges
    <3> QED
      BY <3>1 DEF Queue, Cell, Loan
  <2> HIDE DEF q, l
  <2>3. \/ /\ Len(q) < Size /\ l' = l
           /\ \E d \in Tags \cup {Blank} : q' = Append(q, d)
        \/ l' \in 0 .. Len(q) /\ q' = q
        \/ \E n \in 1 .. Size : /\ n <= l /\ l' = l - n
                               /\ q' = SubSeq(q, n + 1, Len(q))
    BY <2>1, <2>2, FifoStep
  <2> QED
    BY <2>3 DEF Fifo!FifoNext, Fifo!Capture, Fifo!Lend, Fifo!Release, q, l
<1> QED
  BY <1>2, <1>3, Invariance, PTL
     DEF Spec, ImplementsFifo, Fifo!FifoSpec, Fifo!FifoInit, Fifo!fifoVars
=============================================================================
