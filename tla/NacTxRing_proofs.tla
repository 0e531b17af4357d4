-------------------------- MODULE NacTxRing_proofs --------------------------
(***************************************************************************)
(* Proofs about the transmit ring, for every buffer size, safety window    *)
(* and request length, as long as the application uses one of the two      *)
(* interfaces of the library and not both: they share free_space and keep  *)
(* different reserves, so that the account below does not hold of a mix.   *)
(*                                                                         *)
(* The cached free_space is what makes the ring hard: it is computed from  *)
(* a record pointer the card has left since and paid out request by        *)
(* request.  The inductive invariant keeps an account of it, next to the   *)
(* place of the limit pointer relative to the record pointer.  That no     *)
(* byte is overwritten before it is sent, and that the ring implements     *)
(* TransmitFifo, follows from it and from where the writes of the          *)
(* application and the bytes of the backlog lie modulo the size.           *)
(***************************************************************************)
EXTENDS NacTxRing, NumberFacts, Sequences, SequenceTheorems, TLAPS

(* A constant assumption: no stream is used through both interfaces. *)
OneInterface == \A u \in Uses : ~("space" \in u /\ "copy" \in u)

(* The most the library ever believes to be free. *)
Usable == IF "copy" \in using THEN Size - Window ELSE Size

(* Pointer p is n bytes ahead of the record pointer, around the end of the
   buffer or not. *)
Ahead(p, rec, n) == p = rec + n \/ p + Size = rec + n

InSpace == {"space", "granted", "filled"}
InCopy == {"copy", "copied"}

PcInv ==
  /\ using \in Uses
  /\ pc \in InSpace => "space" \in using
  /\ pc \in InCopy => "copy" \in using
  /\ pc = "space" => lastBottom = limit

PositionInv == limit = offset /\ Ahead(limit, record, backlog)

AccountInv ==
  /\ freeSpace + Reserved + backlog <= Usable
  /\ Reserved + backlog < Size

(* What the stopping thread still waits for lies before its limit. *)
StopInv ==
  /\ owed <= backlog
  /\ stopPc = "draining" /\ owed > 0 => Ahead(stopLimit, record, owed)

(* While limit has not come round to the record pointer the stopping thread
   has read, what has been committed lies between the two, so that they are
   equal only if nothing is left to be sent. *)
LapInv ==
  /\ stopPc = "limit" /\ room > 0 =>
       Ahead(limit, stopRecord, Size - room) /\ backlog <= Size - room
  /\ stopPc = "draining" /\ stopRecord = stopLimit /\ ~lapped => owed = 0

Ranges ==
  /\ record \in 0 .. Size /\ limit \in 0 .. Size
  /\ offset \in 0 .. Size /\ lastBottom \in 0 .. Size
  /\ stopRecord \in 0 .. Size /\ stopLimit \in 0 .. Size
  /\ freeSpace \in 0 .. Size
  /\ need \in 0 .. MaxRequest
  /\ backlog \in 0 .. Size /\ owed \in 0 .. Size /\ room \in 0 .. Size
  /\ pc \in {"idle", "quit"} \cup InSpace \cup InCopy
  /\ stopPc \in {"running", "limit", "draining", "stopped"}

Contents == mem \in [0 .. Size - 1 -> Tags \cup {Blank}] /\ seq \in Tags

Flags == paused \in BOOLEAN /\ lapped \in BOOLEAN

IInv ==
  /\ OneInterface
  /\ Ranges /\ Contents /\ Flags
  /\ PcInv /\ PositionInv /\ AccountInv /\ StopInv /\ LapInv

-----------------------------------------------------------------------------
(* The arithmetic of one step each, about any values of the pointers. *)

(* nac_tx_get_stream_space computes the space that is free, exactly. *)
LEMMA SpaceFreeExact ==
  ASSUME NEW rec \in 0 .. Size, NEW lim \in 0 .. Size, NEW n \in Nat,
         n < Size, Ahead(lim, rec, n)
  PROVE  SpaceFree(rec, lim) = Size - n
BY RingAssumption DEF SpaceFree, Ahead

(* nac_tx_stream_copy_bytes computes one window less. *)
LEMMA CopyFreeExact ==
  ASSUME NEW rec \in 0 .. Size, NEW lim \in 0 .. Size, NEW n \in Nat,
         n + Window <= Size, Ahead(lim, rec, n)
  PROVE  CopyFree(rec, lim) = Size - Window - n
BY RingAssumption DEF CopyFree, Ahead

(* Committing n bytes moves the pointer n bytes on. *)
LEMMA CommitAhead ==
  ASSUME NEW rec \in 0 .. Size, NEW off \in 0 .. Size, NEW b \in Nat,
         NEW n \in Nat, Ahead(off, rec, b), b + n < Size
  PROVE  /\ CommitOffset(off + n) \in 0 .. Size
         /\ CopyOffset(off + n) \in 0 .. Size
         /\ Ahead(CommitOffset(off + n), rec, b + n)
         /\ Ahead(CopyOffset(off + n), rec, b + n)
BY RingAssumption DEF CommitOffset, CopyOffset, Ahead

(* The card sends a byte: every pointer ahead comes one byte closer. *)
LEMMA SendAhead ==
  ASSUME NEW rec \in 0 .. Size - 1, NEW p \in 0 .. Size, NEW n \in Nat, n > 0,
         Ahead(p, rec, n)
  PROVE  Ahead(p, rec + 1, n - 1)
BY RingAssumption DEF Ahead

(* The card may send only if something is left to be sent. *)
LEMMA SendBacklog ==
  ASSUME NEW rec \in 0 .. Size - 1, NEW lim \in 0 .. Size, NEW n \in Nat,
         Ahead(lim, rec, n), rec # lim
  PROVE  n > 0
BY RingAssumption DEF Ahead

(* Going on at the start of the buffer changes no distance. *)
LEMMA WrapAhead ==
  ASSUME NEW p \in 0 .. Size, NEW n \in Nat, Ahead(p, Size, n),
         n > 0 \/ p # Size
  PROVE  Ahead(p, 0, n)
BY RingAssumption DEF Ahead

-----------------------------------------------------------------------------
(* The writes of the application leave the buffer a buffer. *)
LEMMA FilledType ==
  ASSUME Contents, offset \in 0 .. Size, NEW n \in Nat
  PROVE  Filled(n) \in [0 .. Size - 1 -> Tags \cup {Blank}]
<1>1. ASSUME NEW c \in 0 .. Size - 1, NEW i \in Int
      PROVE  (IF i < n THEN (seq + i) % TagCount ELSE mem[c]) \in Tags \cup {Blank}
  <2>1. mem[c] \in Tags \cup {Blank}
    BY DEF Contents
  <2>2. seq + i \in Int
    BY CallerAssumption DEF Contents, Tags
  <2>3. (seq + i) % TagCount \in Tags
    BY <2>2, CallerAssumption DEF Tags
  <2> QED
    BY <2>1, <2>3
<1>2. ASSUME NEW c \in 0 .. Size - 1 PROVE (c - offset) % Size \in Int
  BY RingAssumption
<1> QED
  BY <1>1, <1>2 DEF Filled

-----------------------------------------------------------------------------
(* TypeOK is the conjunction of its parts. *)
LEMMA TypeSplit == TypeOK <=> Ranges /\ Contents /\ Flags /\ using \in Uses
BY Zenon DEF TypeOK, Ranges, Contents, Flags, InSpace, InCopy

(* The stream starts with nothing committed. *)
LEMMA InitIInv == OneInterface /\ Init => IInv
<1> SUFFICES ASSUME OneInterface, Init PROVE IInv
  OBVIOUS
<1> USE RingAssumption, CallerAssumption
<1>1. Ranges
  BY DEF Init, Ranges
<1>2. Contents
  <2>1. mem \in [0 .. Size - 1 -> Tags \cup {Blank}]
    BY DEF Init
  <2>2. 0 \in Tags
    BY DEF Tags
  <2> QED
    BY <2>1, <2>2 DEF Init, Contents
<1>3. Flags
  BY Zenon DEF Init, Flags
<1>4. PcInv /\ PositionInv /\ StopInv /\ LapInv
  BY DEF Init, PcInv, PositionInv, StopInv, LapInv, Ahead, InSpace, InCopy
<1>5. AccountInv
  BY DEF Init, AccountInv, Reserved, Usable
<1> QED
  BY <1>1, <1>2, <1>3, <1>4, <1>5, Zenon DEF IInv

(* The flags stay Boolean. *)
LEMMA NextFlags == Flags /\ [Next]_vars => Flags'
<1> SUFFICES ASSUME Flags, [Next]_vars PROVE Flags'
  OBVIOUS
<1> USE DEF Flags, cardVars, stopVars
<1>1. CASE \E n \in 1 .. MaxRequest : GetSpace(n) \/ CommitBytes(n) \/ CopyBytes(n)
  BY <1>1, Zenon DEF GetSpace, CommitBytes, CopyBytes
<1>2. CASE SpacePoll \/ SpaceReturn \/ Fill \/ CopyPoll \/ CopyFill \/ CopyCommit
  BY <1>2, Zenon DEF SpacePoll, SpaceReturn, Fill, CopyPoll, CopyFill, CopyCommit
<1>3. CASE Quit \/ StopBegin \/ StopLimit \/ StopPoll \/ StopEnd \/ CardSend \/ CardWrap
  BY <1>3, Zenon DEF Quit, StopBegin, StopLimit, StopPoll, StopEnd, CardSend, CardWrap
<1>4. CASE UNCHANGED vars
  BY <1>4, Zenon DEF vars
<1> QED
  BY <1>1, <1>2, <1>3, <1>4, Zenon DEF Next, Writer, Stopper, Stopping, Card

(* The buffer stays a buffer. *)
LEMMA NextContents == Ranges /\ Contents /\ [Next]_vars => Contents'
<1> SUFFICES ASSUME Ranges, Contents, [Next]_vars PROVE Contents'
  OBVIOUS
<1>1. offset \in 0 .. Size /\ need \in Nat
  BY CallerAssumption DEF Ranges
<1>2. \A n \in Nat : (seq + n) % TagCount \in Tags
  BY CallerAssumption DEF Contents, Tags
<1>3. CASE Fill \/ CopyFill
  <2>1. mem' = Filled(need) /\ seq' = seq
    BY <1>3 DEF Fill, CopyFill
  <2> QED
    BY <2>1, <1>1, FilledType DEF Contents
<1>4. CASE \E n \in 1 .. MaxRequest : CommitBytes(n)
  <2>1. PICK n \in 1 .. MaxRequest : CommitBytes(n)
    BY <1>4
  <2>2. mem' = mem /\ seq' = (seq + n) % TagCount /\ n \in Nat
    BY <2>1, CallerAssumption DEF CommitBytes
  <2> QED
    BY <2>2, <1>2 DEF Contents
<1>5. CASE CopyCommit
  BY <1>1, <1>2, <1>5 DEF CopyCommit, Contents
<1>6. CASE \/ \E n \in 1 .. MaxRequest : GetSpace(n) \/ CopyBytes(n)
           \/ SpacePoll \/ SpaceReturn \/ CopyPoll
           \/ Quit \/ StopBegin \/ StopLimit \/ StopPoll \/ StopEnd
           \/ CardSend \/ CardWrap \/ UNCHANGED vars
  <2>1. UNCHANGED <<mem, seq>>
    BY <1>6, Zenon DEF GetSpace, CopyBytes, SpacePoll, SpaceReturn, CopyPoll,
       Quit, StopBegin, StopLimit, StopPoll, StopEnd, CardSend, CardWrap, vars
  <2> QED
    BY <2>1 DEF Contents
<1> QED
  BY <1>3, <1>4, <1>5, <1>6, Zenon DEF Next, Writer, Stopper, Stopping, Card

(* No step makes the two reads of the stopping thread equal while something is
   left to be sent, unless the writer takes limit round the ring. *)
LEMMA NextLap == IInv /\ [Next]_vars => LapInv'
<1> SUFFICES ASSUME IInv, [Next]_vars PROVE LapInv'
  OBVIOUS
<1> USE RingAssumption, CallerAssumption
<1>t. /\ record \in 0 .. Size /\ limit \in 0 .. Size /\ offset \in 0 .. Size
      /\ backlog \in 0 .. Size /\ owed \in 0 .. Size /\ stopLimit \in 0 .. Size
      /\ stopRecord \in 0 .. Size /\ room \in 0 .. Size /\ need \in Nat
  BY DEF IInv, Ranges
<1>i. /\ LapInv /\ limit = offset /\ Ahead(limit, record, backlog) /\ StopInv
      /\ backlog < Size
  BY <1>t DEF IInv, PositionInv, AccountInv, Reserved
<1>1. ASSUME NEW n \in 0 .. MaxRequest, n <= need,
             limit' \in {CommitOffset(offset + n), CopyOffset(offset + n)},
             backlog' = backlog + n, room' = Passed(n),
             UNCHANGED <<stopPc, stopRecord, stopLimit, owed, lapped>>
      PROVE  LapInv'
  <2>1. CASE stopPc = "limit" /\ n < room
    <3> DEFINE d == Size - room
    <3>1. d \in Nat /\ n \in Nat /\ d + n < Size /\ Ahead(offset, stopRecord, d)
          /\ room' = room - n /\ Size - (room - n) = d + n /\ backlog + n <= d + n
      BY <1>t, <1>i, <2>1, <1>1 DEF LapInv, Passed
    <3> HIDE DEF d
    <3>2. Ahead(limit', stopRecord, d + n)
      BY <1>1, <1>t, <3>1, CommitAhead
    <3> QED
      BY <1>1, <2>1, <3>1, <3>2 DEF LapInv
  <2>2. CASE stopPc = "limit" /\ n >= room
    BY <1>t, <1>1, <2>2 DEF LapInv, Passed
  <2>3. CASE stopPc # "limit"
    BY <1>1, <1>i, <2>3 DEF LapInv
  <2> QED
    BY <1>t, <2>1, <2>2, <2>3
<1>2. ASSUME NEW n \in 1 .. MaxRequest, CommitBytes(n) PROVE LapInv'
  BY <1>1, <1>2 DEF CommitBytes
<1>3. CASE CopyCommit
  <2>1. need \in 0 .. MaxRequest
    BY DEF IInv, Ranges
  <2>2. /\ need <= need
        /\ limit' \in {CommitOffset(offset + need), CopyOffset(offset + need)}
        /\ backlog' = backlog + need /\ room' = Passed(need)
        /\ UNCHANGED <<stopPc, stopRecord, stopLimit, owed, lapped>>
    BY <1>3, <1>t DEF CopyCommit
  <2> QED
    BY <1>1, <2>1, <2>2, Zenon
<1>4. CASE StopBegin
  <2>1. /\ stopPc' = "limit" /\ stopRecord' = record /\ room' = Size - backlog
        /\ UNCHANGED <<limit, backlog>>
    BY <1>4 DEF StopBegin
  <2> QED
    BY <1>t, <1>i, <2>1 DEF LapInv
<1>5. CASE StopLimit
  <2>1. /\ stopPc = "limit" /\ stopPc' = "draining" /\ stopLimit' = limit
        /\ owed' = backlog /\ stopRecord' = stopRecord
    BY <1>5 DEF StopLimit
  <2>2. ~lapped' => room # 0
    BY <1>5, Zenon DEF StopLimit
  <2>3. room # 0 /\ stopRecord = limit => backlog = 0
    BY <1>t, <1>i, <2>1 DEF LapInv, Ahead
  <2> QED
    BY <2>1, <2>2, <2>3, Zenon DEF LapInv
<1>6. CASE StopPoll
  <2>1. /\ stopPc = "draining" /\ stopPc' = stopPc /\ stopRecord' = record
        /\ UNCHANGED <<stopLimit, owed>>
    BY <1>6 DEF StopPoll
  <2> QED
    BY <1>t, <1>i, <2>1 DEF LapInv, StopInv, Ahead
<1>7. CASE CardSend
  <2>1. /\ UNCHANGED <<limit, stopPc, stopRecord, stopLimit, room, lapped>>
        /\ backlog' = backlog - 1 /\ owed' = IF owed > 0 THEN owed - 1 ELSE 0
    BY <1>7 DEF CardSend
  <2> QED
    BY <1>t, <1>i, <2>1 DEF LapInv
<1>8. CASE StopEnd
  BY <1>8 DEF StopEnd, LapInv
<1>9. CASE \/ \E n \in 1 .. MaxRequest : GetSpace(n) \/ CopyBytes(n)
           \/ SpacePoll \/ SpaceReturn \/ Fill \/ CopyPoll \/ CopyFill
           \/ Quit \/ CardWrap \/ UNCHANGED vars
  <2>1. UNCHANGED <<limit, backlog, stopPc, stopRecord, stopLimit, owed, room, lapped>>
    BY <1>9, Zenon DEF GetSpace, CopyBytes, SpacePoll, SpaceReturn, Fill, CopyPoll,
       CopyFill, Quit, CardWrap, stopVars, vars
  <2> QED
    BY <1>i, <2>1 DEF LapInv
<1> QED
  BY <1>2, <1>3, <1>4, <1>5, <1>6, <1>7, <1>8, <1>9, Zenon
     DEF Next, Writer, Stopper, Stopping, Card

(* Every step of the writer, the stopping thread and the card preserves the
   invariant. *)
LEMMA NextIInv == IInv /\ [Next]_vars => IInv'
<1> DEFINE Rest == Ranges /\ PcInv /\ PositionInv /\ AccountInv /\ StopInv
<1> SUFFICES ASSUME IInv, [Next]_vars PROVE Rest'
  <2> SUFFICES ASSUME IInv, [Next]_vars, Rest' PROVE IInv'
    OBVIOUS
  <2>1. Flags' /\ Contents' /\ LapInv'
    BY NextFlags, NextContents, NextLap DEF IInv
  <2>2. OneInterface'
    BY DEF IInv, OneInterface
  <2> QED
    BY <2>1, <2>2, Zenon DEF IInv
<1> USE RingAssumption, CallerAssumption
<1>r. Ranges /\ PcInv /\ PositionInv /\ AccountInv /\ StopInv
  BY Zenon DEF IInv
<1>t. /\ record \in 0 .. Size /\ limit \in 0 .. Size /\ offset \in 0 .. Size
      /\ backlog \in 0 .. Size /\ owed \in 0 .. Size /\ stopLimit \in 0 .. Size
      /\ stopRecord \in 0 .. Size /\ room \in 0 .. Size
      /\ need \in Nat /\ freeSpace \in 0 .. Size
  BY <1>r DEF Ranges
<1>p. limit = offset /\ Ahead(limit, record, backlog)
  BY <1>r DEF PositionInv
<1>i. ~("copy" \in using /\ "space" \in using)
  BY <1>r, Zenon DEF IInv, OneInterface, PcInv
<1>1. ASSUME NEW n \in 1 .. MaxRequest, GetSpace(n) PROVE Rest'
  <2>1. /\ UNCHANGED <<using, record, limit, offset, freeSpace, backlog, stopPc, stopRecord,
                       stopLimit, owed, room>>
        /\ pc = "idle" /\ pc' = "space" /\ "space" \in using
        /\ lastBottom' = limit /\ need' = n
    BY <1>1 DEF GetSpace, cardVars, stopVars
  <2> QED
    BY <1>r, <1>t, <2>1 DEF Ranges, PcInv, PositionInv, AccountInv, StopInv,
       Reserved, Usable, InSpace, InCopy
<1>2. CASE SpacePoll
  <2>1. /\ UNCHANGED <<using, record, limit, offset, lastBottom, need, pc,
                       backlog, stopPc, stopRecord,
                       stopLimit, owed, room>>
        /\ pc = "space" /\ freeSpace' = SpaceFree(record, lastBottom)
    BY <1>2 DEF SpacePoll, cardVars, stopVars
  <2>2. "copy" \notin using /\ lastBottom = limit /\ backlog < Size
    BY <1>r, <1>i, <1>t, <2>1 DEF PcInv, InSpace, AccountInv, Reserved
  <2>3. freeSpace' = Size - backlog
    BY <1>t, <1>p, <2>1, <2>2, SpaceFreeExact
  <2>4. AccountInv'
    BY <1>r, <1>t, <2>1, <2>2, <2>3 DEF AccountInv, Reserved, Usable
  <2> QED
    BY <1>r, <1>t, <2>1, <2>3, <2>4 DEF Ranges, PcInv, PositionInv, StopInv
<1>3. CASE SpaceReturn
  <2>1. /\ UNCHANGED <<using, record, limit, offset, lastBottom, need, backlog,
                       stopPc, stopRecord,
                       stopLimit, owed, room>>
        /\ pc = "space" /\ pc' = "granted"
        /\ freeSpace >= need + Slack /\ freeSpace' = freeSpace - need
    BY <1>3 DEF SpaceReturn, cardVars, stopVars
  <2>2. AccountInv'
    BY <1>r, <1>t, <2>1 DEF AccountInv, Reserved, Usable
  <2> QED
    BY <1>r, <1>t, <2>1, <2>2 DEF Ranges, PcInv, PositionInv, StopInv, InSpace, InCopy
<1>4. CASE Fill
  <2>1. /\ UNCHANGED <<using, record, limit, offset, freeSpace, lastBottom, need,
                       backlog, stopPc, stopRecord,
                       stopLimit, owed, room>>
        /\ pc = "granted" /\ pc' = "filled"
    BY <1>4 DEF Fill, cardVars, stopVars
  <2> QED
    BY <1>r, <1>t, <2>1 DEF Ranges, PcInv, PositionInv, AccountInv, StopInv,
       Reserved, Usable, InSpace, InCopy
<1>5. ASSUME NEW n \in 1 .. MaxRequest, CommitBytes(n) PROVE Rest'
  <2>1. /\ UNCHANGED <<using, record, freeSpace, stopPc, stopRecord, stopLimit, owed>>
        /\ room' = Passed(n)
        /\ pc = "filled" /\ n <= need /\ pc' = "idle" /\ need' = 0
        /\ offset' = CommitOffset(offset + n) /\ limit' = offset'
        /\ lastBottom' = offset' /\ backlog' = backlog + n
    BY <1>5 DEF CommitBytes, cardVars, stopVars
  <2>2. /\ n \in Nat /\ backlog + n < Size
        /\ freeSpace + (backlog + n) <= Usable
    BY <1>r, <1>t, <2>1 DEF AccountInv, Reserved, Usable
  <2>3. offset' \in 0 .. Size /\ Ahead(offset', record, backlog + n)
    BY <1>t, <1>p, <2>1, <2>2, CommitAhead
  <2>4. PositionInv'
    BY <2>1, <2>3 DEF PositionInv
  <2>5. AccountInv'
    BY <1>t, <2>1, <2>2 DEF AccountInv, Reserved, Usable
  <2> QED
    BY <1>r, <1>t, <2>1, <2>2, <2>3, <2>4, <2>5
       DEF Ranges, PcInv, StopInv, InSpace, InCopy, Passed
<1>6. ASSUME NEW n \in 1 .. MaxRequest, CopyBytes(n) PROVE Rest'
  <2>1. /\ UNCHANGED <<using, record, limit, offset, freeSpace, lastBottom,
                       backlog, stopPc, stopRecord, stopLimit, owed, room>>
        /\ pc = "idle" /\ pc' = "copy" /\ "copy" \in using /\ need' = n
    BY <1>6 DEF CopyBytes, cardVars, stopVars
  <2> QED
    BY <1>r, <1>t, <2>1 DEF Ranges, PcInv, PositionInv, AccountInv, StopInv,
       Reserved, Usable, InSpace, InCopy
<1>7. CASE CopyPoll
  <2>1. /\ UNCHANGED <<using, record, limit, offset, need, pc, backlog, stopPc, stopRecord,
                       stopLimit, owed, room>>
        /\ pc = "copy" /\ freeSpace' = CopyFree(record, limit)
        /\ lastBottom' = limit
    BY <1>7 DEF CopyPoll, cardVars, stopVars
  <2>2. "copy" \in using /\ backlog + Window <= Size
    BY <1>r, <1>t, <2>1 DEF PcInv, InCopy, AccountInv, Reserved, Usable
  <2>3. freeSpace' = Size - Window - backlog
    BY <1>t, <1>p, <2>1, <2>2, CopyFreeExact
  <2>4. AccountInv'
    BY <1>r, <1>t, <2>1, <2>2, <2>3 DEF AccountInv, Reserved, Usable
  <2> QED
    BY <1>r, <1>t, <2>1, <2>2, <2>3, <2>4 DEF Ranges, PcInv, PositionInv, StopInv
<1>8. CASE CopyFill
  <2>1. /\ UNCHANGED <<using, record, limit, offset, lastBottom, need, backlog,
                       stopPc, stopRecord,
                       stopLimit, owed, room>>
        /\ pc = "copy" /\ pc' = "copied"
        /\ freeSpace >= need /\ freeSpace' = freeSpace - need
    BY <1>8 DEF CopyFill, cardVars, stopVars
  <2>2. "copy" \in using
    BY <1>r, <2>1 DEF PcInv, InCopy
  <2>3. AccountInv'
    BY <1>r, <1>t, <2>1, <2>2 DEF AccountInv, Reserved, Usable
  <2> QED
    BY <1>r, <1>t, <2>1, <2>3 DEF Ranges, PcInv, PositionInv, StopInv, InSpace, InCopy
<1>9. CASE CopyCommit
  <2>1. /\ UNCHANGED <<using, record, freeSpace, stopPc, stopRecord, stopLimit, owed>>
        /\ room' = Passed(need)
        /\ pc = "copied" /\ pc' = "idle" /\ need' = 0
        /\ offset' = CopyOffset(offset + need) /\ limit' = offset'
        /\ lastBottom' = offset' /\ backlog' = backlog + need
    BY <1>9 DEF CopyCommit, cardVars, stopVars
  <2>2. /\ backlog + need < Size
        /\ freeSpace + (backlog + need) <= Usable
    BY <1>r, <1>t, <2>1 DEF AccountInv, Reserved, Usable
  <2>3. offset' \in 0 .. Size /\ Ahead(offset', record, backlog + need)
    BY <1>t, <1>p, <2>1, <2>2, CommitAhead
  <2>4. PositionInv'
    BY <2>1, <2>3 DEF PositionInv
  <2>5. AccountInv'
    BY <1>t, <2>1, <2>2 DEF AccountInv, Reserved, Usable
  <2> QED
    BY <1>r, <1>t, <2>1, <2>2, <2>3, <2>4, <2>5
       DEF Ranges, PcInv, StopInv, InSpace, InCopy, Passed
<1>10. CASE Quit
  <2>1. /\ UNCHANGED <<using, record, limit, offset, freeSpace, lastBottom, need,
                       backlog, stopPc, stopRecord,
                       stopLimit, owed, room>>
        /\ pc = "idle" /\ pc' = "quit"
    BY <1>10 DEF Quit, cardVars, stopVars
  <2> QED
    BY <1>r, <1>t, <2>1 DEF Ranges, PcInv, PositionInv, AccountInv, StopInv,
       Reserved, Usable, InSpace, InCopy
<1>11. CASE StopBegin \/ StopPoll
  <2>1. /\ UNCHANGED <<using, record, limit, offset, freeSpace, lastBottom, need,
                       backlog, pc, stopLimit, owed>>
        /\ stopRecord' = record /\ room' \in {Size - backlog, room}
        /\ stopPc' = "limit" \/ (stopPc = "draining" /\ stopPc' = stopPc)
    BY <1>11 DEF StopBegin, StopPoll, cardVars
  <2> QED
    BY <1>r, <1>t, <2>1 DEF Ranges, PcInv, PositionInv, AccountInv, StopInv,
       Reserved, Usable
<1>16. CASE StopLimit
  <2>1. /\ UNCHANGED <<using, record, limit, offset, freeSpace, lastBottom, need,
                       backlog, pc, stopRecord>>
        /\ stopPc' = "draining" /\ stopLimit' = limit /\ owed' = backlog
        /\ room' = 0
    BY <1>16 DEF StopLimit, cardVars
  <2>2. StopInv'
    BY <1>t, <1>p, <2>1 DEF StopInv
  <2> QED
    BY <1>r, <1>t, <2>1, <2>2 DEF Ranges, PcInv, PositionInv, AccountInv,
       Reserved, Usable
<1>12. CASE StopEnd
  <2>1. /\ UNCHANGED <<using, record, limit, offset, freeSpace, lastBottom, need,
                       backlog, pc, stopRecord, stopLimit, owed, room>>
        /\ stopPc' = "stopped"
    BY <1>12 DEF StopEnd
  <2> QED
    BY <1>r, <1>t, <2>1 DEF Ranges, PcInv, PositionInv, AccountInv, StopInv,
       Reserved, Usable
<1>13. CASE CardSend
  <2>1. /\ UNCHANGED <<using, limit, offset, freeSpace, lastBottom, need, pc,
                       stopPc, stopRecord, stopLimit, room>>
        /\ record # limit /\ record < Size /\ record' = record + 1
        /\ backlog' = backlog - 1
        /\ owed' = IF owed > 0 THEN owed - 1 ELSE 0
    BY <1>13 DEF CardSend
  <2>2. backlog > 0
    BY <1>t, <1>p, <2>1, SendBacklog
  <2>3. PositionInv'
    BY <1>t, <1>p, <2>1, <2>2, SendAhead DEF PositionInv
  <2>4. AccountInv'
    BY <1>r, <1>t, <2>1, <2>2 DEF AccountInv, Reserved, Usable
  <2>5. StopInv'
    BY <1>r, <1>t, <2>1, <2>2, SendAhead DEF StopInv
  <2> QED
    BY <1>r, <1>t, <2>1, <2>2, <2>3, <2>4, <2>5 DEF Ranges, PcInv
<1>14. CASE CardWrap
  <2>1. /\ UNCHANGED <<using, limit, offset, freeSpace, lastBottom, need, pc,
                       backlog, stopPc, stopRecord,
                       stopLimit, owed, room>>
        /\ record # limit /\ record = Size /\ record' = 0
    BY <1>14 DEF CardWrap, stopVars
  <2>2. PositionInv'
    BY <1>t, <1>p, <2>1, WrapAhead DEF PositionInv
  <2>3. StopInv'
    BY <1>r, <1>t, <2>1, WrapAhead DEF StopInv
  <2> QED
    BY <1>r, <1>t, <2>1, <2>2, <2>3 DEF Ranges, PcInv, AccountInv, Reserved, Usable
<1>15. CASE UNCHANGED vars
  <2>1. UNCHANGED <<using, record, limit, offset, freeSpace, lastBottom, need,
                       pc, backlog, stopPc, stopRecord,
                       stopLimit, owed, room>>
    BY <1>15 DEF vars
  <2> QED
    BY <1>r, <2>1 DEF Ranges, PcInv, PositionInv, AccountInv, StopInv, Reserved,
       Usable
<1> HIDE DEF Rest
<1> QED
  BY <1>1, <1>2, <1>3, <1>4, <1>5, <1>6, <1>7, <1>8, <1>9, <1>10, <1>11, <1>12,
     <1>13, <1>14, <1>15, <1>16, Zenon DEF Next, Writer, Stopper, Stopping, Card

-----------------------------------------------------------------------------
(* IInv is an invariant of the stream. *)
THEOREM Invariance == OneInterface /\ Spec => []IInv
BY InitIInv, NextIInv, PTL DEF Spec

(* The registers, the cached space and the grants of a transmit stream stay
   in range (nac_tx_get_stream_space, nac_tx_stream_commit_bytes,
   nac_tx_stream_copy_bytes). *)
THEOREM TypeCorrect == OneInterface /\ Spec => []TypeOK
<1>1. IInv => TypeOK
  BY TypeSplit, Zenon DEF IInv, PcInv
<1> QED
  BY <1>1, Invariance, PTL

(* Grants, cached free space and backlog never overbook the ring, and it is
   never completely full, for every ring and every mix of requests through
   one interface. *)
THEOREM NeverOverbooked == OneInterface /\ Spec => []NeverFull
<1>1. IInv => NeverFull
  BY RingAssumption DEF IInv, Ranges, AccountInv, NeverFull, Reserved, Usable
<1> QED
  BY <1>1, Invariance, PTL

(* nac_tx_stop_stream pauses the card only after everything committed before
   it has read the limit pointer has been sent, although it reads that pointer
   only once and the writer may go on, for every ring in which the writer has
   not taken the limit pointer round to where the record pointer was read
   before it (lib/nac_stream.c:1186-1188). *)
THEOREM StopAfterDrain == OneInterface /\ Spec => StopDrains
<1>1. IInv /\ [Next]_vars => [StopEnd /\ ~lapped => owed = 0]_vars
  BY Zenon DEF IInv, LapInv, StopEnd
<1> QED
  BY <1>1, Invariance, PTL DEF Spec, StopDrains

-----------------------------------------------------------------------------
(* The contents of the ring. *)

(* The cell of the i-th byte from pointer p on. *)
Cell(p, i) == (p + i) % Size

(* It lies past the end of the buffer at most once. *)
LEMMA CellValue ==
  ASSUME NEW p \in 0 .. Size, NEW i \in 0 .. Size - 1
  PROVE  Cell(p, i) = IF p + i < Size THEN p + i ELSE p + i - Size
<1> DEFINE x == p + i
<1>1. x \in Nat /\ x < 2 * Size /\ Size \in Nat \ {0}
  BY RingAssumption
<1> HIDE DEF x
<1>2. x % Size = IF x < Size THEN x ELSE x - Size
  BY <1>1, SmallMod
<1>3. x = p + i /\ Cell(p, i) = x % Size
  BY DEF x, Cell
<1> QED
  BY <1>1, <1>2, <1>3

(* The i-th byte behind the record pointer is in the same cell when the pointer
   goes on at the start of the buffer or by one byte, and the i-th behind the
   backlog is the i-th behind the offset. *)
LEMMA Cells ==
  ASSUME NEW rec \in 0 .. Size, NEW off \in 0 .. Size, NEW b \in Nat, b < Size,
         Ahead(off, rec, b), NEW i \in 0 .. Size - 1
  PROVE  /\ Cell(rec, i) \in 0 .. Size - 1
         /\ Cell(Size, i) = Cell(0, i)
         /\ b + i < Size => Cell(rec, b + i) = Cell(off, i)
         /\ rec < Size /\ i + 1 < Size => Cell(rec + 1, i) = Cell(rec, i + 1)
<1> USE RingAssumption
<1>1. /\ Cell(rec, i) = IF rec + i < Size THEN rec + i ELSE rec + i - Size
      /\ Cell(off, i) = IF off + i < Size THEN off + i ELSE off + i - Size
      /\ Cell(Size, i) = IF Size + i < Size THEN Size + i ELSE Size + i - Size
      /\ Cell(0, i) = IF 0 + i < Size THEN 0 + i ELSE 0 + i - Size
  BY CellValue
<1>2. ASSUME b + i < Size PROVE Cell(rec, b + i) = Cell(off, i)
  <2>1. b + i \in 0 .. Size - 1
    BY <1>2
  <2>2. Cell(rec, b + i) = IF rec + (b + i) < Size THEN rec + (b + i)
                           ELSE rec + (b + i) - Size
    BY <2>1, CellValue
  <2> QED
    BY <1>1, <1>2, <2>2 DEF Ahead
<1>3. ASSUME rec < Size, i + 1 < Size PROVE Cell(rec + 1, i) = Cell(rec, i + 1)
  <2>1. Cell(rec + 1, i) = IF (rec + 1) + i < Size THEN (rec + 1) + i
                           ELSE (rec + 1) + i - Size
    BY <1>3, CellValue
  <2>2. Cell(rec, i + 1) = IF rec + (i + 1) < Size THEN rec + (i + 1)
                           ELSE rec + (i + 1) - Size
    BY <1>3, CellValue
  <2> QED
    BY <2>1, <2>2
<1> QED
  BY <1>1, <1>2, <1>3

(* A write of n bytes at the offset puts the next numbers into its own cells and
   leaves those of the backlog alone, if the two do not fill the ring. *)
LEMMA FilledCells ==
  ASSUME NEW rec \in 0 .. Size, offset \in 0 .. Size, NEW b \in Nat, NEW n \in Nat,
         n + b < Size, Ahead(offset, rec, b)
  PROVE  /\ \A i \in 0 .. n - 1 : Filled(n)[Cell(offset, i)] = (seq + i) % TagCount
         /\ \A i \in 0 .. b - 1 : Filled(n)[Cell(rec, i)] = mem[Cell(rec, i)]
<1> USE RingAssumption
<1>0. ASSUME NEW c \in 0 .. Size - 1
      PROVE  (c - offset) % Size = IF c < offset THEN c - offset + Size ELSE c - offset
  <2> DEFINE x == c - offset
  <2>1. x \in Int /\ -Size <= x /\ x < Size
    OBVIOUS
  <2> HIDE DEF x
  <2>2. x % Size = IF x < 0 THEN x + Size ELSE x
    BY <2>1, DistanceMod
  <2> QED
    BY <2>2 DEF x
<1>1. ASSUME NEW i \in 0 .. n - 1
      PROVE  Filled(n)[Cell(offset, i)] = (seq + i) % TagCount
  <2> DEFINE c == Cell(offset, i)
  <2>1. c = IF offset + i < Size THEN offset + i ELSE offset + i - Size
    BY CellValue
  <2> HIDE DEF c
  <2>2. c \in 0 .. Size - 1 /\ i \in Int /\ i < n
    BY <2>1
  <2>3. (c - offset) % Size = i
    BY <1>0, <2>1, <2>2
  <2>4. Filled(n)[c] = LET j == (c - offset) % Size
                       IN  IF j < n THEN (seq + j) % TagCount ELSE mem[c]
    BY <2>2 DEF Filled
  <2> QED
    BY <2>2, <2>3, <2>4 DEF c
<1>2. ASSUME NEW i \in 0 .. b - 1
      PROVE  Filled(n)[Cell(rec, i)] = mem[Cell(rec, i)]
  <2> DEFINE c == Cell(rec, i)
  <2>1. c = IF rec + i < Size THEN rec + i ELSE rec + i - Size
    BY CellValue
  <2> HIDE DEF c
  <2>2. c \in 0 .. Size - 1
    BY <2>1
  <2>3. (c - offset) % Size >= n /\ (c - offset) % Size \in Int
    BY <1>0, <2>1, <2>2 DEF Ahead
  <2>4. Filled(n)[c] = LET j == (c - offset) % Size
                       IN  IF j < n THEN (seq + j) % TagCount ELSE mem[c]
    BY <2>2 DEF Filled
  <2> QED
    BY <2>3, <2>4 DEF c
<1> QED
  BY <1>1, <1>2

(* The number of the i-th byte of a backlog of b bytes, when s is the number of
   the next byte to be committed. *)
Number(s, b, i) == (((s - b) % TagCount) + i) % TagCount

(* It is counted from the oldest one. *)
LEMMA NumberValue ==
  ASSUME NEW s \in Int, NEW b \in Int, NEW i \in Int
  PROVE  Number(s, b, i) = ((s - b) + i) % TagCount
<1>1. s - b \in Int
  OBVIOUS
<1> QED
  BY <1>1, AddMod, CallerAssumption DEF Number

(* Committing n bytes renumbers none of the backlog. *)
LEMMA CommitNumber ==
  ASSUME NEW s \in Int, NEW b \in Int, NEW i \in Int,
         NEW t \in Int, NEW c \in Int, t = (s + (c - b)) % TagCount
  PROVE  Number(t, c, i) = Number(s, b, i)
<1> DEFINE a == s + (c - b)
           d == i - c
<1>1. a \in Int /\ d \in Int /\ c \in Int
  OBVIOUS
<1>3. a + d = (s - b) + i /\ (t - c) + i = t + d
  BY <1>1
<1>4. Number(t, c, i) = ((t - c) + i) % TagCount
  BY NumberValue
<1>5. Number(s, b, i) = ((s - b) + i) % TagCount
  BY NumberValue
<1>6. t = a % TagCount
  OBVIOUS
<1> HIDE DEF a, d
<1>7. (t + d) % TagCount = (a + d) % TagCount
  <2>1. ((a % TagCount) + d) % TagCount = (a + d) % TagCount
    BY <1>1, AddMod, CallerAssumption
  <2> QED
    BY <1>6, <2>1, Zenon
<1> QED
  BY <1>3, <1>4, <1>5, <1>7

(* The numbers go on behind the backlog. *)
LEMMA NextNumber ==
  ASSUME NEW s \in Int, NEW b \in Int, NEW i \in Int
  PROVE  Number(s, b, b + i) = (s + i) % TagCount
<1>1. Number(s, b, b + i) = ((s - b) + (b + i)) % TagCount
  BY NumberValue
<1>2. (s - b) + (b + i) = s + i
  OBVIOUS
<1> QED
  BY <1>1, <1>2

(* Sending a byte makes the second of the backlog the first. *)
LEMMA SendNumber ==
  ASSUME NEW s \in Int, NEW b \in Int, NEW i \in Int
  PROVE  Number(s, b - 1, i) = Number(s, b, i + 1)
<1>1. Number(s, b - 1, i) = ((s - (b - 1)) + i) % TagCount
  BY NumberValue
<1>2. Number(s, b, i + 1) = ((s - b) + (i + 1)) % TagCount
  BY NumberValue
<1>3. (s - (b - 1)) + i = (s - b) + (i + 1)
  OBVIOUS
<1> QED
  BY <1>1, <1>2, <1>3

-----------------------------------------------------------------------------
(* What a step does to the bytes of the ring: the application fills what it was
   granted, a commit hands a part of it over, the card sends a byte or goes on
   at the start, and everything else leaves them alone. *)
FillStep ==
  /\ mem' = Filled(need) /\ need + backlog < Size
  /\ UNCHANGED <<record, offset, backlog, seq, need>>

CommitStep(n) ==
  /\ n \in 0 .. need /\ backlog + n < Size
  /\ pc \in {"filled", "copied"} /\ pc' = "idle"
  /\ backlog' = backlog + n /\ seq' = (seq + n) % TagCount
  /\ UNCHANGED <<record, mem>>

SendStep ==
  /\ record < Size /\ record' = record + 1
  /\ backlog > 0 /\ backlog' = backlog - 1
  /\ UNCHANGED <<mem, offset, seq, pc, need>>

WrapStep ==
  /\ record = Size /\ record' = 0
  /\ UNCHANGED <<mem, offset, backlog, seq, pc, need>>

QuietStep ==
  /\ UNCHANGED <<record, mem, offset, backlog, seq>>
  /\ pc' \in {"filled", "copied"} => pc' = pc /\ need' = need

(* Every step is one of these. *)
LEMMA StepKinds ==
  ASSUME IInv, IInv', [Next]_vars
  PROVE  \/ FillStep \/ (\E n \in 0 .. MaxRequest : CommitStep(n))
         \/ SendStep \/ WrapStep \/ QuietStep
<1> USE DEF cardVars, stopVars
<1>0. /\ Ranges /\ PositionInv /\ AccountInv /\ AccountInv' /\ need \in 0 .. MaxRequest
      /\ backlog \in 0 .. Size /\ record \in 0 .. Size /\ limit \in 0 .. Size
      /\ MaxRequest \in Nat /\ Size \in Nat
      /\ freeSpace \in Nat
  BY RingAssumption, CallerAssumption DEF IInv, Ranges
<1>1. CASE Fill \/ CopyFill
  <2>1. /\ mem' = Filled(need) /\ pc' \in {"filled", "copied"}
        /\ UNCHANGED <<record, offset, backlog, seq, need>>
    BY <1>1, Zenon DEF Fill, CopyFill
  <2>2. need' + backlog' < Size
    BY <1>0, <2>1 DEF AccountInv, Reserved
  <2> QED
    BY <2>1, <2>2 DEF FillStep
<1>2. ASSUME NEW n \in 1 .. MaxRequest, CommitBytes(n)
      PROVE  CommitStep(n) /\ n \in 0 .. MaxRequest
  BY <1>0, <1>2 DEF CommitBytes, CommitStep, AccountInv, Reserved
<1>3. CASE CopyCommit
  <2>1. CommitStep(need)
    BY <1>0, <1>3 DEF CopyCommit, CommitStep, AccountInv, Reserved
  <2> QED
    BY <1>0, <2>1
<1>4. CASE CardSend
  <2>1. backlog > 0
    BY <1>0, <1>4, SendBacklog DEF CardSend, PositionInv
  <2> QED
    BY <1>4, <2>1 DEF CardSend, SendStep
<1>5. CASE CardWrap
  BY <1>5 DEF CardWrap, WrapStep
<1>6. CASE \/ \E n \in 1 .. MaxRequest : GetSpace(n) \/ CopyBytes(n)
           \/ SpacePoll \/ SpaceReturn \/ CopyPoll
           \/ Quit \/ StopBegin \/ StopLimit \/ StopPoll \/ StopEnd \/ UNCHANGED vars
  <2>1. UNCHANGED <<record, mem, offset, backlog, seq>>
    BY <1>6, Zenon DEF GetSpace, CopyBytes, SpacePoll, SpaceReturn, CopyPoll,
       Quit, StopBegin, StopLimit, StopPoll, StopEnd, vars
  <2>2. \/ pc' \in {"space", "copy", "granted", "quit"}
        \/ pc' = pc /\ need' = need
    BY <1>6 DEF GetSpace, CopyBytes, SpacePoll, SpaceReturn, CopyPoll,
       Quit, StopBegin, StopLimit, StopPoll, StopEnd, vars
  <2> QED
    BY <2>1, <2>2 DEF QuietStep
<1> QED
  BY <1>1, <1>2, <1>3, <1>4, <1>5, <1>6 DEF Next, Writer, Stopper, Stopping, Card

-----------------------------------------------------------------------------
(* What the application has written and not yet committed. *)
Written ==
  pc \in {"filled", "copied"} =>
    \A i \in 0 .. need - 1 : mem[Cell(offset, i)] = (seq + i) % TagCount

(* UnsentIntact, with the operators of this proof. *)
Unsent == \A i \in 0 .. backlog - 1 : mem[Cell(record, i)] = Number(seq, backlog, i)

(* It says the same. *)
LEMMA UnsentIs == Unsent <=> UnsentIntact
BY DEF Unsent, UnsentIntact, Cell, Number, HeadTag

(* No step disturbs either. *)
LEMMA UnsentStep ==
  ASSUME IInv, IInv', Unsent, Written, [Next]_vars
  PROVE  Unsent' /\ Written'
<1>0. /\ record \in 0 .. Size /\ offset \in 0 .. Size /\ backlog \in Nat /\ backlog < Size
      /\ need \in Nat /\ seq \in Int /\ Size \in Nat /\ MaxRequest \in Nat
      /\ Ahead(offset, record, backlog)
  <2>1. /\ record \in 0 .. Size /\ offset \in 0 .. Size /\ backlog \in 0 .. Size
        /\ need \in 0 .. MaxRequest /\ seq \in Tags
        /\ Ahead(offset, record, backlog) /\ Reserved + backlog < Size
    BY DEF IInv, Ranges, PositionInv, Contents, AccountInv
  <2> QED
    BY <2>1, RingAssumption, CallerAssumption DEF Reserved, Tags
<1>1. CASE FillStep
  <2>1. /\ \A i \in 0 .. need - 1 : Filled(need)[Cell(offset, i)] = (seq + i) % TagCount
        /\ \A i \in 0 .. backlog - 1 : Filled(need)[Cell(record, i)] = mem[Cell(record, i)]
    BY <1>0, <1>1, FilledCells DEF FillStep
  <2>2. Written'
    BY <1>1, <2>1 DEF FillStep, Written, Cell
  <2>3. Unsent'
    BY <1>1, <2>1 DEF FillStep, Unsent, Cell, Number
  <2> QED
    BY <2>2, <2>3
<1>2. ASSUME NEW n \in 0 .. MaxRequest, CommitStep(n) PROVE Unsent' /\ Written'
  <2>1. /\ n \in 0 .. need /\ backlog + n < Size /\ pc \in {"filled", "copied"}
        /\ backlog' = backlog + n /\ seq' = (seq + n) % TagCount
        /\ record' = record /\ mem' = mem /\ pc' = "idle"
    BY <1>2 DEF CommitStep
  <2>2. ASSUME NEW i \in 0 .. backlog + n - 1
        PROVE  mem[Cell(record, i)] = Number((seq + n) % TagCount, backlog + n, i)
    <3>0. seq \in Int /\ backlog \in Int /\ n \in Int /\ i \in Int
      BY <1>0
    <3>1. Number((seq + n) % TagCount, backlog + n, i) = Number(seq, backlog, i)
      <4> DEFINE t == (seq + n) % TagCount
                 c == backlog + n
      <4>1. c \in Int /\ seq + n \in Int
        BY <3>0
      <4>2. t \in Int
        BY <4>1, Quotient, CallerAssumption
      <4>3. seq + (c - backlog) = seq + n
        BY <3>0
      <4>5. t = (seq + (c - backlog)) % TagCount
        BY <4>3
      <4> HIDE DEF t, c
      <4>4. Number(t, c, i) = Number(seq, backlog, i)
        BY <3>0, <4>1, <4>2, <4>5, CommitNumber
      <4> QED
        BY <4>4 DEF t, c
    <3>2. CASE i < backlog
      BY <3>1, <3>2, <1>0 DEF Unsent
    <3>3. CASE i >= backlog
      <4> DEFINE j == i - backlog
      <4>1. j \in 0 .. need - 1 /\ j \in 0 .. Size - 1 /\ backlog + j < Size /\ i = backlog + j
        BY <1>0, <2>1, <3>3
      <4> HIDE DEF j
      <4>2. Cell(record, backlog + j) = Cell(offset, j)
        BY <1>0, <4>1, Cells
      <4>3. mem[Cell(offset, j)] = (seq + j) % TagCount
        BY <2>1, <4>1 DEF Written
      <4>4. Number(seq, backlog, backlog + j) = (seq + j) % TagCount
        <5>1. seq \in Int /\ backlog \in Int /\ j \in Int
          BY <1>0, <4>1
        <5> QED
          BY <5>1, NextNumber, Zenon
      <4> QED
        BY <3>1, <4>1, <4>2, <4>3, <4>4
    <3> QED
      BY <1>0, <3>2, <3>3
  <2>3. Unsent'
    <3> SUFFICES ASSUME NEW i \in 0 .. backlog' - 1
                 PROVE  mem'[Cell(record', i)] = Number(seq', backlog', i)
      BY DEF Unsent, Cell, Number
    <3>1. i \in 0 .. backlog + n - 1
      BY <1>0, <2>1
    <3> QED
      BY <2>1, <2>2, <3>1, Zenon
  <2> QED
    BY <2>1, <2>3 DEF Written
<1>3. CASE SendStep
  <2>1. ASSUME NEW i \in 0 .. backlog - 1 - 1
        PROVE  mem[Cell(record + 1, i)] = Number(seq, backlog - 1, i)
    <3>1. i \in 0 .. Size - 1 /\ i + 1 < Size /\ i + 1 \in 0 .. backlog - 1 /\ i \in Int
      BY <1>0
    <3>2. Cell(record + 1, i) = Cell(record, i + 1)
      BY <1>0, <1>3, <3>1, Cells DEF SendStep
    <3>3. Number(seq, backlog - 1, i) = Number(seq, backlog, i + 1)
      BY <1>0, <3>1, SendNumber
    <3> QED
      BY <3>1, <3>2, <3>3 DEF Unsent
  <2>2. Unsent'
    <3> SUFFICES ASSUME NEW i \in 0 .. backlog' - 1
                 PROVE  mem'[Cell(record', i)] = Number(seq', backlog', i)
      BY DEF Unsent, Cell, Number
    <3> QED
      <4>1. record' = record + 1 /\ backlog' = backlog - 1 /\ seq' = seq /\ mem' = mem
        BY <1>3 DEF SendStep
      <4>2. i \in 0 .. backlog - 1 - 1
        BY <1>0, <4>1
      <4> QED
        BY <2>1, <4>1, <4>2, Zenon
  <2> QED
    BY <1>3, <2>2 DEF SendStep, Written, Cell
<1>4. CASE WrapStep
  <2>1. \A i \in 0 .. backlog - 1 : Cell(Size, i) = Cell(0, i)
    BY <1>0, Cells
  <2>2. Unsent'
    <3> SUFFICES ASSUME NEW i \in 0 .. backlog' - 1
                 PROVE  mem'[Cell(record', i)] = Number(seq', backlog', i)
      BY DEF Unsent, Cell, Number
    <3> QED
      BY <1>4, <2>1 DEF WrapStep, Unsent
  <2> QED
    BY <1>4, <2>2 DEF WrapStep, Written, Cell
<1>5. CASE QuietStep
  BY <1>5 DEF QuietStep, Unsent, Written, Cell, Number
<1> QED
  BY <1>1, <1>2, <1>3, <1>4, <1>5, StepKinds

(* No write of the application, granted by nac_tx_get_stream_space or copied by
   nac_tx_stream_copy_bytes, across the end of the buffer or not, touches a byte
   that is committed and not yet sent. *)
THEOREM UnsentKept == OneInterface /\ Spec => []UnsentIntact
<1>1. Init => Unsent /\ Written
  BY DEF Init, Unsent, Written
<1>2. IInv /\ IInv' /\ (Unsent /\ Written) /\ [Next]_vars => (Unsent /\ Written)'
  BY UnsentStep
<1>3. OneInterface /\ Spec => [](Unsent /\ Written)
  BY <1>1, <1>2, Invariance, PTL DEF Spec
<1> QED
  BY <1>3, UnsentIs, PTL

-----------------------------------------------------------------------------
(* The refinement of TransmitFifo. *)

(* The queue of the refinement mapping, for any record pointer, backlog and
   contents of the buffer. *)
Queue(rec, b, m) == [i \in 1 .. b |-> m[Cell(rec, i - 1)]]

(* It is a sequence of as many bytes as are committed and not sent. *)
LEMMA QueueSeq ==
  ASSUME NEW rec \in 0 .. Size, NEW b \in 0 .. Size,
         NEW m \in [0 .. Size - 1 -> Tags \cup {Blank}]
  PROVE  /\ Queue(rec, b, m) \in Seq(Tags \cup {Blank})
         /\ Len(Queue(rec, b, m)) = b
         /\ \A i \in 1 .. b : Queue(rec, b, m)[i] = m[Cell(rec, i - 1)]
<1> USE RingAssumption
<1>1. ASSUME NEW i \in 1 .. b PROVE m[Cell(rec, i - 1)] \in Tags \cup {Blank}
  <2>1. i - 1 \in 0 .. Size - 1
    OBVIOUS
  <2>2. Cell(rec, i - 1) \in 0 .. Size - 1
    BY <2>1, CellValue, SMTT(40)
  <2> QED
    BY <2>2
<1>2. Queue(rec, b, m) \in [1 .. b -> Tags \cup {Blank}]
  BY <1>1 DEF Queue
<1>3. b \in Nat
  OBVIOUS
<1>4. Queue(rec, b, m) \in Seq(Tags \cup {Blank}) /\ Len(Queue(rec, b, m)) = b
  BY <1>2, <1>3
<1> QED
  BY <1>4 DEF Queue

(* A commit appends to the queue in one piece. *)
LEMMA QueueCommit ==
  ASSUME NEW rec \in 0 .. Size, NEW b \in 0 .. Size, NEW c \in 0 .. Size, b <= c,
         NEW m \in [0 .. Size - 1 -> Tags \cup {Blank}]
  PROVE  SubSeq(Queue(rec, c, m), 1, b) = Queue(rec, b, m)
<1> DEFINE S == Tags \cup {Blank}
           long == Queue(rec, c, m)
           short == Queue(rec, b, m)
<1> USE RingAssumption
<1>2. /\ long \in Seq(S) /\ Len(long) = c
      /\ \A i \in 1 .. c : long[i] = m[Cell(rec, i - 1)]
  BY QueueSeq
<1>3. /\ short \in Seq(S) /\ Len(short) = b
      /\ \A i \in 1 .. b : short[i] = m[Cell(rec, i - 1)]
  BY QueueSeq
<1> HIDE DEF long, short, S
<1>4. \A i \in 1 .. b : long[i] \in S
  BY <1>2, ElementOfSeq
<1>5. /\ SubSeq(long, 1, b) \in Seq(S)
      /\ Len(SubSeq(long, 1, b)) = b
      /\ \A i \in 1 .. b : SubSeq(long, 1, b)[i] = long[i]
  <2>1. b \in Int /\ 1 \in Int
    OBVIOUS
  <2>2. /\ SubSeq(long, 1, b) \in Seq(S)
        /\ Len(SubSeq(long, 1, b)) = IF 1 <= b THEN b - 1 + 1 ELSE 0
        /\ \A i \in 1 .. b - 1 + 1 : SubSeq(long, 1, b)[i] = long[1 + i - 1]
    BY <1>4, <2>1, SubSeqProperties
  <2> QED
    BY <2>2
<1>6. \A i \in 1 .. b : SubSeq(long, 1, b)[i] = short[i]
  BY <1>2, <1>3, <1>5
<1>7. SubSeq(long, 1, b) = short
  BY <1>3, <1>5, <1>6, SeqEqual
<1> QED
  BY <1>7 DEF long, short

(* A sent byte is the head of the queue. *)
LEMMA QueueSend ==
  ASSUME NEW rec \in 0 .. Size - 1, NEW b \in 1 .. Size,
         NEW m \in [0 .. Size - 1 -> Tags \cup {Blank}]
  PROVE  /\ Queue(rec, b, m) # <<>>
         /\ Queue(rec + 1, b - 1, m) = Tail(Queue(rec, b, m))
<1> DEFINE S == Tags \cup {Blank}
           old == Queue(rec, b, m)
           new == Queue(rec + 1, b - 1, m)
<1> USE RingAssumption
<1>1. /\ old \in Seq(S) /\ Len(old) = b
      /\ \A i \in 1 .. b : old[i] = m[Cell(rec, i - 1)]
  <2>1. rec \in 0 .. Size /\ b \in 0 .. Size
    OBVIOUS
  <2> QED
    BY <2>1, QueueSeq
<1>2. /\ new \in Seq(S) /\ Len(new) = b - 1
      /\ \A i \in 1 .. b - 1 : new[i] = m[Cell(rec + 1, i - 1)]
  <2>1. rec + 1 \in 0 .. Size /\ b - 1 \in 0 .. Size
    OBVIOUS
  <2> QED
    BY <2>1, QueueSeq
<1> HIDE DEF old, new, S
<1>3. old # <<>>
  BY <1>1
<1>4. /\ Tail(old) \in Seq(S) /\ Len(Tail(old)) = b - 1
      /\ \A i \in 1 .. b - 1 : Tail(old)[i] = old[i + 1]
  BY <1>1, <1>3, HeadTailProperties
<1>5. ASSUME NEW i \in 1 .. b - 1 PROVE new[i] = Tail(old)[i]
  <2>1. Cell(rec + 1, i - 1) = Cell(rec, i)
    <3>1. i - 1 \in 0 .. Size - 1 /\ (i - 1) + 1 < Size /\ Ahead(rec, rec, 0) /\ (i - 1) + 1 = i
      BY DEF Ahead
    <3>2. Cell(rec + 1, i - 1) = Cell(rec, (i - 1) + 1)
      BY <3>1, Cells
    <3> QED
      BY <3>1, <3>2
  <2>2. i + 1 \in 1 .. b /\ (i + 1) - 1 = i
    OBVIOUS
  <2>3. old[i + 1] = m[Cell(rec, i)]
    BY <1>1, <2>2
  <2> QED
    BY <1>2, <1>4, <2>1, <2>3
<1>6. new = Tail(old)
  BY <1>2, <1>4, <1>5, SeqEqual
<1> QED
  BY <1>3, <1>6 DEF old, new

(* A step of the ring is a step of the FIFO or changes nothing of it. *)
LEMMA QueueStep ==
  ASSUME IInv, IInv', [Next]_vars,
         NEW q, q = Queue(record, backlog, mem),
         NEW r, r = Queue(record', backlog', mem')
  PROVE  \/ r = q
         \/ Len(r) > Len(q) /\ Len(r) <= Size /\ SubSeq(r, 1, Len(q)) = q
         \/ q # <<>> /\ r = Tail(q)
<1>0. /\ record \in 0 .. Size /\ offset \in 0 .. Size /\ backlog \in Nat /\ backlog < Size
      /\ backlog \in 0 .. Size
      /\ need \in Nat /\ Size \in Nat /\ MaxRequest \in Nat
      /\ Ahead(offset, record, backlog) /\ mem \in [0 .. Size - 1 -> Tags \cup {Blank}]
  <2>1. /\ record \in 0 .. Size /\ offset \in 0 .. Size /\ backlog \in 0 .. Size
        /\ need \in 0 .. MaxRequest
        /\ Ahead(offset, record, backlog) /\ Reserved + backlog < Size
        /\ mem \in [0 .. Size - 1 -> Tags \cup {Blank}]
    BY DEF IInv, Ranges, PositionInv, Contents, AccountInv
  <2> QED
    BY <2>1, RingAssumption, CallerAssumption DEF Reserved, Tags
<1>q. Len(q) = backlog
  BY <1>0, QueueSeq
<1>1. CASE FillStep
  <2>1. \A i \in 0 .. backlog - 1 : Filled(need)[Cell(record, i)] = mem[Cell(record, i)]
    BY <1>0, <1>1, FilledCells DEF FillStep
  <2>2. \A i \in 1 .. backlog : i - 1 \in 0 .. backlog - 1
    BY <1>0
  <2>3. r = q
    BY <1>1, <2>1, <2>2 DEF FillStep, Queue
  <2> QED
    BY <2>3
<1>2. ASSUME NEW n \in 0 .. MaxRequest, CommitStep(n)
      PROVE  r = q \/ (Len(r) > Len(q) /\ Len(r) <= Size /\ SubSeq(r, 1, Len(q)) = q)
  <2>1. /\ backlog + n < Size /\ backlog + n \in 0 .. Size /\ n \in Nat
        /\ r = Queue(record, backlog + n, mem)
    BY <1>0, <1>2 DEF CommitStep
  <2>2. Len(r) = backlog + n
    BY <1>0, <2>1, QueueSeq
  <2> DEFINE c == backlog + n
  <2>3. c \in 0 .. Size /\ backlog <= c /\ r = Queue(record, c, mem)
    BY <1>0, <2>1
  <2> HIDE DEF c
  <2>4. SubSeq(r, 1, backlog) = q
    <3>1. SubSeq(Queue(record, c, mem), 1, backlog) = Queue(record, backlog, mem)
      BY <1>0, <2>3, QueueCommit, Zenon
    <3> QED
      BY <2>3, <3>1, Zenon
  <2>5. CASE n = 0
    BY <1>0, <2>1, <2>5
  <2>6. CASE n > 0
    BY <1>0, <1>q, <2>1, <2>2, <2>4, <2>6
  <2> QED
    BY <2>1, <2>5, <2>6
<1>3. CASE SendStep
  <2>1. /\ record \in 0 .. Size - 1 /\ backlog \in 1 .. Size
        /\ r = Queue(record + 1, backlog - 1, mem)
    BY <1>0, <1>3 DEF SendStep
  <2> QED
    BY <1>0, <2>1, QueueSend
<1>4. CASE WrapStep
  <2>1. \A i \in 1 .. backlog : Cell(Size, i - 1) = Cell(0, i - 1)
    <3>1. \A i \in 1 .. backlog : i - 1 \in 0 .. Size - 1
      BY <1>0
    <3> QED
      BY <1>0, <3>1, Cells
  <2>2. r = q
    BY <1>4, <2>1 DEF WrapStep, Queue
  <2> QED
    BY <2>2
<1>5. CASE QuietStep
  BY <1>5 DEF QuietStep
<1> QED
  BY <1>1, <1>2, <1>3, <1>4, <1>5, StepKinds

(* The transmit ring implements TransmitFifo: committed bytes join a bounded FIFO
   in one piece, leave it in their order, and never change in between. *)
THEOREM RefinesFifo == OneInterface /\ Spec => ImplementsFifo
<1> DEFINE q == [i \in 1 .. backlog |-> mem[(record + i - 1) % Size]]
<1>1. IInv => q = Queue(record, backlog, mem)
  <2> SUFFICES ASSUME IInv PROVE \A i \in 1 .. backlog : record + i - 1 = record + (i - 1)
    BY DEF Queue, Cell
  <2> QED
    BY RingAssumption DEF IInv, Ranges
<1>2. Init => q = <<>>
  BY DEF Init
<1>3. IInv /\ IInv' /\ [Next]_vars => [Fifo!TransmitNext]_q
  <2> SUFFICES ASSUME IInv, IInv', [Next]_vars PROVE [Fifo!TransmitNext]_q
    OBVIOUS
  <2>1. q = Queue(record, backlog, mem)
    BY <1>1
  <2>2. q' = Queue(record', backlog', mem')
    <3>1. \A i \in 1 .. backlog' : record' + i - 1 = record' + (i - 1)
      BY RingAssumption DEF IInv, Ranges
    <3> QED
      BY <3>1 DEF Queue, Cell
  <2> HIDE DEF q
  <2>3. \/ q' = q
        \/ Len(q') > Len(q) /\ Len(q') <= Size /\ SubSeq(q', 1, Len(q)) = q
        \/ q # <<>> /\ q' = Tail(q)
    BY <2>1, <2>2, QueueStep
  <2> QED
    BY <2>3 DEF Fifo!TransmitNext, Fifo!Commit, Fifo!Send, q
<1> QED
  BY <1>2, <1>3, Invariance, PTL
     DEF Spec, ImplementsFifo, Fifo!TransmitSpec, Fifo!TransmitInit
==============================================================================
