---------------------------- MODULE NacRegs_proofs ----------------------------
(***************************************************************************)
(* Proofs about the register functions, for any number of processes and of *)
(* registers, and any lists of accesses of the kind the library and        *)
(* nactool build.                                                          *)
(*                                                                         *)
(* That a shared window behaves as one register per place is a question of *)
(* who uses it: between the two or three accesses of a function the pair   *)
(* of registers holds what this one process has put there, the card has    *)
(* either still to do what its address register says or has done just      *)
(* that, and what was read before a change is still there.  The inductive  *)
(* invariant RegsInv says this of each process at each step; Undisturbed   *)
(* says that it is not affected by what goes to other windows, buses and   *)
(* registers, and Apart that everything else does.                         *)
(***************************************************************************)
EXTENDS NacRegs, NumberFacts, SequenceTheorems, TLAPS

Window(a) == Legal(a) /\ a.space \in {"mac", "pcs"}
Managed(a) == Legal(a) /\ a.space = "phy"
Register(a) == a.space = "reg"

(* Where the card has the register of an access through a window. *)
Home(a) == <<Pair(a), Address(a)>>

(* What the address register is told by it. *)
Order(a) == [busy |-> TRUE, write |-> a.write, address |-> Address(a)]

(* The access a process is at. *)
Cur(p) == Head(job[p])

-----------------------------------------------------------------------------
(* The inductive invariant. *)

RegsType ==
  /\ core \in [Homes -> SUBSET AllOnes] /\ phy \in [Ports \X PhyRegs -> SUBSET Low16]
  /\ plain \in [PlainRegs -> SUBSET AllOnes]
  /\ data \in [Pairs -> SUBSET AllOnes] /\ mdio \in [Ports -> SUBSET Low16]
  /\ command = [x \in Pairs |-> command[x]] /\ frame = [x \in Ports |-> frame[x]]
  /\ job = [p \in Procs |-> job[p]] /\ at \in [Procs -> Nat]
  /\ tmp \in [Procs -> SUBSET AllOnes]
  /\ count \in Nat /\ halves \in [Procs -> [high : Nat, low : Nat]]
  /\ total = [p \in Procs |-> total[p]]

(* A process is at a step of an access of its list. *)
Working(p) ==
  /\ WellListed(job[p])
  /\ job[p] = <<>> => at[p] = 1
  /\ job[p] # <<>> => at[p] \in 1 .. Len(Steps(Cur(p)))

(* Nobody else uses what it uses. *)
Apart == \A p, q \in Procs : p # q => Uses(job[p]) \cap Uses(job[q]) = {}

(* The card works for a process that waits for it. *)
PairsServed ==
  \A x \in Pairs : command[x].busy =>
    \E p \in Procs : /\ job[p] # <<>> /\ Window(Cur(p)) /\ Pair(Cur(p)) = x
                     /\ At(p, "sleep")
BusesServed ==
  \A x \in Ports : frame[x].busy =>
    \E p \in Procs : /\ job[p] # <<>> /\ Managed(Cur(p)) /\ 3 - Cur(p).port = x
                     /\ At(p, "rest")

(* What the window of the access holds, before and after the card has served it. *)
WindowAt(p, a, x) ==
  /\ command[x].busy => command[x] = Order(a)
  /\ a.write /\ at[p] >= 2 => data[x] = Value(p)
  /\ ~a.write /\ at[p] >= 2 /\ ~command[x].busy => data[x] = core[Home(a)]
  /\ ~(at[p] = 3 /\ a.write) /\ ~(at[p] = 2 /\ ~a.write) => ~command[x].busy

(* The same of the bus. *)
ManagedAt(p, a, x) ==
  /\ frame[x].busy => at[p] = 2 /\ frame[x] = Frame(p)
  /\ ~a.write /\ at[p] >= 2 /\ ~frame[x].busy => mdio[x] = phy[<<x, a.reg>>]

(* What a change has read is what its register holds until it is written. *)
KeptOf(p, a) ==
  Legal(a) /\ a.space # "count" /\ a.write /\ a.keep # {} /\ ~Landed(p) =>
    tmp[p] = Held(PlaceOf(a))

AccessAt(p) ==
  job[p] # <<>> =>
    /\ Window(Cur(p)) => WindowAt(p, Cur(p), Pair(Cur(p)))
    /\ Managed(Cur(p)) => ManagedAt(p, Cur(p), 3 - Cur(p).port)
    /\ KeptOf(p, Cur(p))
    /\ Cur(p).space = "count" /\ at[p] = 2 => halves[p].high <= count \div Half

RegsInv ==
  /\ RegsType
  /\ \A p \in Procs : Working(p) /\ AccessAt(p)
  /\ Apart /\ PairsServed /\ BusesServed

-----------------------------------------------------------------------------
(* Lists of accesses. *)

(* The first access of a list and the rest of it. *)
LEMMA ListFacts ==
  ASSUME NEW j, WellListed(j), j # <<>>
  PROVE  /\ Len(j) \in Nat /\ Len(j) > 0 /\ Head(j) = j[1] /\ Listed(Head(j))
         /\ Len(Tail(j)) = Len(j) - 1 /\ \A i \in 1 .. Len(j) - 1 : Tail(j)[i] = j[i + 1]
         /\ WellListed(Tail(j))
         /\ Tail(j) # <<>> => Follows(Head(j), Head(Tail(j)))
<1> DEFINE S == {j[i] : i \in 1 .. Len(j)}
<1>1. Len(j) \in Nat /\ j \in Seq(S)
  <2>1. Len(j) \in Nat /\ j = [i \in 1 .. Len(j) |-> j[i]]
    BY DEF WellListed
  <2>2. j \in [1 .. Len(j) -> S]
    BY <2>1
  <2> HIDE DEF S
  <2> QED
    BY <2>1, <2>2
<1> HIDE DEF S
<1>2. Len(j) > 0 /\ Head(j) = j[1]
  BY <1>1
<1>3. /\ Tail(j) \in Seq(S) /\ Len(Tail(j)) = Len(j) - 1
      /\ \A i \in 1 .. Len(j) - 1 : Tail(j)[i] = j[i + 1]
  BY <1>1, <1>2
<1>4. \A i \in 1 .. Len(j) : Listed(j[i])
  BY DEF WellListed
<1>5. \A i \in 1 .. Len(j) - 1 : Follows(j[i], j[i + 1])
  BY DEF WellListed
<1>6. WellListed(Tail(j))
  <2>1. Len(Tail(j)) \in Nat /\ Tail(j) = [i \in 1 .. Len(Tail(j)) |-> Tail(j)[i]]
    <3>1. Len(Tail(j)) \in Nat /\ Tail(j) \in [1 .. Len(Tail(j)) -> S]
      BY <1>3, LenProperties
    <3> QED
      BY <3>1
  <2>2. ASSUME NEW i \in 1 .. Len(Tail(j)) PROVE Listed(Tail(j)[i])
    <3>1. i \in 1 .. Len(j) - 1 /\ i + 1 \in 1 .. Len(j)
      BY <1>1, <1>3
    <3> QED
      BY <1>3, <1>4, <3>1
  <2>3. ASSUME NEW i \in 1 .. Len(Tail(j)) - 1 PROVE Follows(Tail(j)[i], Tail(j)[i + 1])
    <3>1. /\ i \in 1 .. Len(j) - 1 /\ i + 1 \in 1 .. Len(j) - 1
      BY <1>1, <1>3
    <3>2. Tail(j)[i] = j[i + 1] /\ Tail(j)[i + 1] = j[(i + 1) + 1]
      BY <1>3, <3>1
    <3> QED
      BY <1>5, <3>1, <3>2
  <2> QED
    BY <2>1, <2>2, <2>3 DEF WellListed
<1>7. ASSUME Tail(j) # <<>> PROVE Follows(Head(j), Head(Tail(j)))
  <2>1. Len(Tail(j)) > 0 /\ Head(Tail(j)) = Tail(j)[1]
    BY <1>3, <1>7
  <2>2. 1 \in 1 .. Len(j) - 1
    BY <1>1, <1>3, <2>1
  <2>3. Tail(j)[1] = j[1 + 1]
    BY <1>3, <2>2
  <2> QED
    BY <1>2, <1>5, <2>1, <2>2, <2>3
<1>8. Listed(Head(j))
  BY <1>1, <1>2, <1>4
<1> QED
  BY <1>1, <1>2, <1>3, <1>6, <1>7, <1>8

(* What the list of a process uses, the rest of it uses at most. *)
LEMMA UsesFacts ==
  ASSUME NEW j, WellListed(j), j # <<>>
  PROVE  /\ Uses(Tail(j)) \subseteq Uses(j)
         /\ Head(j).space # "count" => Resource(Head(j)) \in Uses(j)
<1>1. /\ Len(j) \in Nat /\ Len(j) > 0 /\ Head(j) = j[1]
      /\ Len(Tail(j)) = Len(j) - 1 /\ \A i \in 1 .. Len(j) - 1 : Tail(j)[i] = j[i + 1]
  BY ListFacts
<1>2. ASSUME NEW r \in Uses(Tail(j)) PROVE r \in Uses(j)
  <2>1. PICK i \in 1 .. Len(Tail(j)) : Tail(j)[i].space # "count" /\ r = Resource(Tail(j)[i])
    BY <1>2 DEF Uses
  <2>2. i + 1 \in 1 .. Len(j) /\ Tail(j)[i] = j[i + 1]
    BY <1>1
  <2> QED
    BY <2>1, <2>2 DEF Uses
<1>3. ASSUME Head(j).space # "count" PROVE Resource(Head(j)) \in Uses(j)
  <2>1. 1 \in 1 .. Len(j)
    BY <1>1
  <2> QED
    BY <1>1, <1>3, <2>1 DEF Uses
<1> QED
  BY <1>2, <1>3

(* The steps of an access. *)
LEMMA StepsOf ==
  ASSUME NEW a, Listed(a)
  PROVE  /\ ~Legal(a) => Steps(a) = <<"refuse">>
         /\ Window(a) => Steps(a) = IF a.write THEN MacWrite ELSE MacRead
         /\ Managed(a) => Steps(a) = IF a.write THEN MdioWrite ELSE MdioRead
         /\ Register(a) => Steps(a) = IF a.write THEN <<"put">> ELSE <<"get">>
         /\ a.space = "count" => Steps(a) = Counter
         /\ ~Legal(a) \/ Window(a) \/ Managed(a) \/ Register(a) \/ a.space = "count"
         /\ Register(a) \/ a.space = "count" => Legal(a)
BY DEF Listed, Steps, Legal, Window, Managed, Register

(* Which step an access is at, from its number. *)
LEMMA StepAt ==
  ASSUME NEW a, Listed(a), NEW n \in 1 .. Len(Steps(a)), NEW step, step = Steps(a)[n]
  PROVE  \/ ~Legal(a) /\ step = "refuse" /\ n = 1 /\ Len(Steps(a)) = 1
         \/ /\ Window(a) /\ a.write /\ Len(Steps(a)) = 3
            /\ \/ n = 1 /\ step = "data"
               \/ n = 2 /\ step = "addr"
               \/ n = 3 /\ step = "sleep"
         \/ /\ Window(a) /\ ~a.write /\ Len(Steps(a)) = 3
            /\ \/ n = 1 /\ step = "addr"
               \/ n = 2 /\ step = "sleep"
               \/ n = 3 /\ step = "fetch"
         \/ /\ Managed(a) /\ a.write /\ Len(Steps(a)) = 2
            /\ \/ n = 1 /\ step = "frame"
               \/ n = 2 /\ step = "rest"
         \/ /\ Managed(a) /\ ~a.write /\ Len(Steps(a)) = 3
            /\ \/ n = 1 /\ step = "frame"
               \/ n = 2 /\ step = "rest"
               \/ n = 3 /\ step = "collect"
         \/ Register(a) /\ a.write /\ n = 1 /\ step = "put" /\ Len(Steps(a)) = 1
         \/ Register(a) /\ ~a.write /\ n = 1 /\ step = "get" /\ Len(Steps(a)) = 1
         \/ /\ a.space = "count" /\ Len(Steps(a)) = 2
            /\ \/ n = 1 /\ step = "high"
               \/ n = 2 /\ step = "low"
<1> DEFINE ss == Steps(a)
<1>1. /\ ~Legal(a) => ss = <<"refuse">>
      /\ Window(a) => ss = IF a.write THEN MacWrite ELSE MacRead
      /\ Managed(a) => ss = IF a.write THEN MdioWrite ELSE MdioRead
      /\ Register(a) => ss = IF a.write THEN <<"put">> ELSE <<"get">>
      /\ a.space = "count" => ss = Counter
      /\ ~Legal(a) \/ Window(a) \/ Managed(a) \/ Register(a) \/ a.space = "count"
  BY StepsOf
<1>2. n \in 1 .. Len(ss) /\ step = ss[n]
  OBVIOUS
<1> HIDE DEF ss
<1>3. CASE ~Legal(a)
  <2>1. Len(ss) = 1 /\ n = 1 /\ step = "refuse"
    BY <1>1, <1>2, <1>3, SMTT(30)
  <2> QED
    BY <1>3, <2>1 DEF ss
<1>4. CASE Window(a)
  <2>1. CASE a.write
    <3>1. Len(ss) = 3 /\ ((n = 1 /\ step = "data") \/ (n = 2 /\ step = "addr") \/ (n = 3 /\ step = "sleep"))
      <4>1. ss = <<"data", "addr", "sleep">>
        BY <1>1, <1>2, <1>4, <2>1 DEF MacWrite
      <4> QED
        BY <1>2, <4>1
    <3> QED
      BY <1>4, <2>1, <3>1 DEF ss
  <2>2. CASE ~a.write
    <3>1. Len(ss) = 3 /\ ((n = 1 /\ step = "addr") \/ (n = 2 /\ step = "sleep") \/ (n = 3 /\ step = "fetch"))
      <4>1. ss = <<"addr", "sleep", "fetch">>
        BY <1>1, <1>2, <1>4, <2>2 DEF MacRead
      <4> QED
        BY <1>2, <4>1
    <3> QED
      BY <1>4, <2>2, <3>1 DEF ss
  <2> QED
    BY <2>1, <2>2
<1>5. CASE Managed(a)
  <2>1. CASE a.write
    <3>1. Len(ss) = 2 /\ ((n = 1 /\ step = "frame") \/ (n = 2 /\ step = "rest"))
      <4>1. ss = <<"frame", "rest">>
        BY <1>1, <1>2, <1>5, <2>1 DEF MdioWrite
      <4> QED
        BY <1>2, <4>1
    <3> QED
      BY <1>5, <2>1, <3>1 DEF ss
  <2>2. CASE ~a.write
    <3>1. Len(ss) = 3 /\ ((n = 1 /\ step = "frame") \/ (n = 2 /\ step = "rest") \/ (n = 3 /\ step = "collect"))
      <4>1. ss = <<"frame", "rest", "collect">>
        BY <1>1, <1>2, <1>5, <2>2 DEF MdioRead
      <4> QED
        BY <1>2, <4>1
    <3> QED
      BY <1>5, <2>2, <3>1 DEF ss
  <2> QED
    BY <2>1, <2>2
<1>6. CASE Register(a)
  <2>1. Len(ss) = 1 /\ n = 1 /\ step = IF a.write THEN "put" ELSE "get"
    BY <1>1, <1>2, <1>6
  <2> QED
    BY <1>6, <2>1 DEF ss
<1>7. CASE a.space = "count"
  <2>1. Len(ss) = 2 /\ ((n = 1 /\ step = "high") \/ (n = 2 /\ step = "low"))
    <3>1. ss = <<"high", "low">>
      BY <1>1, <1>2, <1>7 DEF Counter
    <3> QED
      BY <1>2, <3>1
  <2> QED
    BY <1>7, <2>1 DEF ss
<1> QED
  BY <1>1, <1>3, <1>4, <1>5, <1>6, <1>7

(* Which access a process is at, and where in it. *)
LEMMA AtFacts ==
  ASSUME NEW p, Working(p), job[p] # <<>>
  PROVE  /\ Listed(Cur(p)) /\ at[p] \in 1 .. Len(Steps(Cur(p)))
         /\ \A step : At(p, step) <=> step = Steps(Cur(p))[at[p]]
BY ListFacts DEF At, Working, Cur

(* What a process is at says which access it is at. *)
LEMMA StepFacts ==
  ASSUME NEW p, Working(p), job[p] # <<>>
  PROVE  LET a == Cur(p)
             n == at[p]
             l == Len(Steps(a))
         IN  /\ At(p, "refuse") => ~Legal(a) /\ n = 1 /\ l = 1
             /\ At(p, "data") => Window(a) /\ a.write /\ n = 1 /\ l = 3
             /\ At(p, "addr") => Window(a) /\ l = 3 /\ n = IF a.write THEN 2 ELSE 1
             /\ At(p, "sleep") => Window(a) /\ l = 3 /\ n = IF a.write THEN 3 ELSE 2
             /\ At(p, "fetch") => Window(a) /\ ~a.write /\ n = 3 /\ l = 3
             /\ At(p, "frame") => Managed(a) /\ n = 1 /\ l = IF a.write THEN 2 ELSE 3
             /\ At(p, "rest") => Managed(a) /\ n = 2 /\ l = IF a.write THEN 2 ELSE 3
             /\ At(p, "collect") => Managed(a) /\ ~a.write /\ n = 3 /\ l = 3
             /\ At(p, "put") => Register(a) /\ a.write /\ n = 1 /\ l = 1
             /\ At(p, "get") => Register(a) /\ ~a.write /\ n = 1 /\ l = 1
             /\ At(p, "high") => a.space = "count" /\ n = 1 /\ l = 2
             /\ At(p, "low") => a.space = "count" /\ n = 2 /\ l = 2
<1> DEFINE a == Cur(p)
           n == at[p]
           l == Len(Steps(a))
           step == Steps(a)[n]
<1>1. Listed(a) /\ n \in 1 .. l /\ \A s : At(p, s) <=> s = step
  BY AtFacts
<1>2. step = Steps(a)[n]
  OBVIOUS
<1> HIDE DEF a, n, step
<1>3. \/ ~Legal(a) /\ step = "refuse" /\ n = 1 /\ Len(Steps(a)) = 1
      \/ /\ Window(a) /\ a.write /\ Len(Steps(a)) = 3
         /\ \/ n = 1 /\ step = "data"
            \/ n = 2 /\ step = "addr"
            \/ n = 3 /\ step = "sleep"
      \/ /\ Window(a) /\ ~a.write /\ Len(Steps(a)) = 3
         /\ \/ n = 1 /\ step = "addr"
            \/ n = 2 /\ step = "sleep"
            \/ n = 3 /\ step = "fetch"
      \/ /\ Managed(a) /\ a.write /\ Len(Steps(a)) = 2
         /\ \/ n = 1 /\ step = "frame"
            \/ n = 2 /\ step = "rest"
      \/ /\ Managed(a) /\ ~a.write /\ Len(Steps(a)) = 3
         /\ \/ n = 1 /\ step = "frame"
            \/ n = 2 /\ step = "rest"
            \/ n = 3 /\ step = "collect"
      \/ Register(a) /\ a.write /\ n = 1 /\ step = "put" /\ Len(Steps(a)) = 1
      \/ Register(a) /\ ~a.write /\ n = 1 /\ step = "get" /\ Len(Steps(a)) = 1
      \/ /\ a.space = "count" /\ Len(Steps(a)) = 2
         /\ \/ n = 1 /\ step = "high"
            \/ n = 2 /\ step = "low"
  BY <1>1, <1>2, StepAt
<1> HIDE DEF l
<1> QED
  BY <1>1, <1>3 DEF a, n, l

(* Where the waiting is. *)
LEMMA WaitingSteps ==
  ASSUME NEW a, Listed(a)
  PROVE  /\ Window(a) => Steps(a)[IF a.write THEN 3 ELSE 2] = "sleep"
         /\ Managed(a) => Steps(a)[2] = "rest"
<1>1. ASSUME Window(a) PROVE Steps(a)[IF a.write THEN 3 ELSE 2] = "sleep"
  BY <1>1, StepsOf DEF MacWrite, MacRead
<1>2. ASSUME Managed(a) PROVE Steps(a)[2] = "rest"
  BY <1>2, StepsOf DEF MdioWrite, MdioRead
<1> QED
  BY <1>1, <1>2

(* When a write has landed. *)
LEMMA LandedFacts ==
  ASSUME NEW p, Working(p)
  PROVE  Landed(p) <=>
           /\ job[p] # <<>> /\ Cur(p).write
           /\ \/ Window(Cur(p)) /\ at[p] = 3 /\ ~command[Pair(Cur(p))].busy
              \/ Managed(Cur(p)) /\ at[p] = 2 /\ ~frame[3 - Cur(p).port].busy
<1>1. CASE job[p] = <<>>
  BY <1>1 DEF Landed
<1>2. CASE job[p] # <<>>
  <2>1. /\ At(p, "sleep") => Window(Cur(p)) /\ at[p] = IF Cur(p).write THEN 3 ELSE 2
        /\ At(p, "rest") => Managed(Cur(p)) /\ at[p] = 2
    BY <1>2, StepFacts
  <2>2. /\ Window(Cur(p)) /\ Cur(p).write /\ at[p] = 3 => At(p, "sleep")
        /\ Managed(Cur(p)) /\ at[p] = 2 => At(p, "rest")
    BY <1>2, AtFacts, WaitingSteps
  <2> QED
    BY <1>2, <2>1, <2>2 DEF Landed, Cur
<1> QED
  BY <1>1, <1>2

-----------------------------------------------------------------------------
(* Where the card has the registers. *)

(* The parts of a number in front of a window. *)
LEMMA PortFacts ==
  ASSUME NEW a, Listed(a), Window(a) \/ Managed(a)
  PROVE  a.port \in Ports /\ Pair(a) \in Pairs /\ a.port % 2 \in {0, 1} /\ 3 - a.port \in Ports
<1>1. a.port \in {0, 1, 2, 3}
  BY DEF Listed, Window, Managed, Legal
<1> QED
  BY <1>1 DEF Ports, Pairs, Pair

(* A register behind a window is at its address. *)
LEMMA HomeFacts ==
  ASSUME NEW a, Listed(a), Window(a)
  PROVE  /\ Home(a) \in Homes /\ Held(PlaceOf(a)) = core[Home(a)]
         /\ a.space = "mac" => a.reg \in MacRegs /\ Home(a) = MacHome(a.port, a.reg)
         /\ a.space = "pcs" => a.reg \in PcsRegs /\ Home(a) = PcsHome(a.port, a.reg)
<1>1. a.port \in Ports /\ a.port % 2 \in {0, 1}
  BY PortFacts
<1>2. PlaceOf(a) \in Places
  BY DEF Listed, Window
<1>3. CASE a.space = "mac"
  <2>1. a.reg \in MacRegs
    BY <1>2, <1>3 DEF Places, PlaceOf
  <2>2. Home(a) = MacHome(a.port, a.reg)
    BY <1>1, <1>3, <2>1, RegsAssumption DEF Home, Address, Pair, MacHome
  <2> QED
    BY <1>1, <1>3, <2>1, <2>2 DEF Homes, Held, PlaceOf
<1>4. CASE a.space = "pcs"
  <2>1. a.reg \in PcsRegs
    BY <1>2, <1>4 DEF Places, PlaceOf
  <2>2. Home(a) = PcsHome(a.port, a.reg)
    BY <1>1, <1>4, <2>1, RegsAssumption DEF Home, Address, Pair, PcsHome
  <2> QED
    BY <1>1, <1>4, <2>1, <2>2 DEF Homes, Held, PlaceOf
<1> QED
  BY <1>3, <1>4 DEF Window

(* The registers of MACs and PCSs do not share an address. *)
LEMMA HomesApart ==
  ASSUME PlacesApart,
         NEW p \in Ports, NEW q \in Ports
  PROVE  /\ \A r \in MacRegs, s \in MacRegs : MacHome(p, r) = MacHome(q, s) => p = q /\ r = s
         /\ \A r \in PcsRegs, s \in PcsRegs : PcsHome(p, r) = PcsHome(q, s) => p = q /\ r = s
         /\ \A r \in MacRegs, s \in PcsRegs : MacHome(p, r) # PcsHome(q, s)
<1>1. \A r \in MacRegs : r \in 0 .. 1023 /\ r \notin 32 .. 95
  BY RegsAssumption DEF PlacesApart
<1>2. \A r \in PcsRegs : r \in 0 .. 31
  BY RegsAssumption
<1>3. /\ p \in {0, 1, 2, 3} /\ q \in {0, 1, 2, 3}
      /\ p \div 2 = (IF p \in {0, 1} THEN 0 ELSE 1) /\ p % 2 = (IF p \in {0, 2} THEN 0 ELSE 1)
      /\ q \div 2 = (IF q \in {0, 1} THEN 0 ELSE 1) /\ q % 2 = (IF q \in {0, 2} THEN 0 ELSE 1)
  BY DEF Ports
<1>4. ASSUME NEW r \in MacRegs, NEW s \in MacRegs, MacHome(p, r) = MacHome(q, s)
      PROVE  p = q /\ r = s
  <2>1. p \div 2 = q \div 2 /\ 1024 * (p % 2) + r = 1024 * (q % 2) + s
    BY <1>4 DEF MacHome
  <2>2. \A m, n \in {0, 1}, i, k \in 0 .. 1023 : 1024 * m + i = 1024 * n + k => m = n /\ i = k
    BY SMTT(30)
  <2>3. p % 2 \in {0, 1} /\ q % 2 \in {0, 1} /\ r \in 0 .. 1023 /\ s \in 0 .. 1023
    BY <1>1, <1>3
  <2>4. p % 2 = q % 2 /\ r = s
    <3> DEFINE m == p % 2
               n == q % 2
    <3>1. m \in {0, 1} /\ n \in {0, 1} /\ 1024 * m + r = 1024 * n + s
      BY <2>1, <2>3
    <3> HIDE DEF m, n
    <3>2. m = n /\ r = s
      BY <2>2, <2>3, <3>1, SMTT(30)
    <3> QED
      BY <3>2 DEF m, n
  <2> QED
    BY <1>3, <2>1, <2>4
<1>5. ASSUME NEW r \in PcsRegs, NEW s \in PcsRegs, PcsHome(p, r) = PcsHome(q, s)
      PROVE  p = q /\ r = s
  <2>1. /\ p \div 2 = q \div 2
        /\ (IF p % 2 = 1 THEN 32 + r ELSE 1024 + 64 + r) = IF q % 2 = 1 THEN 32 + s ELSE 1024 + 64 + s
    BY <1>5 DEF PcsHome
  <2> QED
    BY <1>2, <1>3, <2>1
<1>6. ASSUME NEW r \in MacRegs, NEW s \in PcsRegs, MacHome(p, r) = PcsHome(q, s)
      PROVE  FALSE
  <2>1. /\ p \div 2 = q \div 2
        /\ 1024 * (p % 2) + r = IF q % 2 = 1 THEN 32 + s ELSE 1024 + 64 + s
    BY <1>6 DEF MacHome, PcsHome
  <2>2. \A m, n \in {0, 1}, i \in 0 .. 1023, k \in 0 .. 31 :
          1024 * m + i = (IF n = 1 THEN 32 + k ELSE 1024 + 64 + k) => i \in 32 .. 95
    OBVIOUS
  <2>3. p % 2 \in {0, 1} /\ q % 2 \in {0, 1} /\ r \in 0 .. 1023 /\ s \in 0 .. 31
    BY <1>1, <1>2, <1>3
  <2> DEFINE m == p % 2
             n == q % 2
  <2>4. /\ m \in {0, 1} /\ n \in {0, 1}
        /\ 1024 * m + r = IF n = 1 THEN 32 + s ELSE 1024 + 64 + s
    BY <2>1, <2>3
  <2> HIDE DEF m, n
  <2> QED
    BY <1>1, <2>2, <2>3, <2>4
<1> QED
  BY <1>4, <1>5, <1>6

(* A register of a PHY is behind the bus of its port. *)
LEMMA PhyFacts ==
  ASSUME NEW a, Listed(a), Managed(a)
  PROVE  /\ a.reg \in PhyRegs /\ <<3 - a.port, a.reg>> \in Ports \X PhyRegs
         /\ Held(PlaceOf(a)) = phy[<<3 - a.port, a.reg>>]
<1>1. a.port \in Ports /\ 3 - a.port \in Ports
  BY PortFacts
<1>2. a.reg \in PhyRegs
  BY DEF Listed, Managed, Places, PlaceOf
<1> QED
  BY <1>1, <1>2 DEF Held, PlaceOf, PhyHome, Managed

(* A plain register. *)
LEMMA PlainFacts ==
  ASSUME NEW a, Listed(a), Register(a)
  PROVE  a.reg \in PlainRegs /\ Held(PlaceOf(a)) = plain[a.reg] /\ PlaceOf(a) = <<"reg", 0, a.reg>>
<1>1. PlaceOf(a) \in Places
  BY DEF Listed, Register, Legal
<1>2. a.reg \in PlainRegs /\ a.port = 0
  BY <1>1 DEF Places, PlaceOf, Register
<1> QED
  BY <1>2 DEF Held, PlaceOf, Register

-----------------------------------------------------------------------------
(* What goes on elsewhere. *)

PairSame(x) ==
  /\ data'[x] = data[x] /\ command'[x] = command[x]
  /\ \A h \in Homes : h[1] = x => core'[h] = core[h]

BusSame(y) ==
  /\ frame'[y] = frame[y] /\ mdio'[y] = mdio[y]
  /\ \A r \in PhyRegs : phy'[<<y, r>>] = phy[<<y, r>>]

(* A step that goes to one resource of the card at most, or to the traffic. *)
Elsewhere(r) ==
  /\ \A x \in Pairs : r # <<"pair", x>> => PairSame(x)
  /\ \A y \in Ports : r # <<"mdio", 3 - y>> => BusSame(y)
  /\ \A x \in PlainRegs : r # <<"reg", x>> => plain'[x] = plain[x]
  /\ count' \in Nat /\ count \div Half <= count' \div Half

(* A process that does nothing. *)
Still(q) == /\ job'[q] = job[q] /\ at'[q] = at[q]
            /\ tmp'[q] = tmp[q] /\ halves'[q] = halves[q]

(* The card's part of an access a process is at is as it was, when the step goes
   to another resource. *)
LEMMA SameForAccess ==
  ASSUME NEW r, Elsewhere(r), NEW a, Listed(a), a.space # "count" => Resource(a) # r
  PROVE  /\ Window(a) => PairSame(Pair(a)) /\ core'[Home(a)] = core[Home(a)]
         /\ Managed(a) => /\ BusSame(3 - a.port)
                          /\ phy'[<<3 - a.port, a.reg>>] = phy[<<3 - a.port, a.reg>>]
         /\ Legal(a) /\ a.space # "count" => Held(PlaceOf(a))' = Held(PlaceOf(a))
<1>1. CASE Window(a)
  <2>1. Pair(a) \in Pairs /\ Resource(a) = <<"pair", Pair(a)>>
    BY <1>1, PortFacts DEF Resource, Window
  <2>2. PairSame(Pair(a))
    BY <1>1, <2>1 DEF Elsewhere, Window
  <2>3. Home(a) \in Homes /\ Home(a)[1] = Pair(a)
    BY <1>1, HomeFacts DEF Home
  <2>4. core'[Home(a)] = core[Home(a)]
    BY <2>2, <2>3 DEF PairSame
  <2>5. Held(PlaceOf(a)) = core[Home(a)] /\ Held(PlaceOf(a))' = core'[Home(a)]
    <3>1. Held(PlaceOf(a)) = core[Home(a)]
      BY <1>1, HomeFacts
    <3>2. \/ a.space = "mac" /\ Home(a) = MacHome(a.port, a.reg)
          \/ a.space = "pcs" /\ Home(a) = PcsHome(a.port, a.reg)
      BY <1>1, HomeFacts DEF Window
    <3> QED
      BY <3>1, <3>2 DEF Held, PlaceOf
  <2> QED
    BY <1>1, <2>2, <2>4, <2>5 DEF Window, Managed
<1>2. CASE Managed(a)
  <2>1. 3 - a.port \in Ports /\ a.port \in Ports /\ Resource(a) = <<"mdio", a.port>>
    BY <1>2, PortFacts DEF Resource, Managed
  <2>2. 3 - (3 - a.port) = a.port
    BY <2>1 DEF Ports
  <2>3. BusSame(3 - a.port)
    BY <1>2, <2>1, <2>2 DEF Elsewhere, Managed
  <2>4. phy'[<<3 - a.port, a.reg>>] = phy[<<3 - a.port, a.reg>>]
    BY <1>2, <2>3, PhyFacts DEF BusSame
  <2>5. Held(PlaceOf(a))' = Held(PlaceOf(a))
    BY <1>2, <2>4 DEF Held, PlaceOf, PhyHome, Managed
  <2> QED
    BY <1>2, <2>3, <2>4, <2>5 DEF Window, Managed
<1>3. CASE Register(a)
  <2>1. plain'[a.reg] = plain[a.reg]
    BY <1>3, PlainFacts DEF Elsewhere, Register, Resource
  <2> QED
    BY <1>3, <2>1 DEF Held, PlaceOf, Register, Window, Managed
<1>4. CASE ~Legal(a) \/ a.space = "count"
  BY <1>4 DEF Window, Managed
<1> QED
  BY <1>1, <1>2, <1>3, <1>4, StepsOf

(* A process that does nothing is where it was, and its write has landed if it
   had before. *)
LEMMA Undisturbed ==
  ASSUME NEW r, Elsewhere(r), NEW q, Still(q), Working(q), AccessAt(q),
         count \in Nat, halves[q].high \in Nat,
         job[q] # <<>> /\ Cur(q).space # "count" => Resource(Cur(q)) # r
  PROVE  Working(q)' /\ AccessAt(q)' /\ (Landed(q)' <=> Landed(q))
<1>1. Working(q)'
  BY DEF Still, Working, Cur
<1>2. CASE job[q] = <<>>
  BY <1>1, <1>2 DEF Still, AccessAt, Landed
<1>3. CASE job[q] # <<>>
  <2>0. PICK a : a = Cur(q)
    OBVIOUS
  <2>1. Listed(a) /\ Cur(q)' = a /\ job'[q] = job[q] /\ at'[q] = at[q]
    BY <1>3, <2>0, AtFacts DEF Still, Cur
  <2>2. /\ Window(a) => PairSame(Pair(a)) /\ core'[Home(a)] = core[Home(a)]
        /\ Managed(a) => /\ BusSame(3 - a.port)
                         /\ phy'[<<3 - a.port, a.reg>>] = phy[<<3 - a.port, a.reg>>]
        /\ Legal(a) /\ a.space # "count" => Held(PlaceOf(a))' = Held(PlaceOf(a))
    BY <1>3, <2>0, <2>1, SameForAccess
  <2>3. Value(q)' = Value(q) /\ Frame(q)' = Frame(q)
    BY DEF Still, Value, Frame
  <2>4. Landed(q)' <=> Landed(q)
    <3>1. \A s : At(q, s)' <=> At(q, s)
      BY DEF Still, At
    <3>2. At(q, "sleep") => Window(a)
      BY <1>3, <2>0, StepFacts
    <3>3. At(q, "rest") => Managed(a)
      BY <1>3, <2>0, StepFacts
    <3> QED
      BY <1>3, <2>0, <2>1, <2>2, <3>1, <3>2, <3>3 DEF Landed, Cur, PairSame, BusSame
  <2>5. AccessAt(q)'
    <3>1. /\ Window(a) => WindowAt(q, a, Pair(a))
          /\ Managed(a) => ManagedAt(q, a, 3 - a.port)
          /\ KeptOf(q, a)
          /\ a.space = "count" /\ at[q] = 2 => halves[q].high <= count \div Half
      BY <1>3, <2>0 DEF AccessAt
    <3>2. ASSUME Window(a) PROVE WindowAt(q, a, Pair(a))'
      BY <2>1, <2>2, <2>3, <3>1, <3>2 DEF WindowAt, PairSame
    <3>3. ASSUME Managed(a) PROVE ManagedAt(q, a, 3 - a.port)'
      BY <2>1, <2>2, <2>3, <3>1, <3>3 DEF ManagedAt, BusSame
    <3>4. KeptOf(q, a)'
      BY <2>1, <2>2, <2>4, <3>1 DEF KeptOf, Still
    <3>5. a.space = "count" /\ at[q] = 2 => halves'[q].high <= count' \div Half
      <4>1. halves'[q] = halves[q] /\ count \div Half <= count' \div Half
        BY DEF Still, Elsewhere
      <4>2. count \div Half \in Int /\ count' \div Half \in Int
        BY RegsAssumption DEF Elsewhere
      <4> QED
        BY <3>1, <4>1, <4>2
    <3> QED
      BY <2>1, <3>2, <3>3, <3>4, <3>5 DEF AccessAt
  <2> QED
    BY <1>1, <2>4, <2>5
<1> QED
  BY <1>2, <1>3

-----------------------------------------------------------------------------
(* What the steps of a process have in common. *)

(* The card is not waited for any more. *)
Waited(p) ==
  job[p] # <<>> => /\ At(p, "sleep") => ~command[Pair(Cur(p))].busy
                   /\ At(p, "rest") => ~frame[3 - Cur(p).port].busy

(* Every access has a step. *)
LEMMA HasSteps ==
  ASSUME NEW a, Listed(a)
  PROVE  Len(Steps(a)) \in Nat /\ 1 \in 1 .. Len(Steps(a))
<1>1. \/ Steps(a) = <<"refuse">>
      \/ Steps(a) = <<"data", "addr", "sleep">>
      \/ Steps(a) = <<"addr", "sleep", "fetch">>
      \/ Steps(a) = <<"frame", "rest">>
      \/ Steps(a) = <<"frame", "rest", "collect">>
      \/ Steps(a) = <<"put">>
      \/ Steps(a) = <<"get">>
      \/ Steps(a) = <<"high", "low">>
  BY StepsOf, Zenon DEF MacWrite, MacRead, MdioWrite, MdioRead, Counter
<1>2. Len(Steps(a)) \in {1, 2, 3}
  BY <1>1
<1> QED
  BY <1>2

(* To the next step of the access, or to the next access. *)
LEMMA Moving ==
  ASSUME RegsInv, NEW p \in Procs, job[p] # <<>>, Advance(p)
  PROVE  /\ job' = [q \in Procs |-> job'[q]] /\ at' \in [Procs -> Nat]
         /\ \A q \in Procs : q # p => job'[q] = job[q] /\ at'[q] = at[q]
         /\ at[p] < Len(Steps(Cur(p))) => job'[p] = job[p] /\ at'[p] = at[p] + 1
         /\ ~(at[p] < Len(Steps(Cur(p)))) => job'[p] = Tail(job[p]) /\ at'[p] = 1
         /\ Working(p)' /\ Apart'
<1>1. /\ job = [q \in Procs |-> job[q]] /\ at \in [Procs -> Nat]
      /\ WellListed(job[p]) /\ at[p] \in 1 .. Len(Steps(Cur(p))) /\ Listed(Cur(p))
  BY AtFacts DEF RegsInv, RegsType, Working
<1>2. Len(Steps(Cur(p))) \in Nat
  BY <1>1, HasSteps
<1>3. CASE at[p] < Len(Steps(Cur(p)))
  <2>1. at' = [at EXCEPT ![p] = at[p] + 1] /\ job' = job
    BY <1>3 DEF Advance, Cur
  <2>2. at'[p] \in 1 .. Len(Steps(Cur(p)))
    BY <1>1, <1>2, <1>3, <2>1
  <2>3. Working(p)'
    BY <1>1, <2>1, <2>2 DEF Working, Cur
  <2>4. Apart'
    BY <2>1 DEF Apart, RegsInv
  <2> QED
    BY <1>1, <1>3, <2>1, <2>3, <2>4
<1>4. CASE ~(at[p] < Len(Steps(Cur(p))))
  <2>1. at' = [at EXCEPT ![p] = 1] /\ job' = [job EXCEPT ![p] = Tail(job[p])]
    BY <1>4 DEF Advance, Cur
  <2>2. at'[p] = 1 /\ job'[p] = Tail(job[p]) /\ \A q \in Procs : q # p => job'[q] = job[q]
    BY <1>1, <2>1
  <2>3. WellListed(Tail(job[p])) /\ Uses(Tail(job[p])) \subseteq Uses(job[p])
    BY <1>1, ListFacts, UsesFacts
  <2>4. ASSUME Tail(job[p]) # <<>> PROVE 1 \in 1 .. Len(Steps(Head(Tail(job[p]))))
    BY <2>3, <2>4, ListFacts, HasSteps
  <2>5. Working(p)'
    BY <2>2, <2>3, <2>4 DEF Working, Cur
  <2>6. Apart'
    BY <2>2, <2>3 DEF Apart, RegsInv
  <2> QED
    BY <1>1, <1>4, <2>1, <2>2, <2>5, <2>6
<1> QED
  BY <1>3, <1>4

(* At the first step of an access the card has nothing to do for anybody who
   uses the same. *)
LEMMA FirstStep ==
  ASSUME RegsInv, NEW p \in Procs, NEW j, WellListed(j), job'[p] = j, at'[p] = 1,
         \A q \in Procs : q # p => Uses(j) \cap Uses(job[q]) = {},
         command' = command, frame' = frame, Waited(p),
         ASSUME j # <<>>, Legal(Head(j)), Head(j).space # "count", Head(j).write, Head(j).keep # {}
         PROVE  tmp'[p] = Held(PlaceOf(Head(j)))'
  PROVE  AccessAt(p)'
<1> SUFFICES ASSUME j # <<>> PROVE AccessAt(p)'
  BY DEF AccessAt
<1>1. PICK a : a = Head(j)
  OBVIOUS
<1>2. Cur(p)' = a /\ job'[p] # <<>> /\ Listed(a) /\ (a.space # "count" => Resource(a) \in Uses(j))
  BY <1>1, ListFacts, UsesFacts DEF Cur
<1>3. ASSUME Window(a) PROVE WindowAt(p, a, Pair(a))'
  <2>1. Pair(a) \in Pairs /\ Resource(a) = <<"pair", Pair(a)>> /\ a.space # "count"
    BY <1>2, <1>3, PortFacts DEF Resource, Window
  <2>2. ~command[Pair(a)].busy
    <3> SUFFICES ASSUME command[Pair(a)].busy PROVE FALSE
      OBVIOUS
    <3>1. PICK q \in Procs : /\ job[q] # <<>> /\ Window(Cur(q)) /\ Pair(Cur(q)) = Pair(a)
                             /\ At(q, "sleep")
      BY <2>1 DEF RegsInv, PairsServed
    <3>2. q # p
      BY <3>1 DEF Waited
    <3>3. Resource(Cur(q)) = <<"pair", Pair(a)>> /\ Cur(q).space # "count"
      BY <3>1 DEF Resource, Window
    <3>4. Resource(Cur(q)) \in Uses(job[q])
      BY <3>1, <3>3, UsesFacts DEF RegsInv, Working, Cur
    <3> QED
      BY <1>2, <2>1, <3>2, <3>3, <3>4
  <2> QED
    BY <2>2 DEF WindowAt
<1>4. ASSUME Managed(a) PROVE ManagedAt(p, a, 3 - a.port)'
  <2>1. a.port \in Ports /\ 3 - a.port \in Ports /\ Resource(a) = <<"mdio", a.port>> /\ a.space # "count"
    BY <1>2, <1>4, PortFacts DEF Resource, Managed
  <2>2. ~frame[3 - a.port].busy
    <3> SUFFICES ASSUME frame[3 - a.port].busy PROVE FALSE
      OBVIOUS
    <3>1. PICK q \in Procs : /\ job[q] # <<>> /\ Managed(Cur(q)) /\ 3 - Cur(q).port = 3 - a.port
                             /\ At(q, "rest")
      BY <2>1 DEF RegsInv, BusesServed
    <3>2. q # p
      BY <3>1 DEF Waited
    <3>3. Listed(Cur(q))
      BY <3>1, AtFacts DEF RegsInv
    <3>4. Cur(q).port \in Ports
      BY <3>1, <3>3, PortFacts
    <3>5. Cur(q).port = a.port
      BY <2>1, <3>1, <3>4 DEF Ports
    <3>6. Resource(Cur(q)) = <<"mdio", a.port>> /\ Cur(q).space # "count"
      BY <3>1, <3>5 DEF Resource, Managed
    <3>7. Resource(Cur(q)) \in Uses(job[q])
      BY <3>1, <3>6, UsesFacts DEF RegsInv, Working, Cur
    <3> QED
      BY <1>2, <2>1, <3>2, <3>6, <3>7
  <2> QED
    BY <2>2 DEF ManagedAt
<1>5. KeptOf(p, a)'
  BY <1>1 DEF KeptOf
<1> QED
  BY <1>2, <1>3, <1>4, <1>5 DEF AccessAt

(* The last step of an access leaves the process at the first step of the next. *)
LEMMA NextAccess ==
  ASSUME RegsInv, NEW p \in Procs, job[p] # <<>>, job'[p] = Tail(job[p]), at'[p] = 1,
         command' = command, frame' = frame, Waited(p),
         NEW a, a = Cur(p),
         \/ a.write \/ ~Legal(a) \/ a.space = "count" \/ tmp'[p] = Held(PlaceOf(a))'
  PROVE  AccessAt(p)'
<1>1. WellListed(job[p])
  BY DEF RegsInv, Working
<1>2. WellListed(Tail(job[p])) /\ Uses(Tail(job[p])) \subseteq Uses(job[p])
  BY <1>1, ListFacts, UsesFacts
<1>3. \A q \in Procs : q # p => Uses(Tail(job[p])) \cap Uses(job[q]) = {}
  BY <1>2 DEF RegsInv, Apart
<1>4. PICK j : j = Tail(job[p])
  OBVIOUS
<1>5. ASSUME j # <<>>, Legal(Head(j)), Head(j).space # "count", Head(j).write, Head(j).keep # {}
      PROVE  tmp'[p] = Held(PlaceOf(Head(j)))'
  <2>1. PICK b : b = Head(j)
    OBVIOUS
  <2>2. ~a.write /\ PlaceOf(a) = PlaceOf(b)
    BY <1>1, <1>4, <1>5, <2>1, ListFacts DEF Follows, Cur
  <2>3. a.space = b.space /\ a.port = b.port /\ a.reg = b.reg
    BY <2>2 DEF PlaceOf
  <2>4. Legal(a) /\ a.space # "count"
    BY <1>5, <2>1, <2>3 DEF Legal
  <2>5. tmp'[p] = Held(PlaceOf(a))'
    BY <2>2, <2>4
  <2> QED
    BY <2>1, <2>2, <2>5
<1> QED
  BY <1>2, <1>3, <1>4, <1>5, FirstStep

(* What the card is busy with is waited for, if nothing begins but what the
   process waits for from now on. *)
LEMMA StillServed ==
  ASSUME RegsInv, NEW p \in Procs, Waited(p),
         \A q \in Procs : q # p => job'[q] = job[q] /\ at'[q] = at[q],
         \A x \in Pairs : command'[x] # command[x] =>
           job'[p] # <<>> /\ Window(Cur(p)') /\ Pair(Cur(p)') = x /\ At(p, "sleep")',
         \A x \in Ports : frame'[x] # frame[x] =>
           job'[p] # <<>> /\ Managed(Cur(p)') /\ 3 - Cur(p)'.port = x /\ At(p, "rest")'
  PROVE  PairsServed' /\ BusesServed'
<1>1. \A q \in Procs : \A s : q # p => (At(q, s)' <=> At(q, s)) /\ Cur(q)' = Cur(q) /\ job'[q] = job[q]
  BY DEF At, Cur
<1>2. ASSUME NEW x \in Pairs, command'[x].busy
      PROVE  \E q \in Procs : /\ job'[q] # <<>> /\ Window(Cur(q)') /\ Pair(Cur(q)') = x
                              /\ At(q, "sleep")'
  <2>1. CASE command'[x] # command[x]
    BY <2>1
  <2>2. CASE command'[x] = command[x]
    <3>1. PICK q \in Procs : /\ job[q] # <<>> /\ Window(Cur(q)) /\ Pair(Cur(q)) = x
                             /\ At(q, "sleep")
      BY <1>2, <2>2 DEF RegsInv, PairsServed
    <3>2. q # p
      BY <1>2, <2>2, <3>1 DEF Waited
    <3> QED
      BY <1>1, <3>1, <3>2
  <2> QED
    BY <2>1, <2>2
<1>3. ASSUME NEW x \in Ports, frame'[x].busy
      PROVE  \E q \in Procs : /\ job'[q] # <<>> /\ Managed(Cur(q)') /\ 3 - Cur(q)'.port = x
                              /\ At(q, "rest")'
  <2>1. CASE frame'[x] # frame[x]
    BY <2>1
  <2>2. CASE frame'[x] = frame[x]
    <3>1. PICK q \in Procs : /\ job[q] # <<>> /\ Managed(Cur(q)) /\ 3 - Cur(q).port = x
                             /\ At(q, "rest")
      BY <1>3, <2>2 DEF RegsInv, BusesServed
    <3>2. q # p
      BY <1>3, <2>2, <3>1 DEF Waited
    <3> QED
      BY <1>1, <3>1, <3>2
  <2> QED
    BY <2>1, <2>2
<1> QED
  BY <1>2, <1>3 DEF PairsServed, BusesServed

(* A step of a process leaves everybody else where they were. *)
LEMMA OthersStay ==
  ASSUME RegsInv, NEW p \in Procs, NEW r, Elsewhere(r),
         \A q \in Procs : q # p => Still(q),
         r = <<"none", 0>> \/ r \in Uses(job[p])
  PROVE  \A q \in Procs : q # p => Working(q)' /\ AccessAt(q)' /\ (Landed(q)' <=> Landed(q))
<1> SUFFICES ASSUME NEW q \in Procs, q # p
             PROVE  Working(q)' /\ AccessAt(q)' /\ (Landed(q)' <=> Landed(q))
  OBVIOUS
<1>1. ASSUME job[q] # <<>>, Cur(q).space # "count" PROVE Resource(Cur(q)) # r
  <2>1. Resource(Cur(q)) \in Uses(job[q])
    BY <1>1, UsesFacts DEF RegsInv, Working, Cur
  <2>2. Uses(job[q]) \cap Uses(job[p]) = {}
    BY DEF RegsInv, Apart
  <2>3. Resource(Cur(q)) # <<"none", 0>>
    <3>1. Listed(Cur(q))
      BY <1>1, AtFacts DEF RegsInv
    <3> QED
      BY <1>1, <3>1 DEF Listed, Resource
  <2> QED
    BY <2>1, <2>2, <2>3
<1>2. Working(q) /\ AccessAt(q) /\ Still(q) /\ count \in Nat /\ halves[q].high \in Nat
  BY DEF RegsInv, RegsType
<1> QED
  BY <1>1, <1>2, Undisturbed

(* A step of a process that leaves the card alone. *)
LEMMA CardAlone ==
  ASSUME RegsInv, UNCHANGED card
  PROVE  Elsewhere(<<"none", 0>>)
<1>1. count' \in Nat /\ count' \div Half = count \div Half /\ count \div Half \in Int
  BY RegsAssumption DEF RegsInv, RegsType, card
<1> QED
  BY <1>1 DEF card, Elsewhere, PairSame, BusSame

(* The invariant after a step of a process. *)
LEMMA ProcessStep ==
  ASSUME RegsInv, NEW p \in Procs, job[p] # <<>>, Advance(p), NEW r, Elsewhere(r),
         \A q \in Procs : q # p => tmp'[q] = tmp[q] /\ halves'[q] = halves[q],
         r = <<"none", 0>> \/ r \in Uses(job[p]),
         core' \in [Homes -> SUBSET AllOnes], phy' \in [Ports \X PhyRegs -> SUBSET Low16],
         plain' \in [PlainRegs -> SUBSET AllOnes], data' \in [Pairs -> SUBSET AllOnes],
         mdio' \in [Ports -> SUBSET Low16], command' = [x \in Pairs |-> command'[x]],
         frame' = [x \in Ports |-> frame'[x]], tmp' \in [Procs -> SUBSET AllOnes],
         count' \in Nat, halves' \in [Procs -> [high : Nat, low : Nat]],
         total' = [q \in Procs |-> total'[q]],
         AccessAt(p)', PairsServed', BusesServed'
  PROVE  RegsInv' /\ \A q \in Procs : q # p => (Landed(q)' <=> Landed(q))
<1>1. /\ job' = [q \in Procs |-> job'[q]] /\ at' \in [Procs -> Nat]
      /\ \A q \in Procs : q # p => job'[q] = job[q] /\ at'[q] = at[q]
      /\ Working(p)' /\ Apart'
  BY Moving
<1>2. \A q \in Procs : q # p => Still(q)
  BY <1>1 DEF Still
<1>3. \A q \in Procs : q # p => Working(q)' /\ AccessAt(q)' /\ (Landed(q)' <=> Landed(q))
  BY <1>2, OthersStay
<1>4. RegsType'
  BY <1>1 DEF RegsType
<1> QED
  BY <1>1, <1>3, <1>4 DEF RegsInv

-----------------------------------------------------------------------------
(* What the steps are to the register file. *)

Regs == [q \in Places |-> Held(q)]
Todo == [p \in Procs |-> IF Landed(p) THEN Tail(job[p]) ELSE job[p]]
FileStep == [File!Next]_<<Regs, Todo, tmp>>

(* The register has what the process writes, and the process is not done. *)
Lands(p) ==
  /\ job[p] # <<>> /\ Cur(p).write
  /\ \/ Window(Cur(p)) /\ at[p] = 3 /\ ~command[Pair(Cur(p))].busy
     \/ Managed(Cur(p)) /\ at[p] = 2 /\ ~frame[3 - Cur(p).port].busy

(* When a write has landed, before and after a step. *)
LEMMA LandedNow == \A p : Working(p) => (Landed(p) <=> Lands(p))
BY LandedFacts DEF Lands

(* The same after it. *)
LEMMA LandedThen == \A p : Working(p)' => (Landed(p)' <=> Lands(p)')
<1>1. (\A p : Working(p) => (Landed(p) <=> Lands(p)))'
  BY LandedNow, PTL
<1> QED
  BY <1>1

(* A step of one process moves its list only. *)
LEMMA TodoStep ==
  ASSUME NEW p \in Procs, RegsInv,
         \A q \in Procs : q # p => (Landed(q)' <=> Landed(q)) /\ job'[q] = job[q]
  PROVE  /\ Todo' = [Todo EXCEPT ![p] = IF Landed(p)' THEN Tail(job'[p]) ELSE job'[p]]
         /\ Todo[p] = IF Landed(p) THEN Tail(job[p]) ELSE job[p]
BY DEF Todo

(* Nothing changes for the register file. *)
LEMMA FileRests ==
  ASSUME NEW p \in Procs, RegsInv,
         \A q \in Procs : q # p => (Landed(q)' <=> Landed(q)) /\ job'[q] = job[q],
         core' = core, phy' = phy, plain' = plain, tmp' = tmp,
         (IF Landed(p)' THEN Tail(job'[p]) ELSE job'[p]) = IF Landed(p) THEN Tail(job[p]) ELSE job[p]
  PROVE  FileStep
<1>1. Todo' = Todo
  BY TodoStep DEF Todo
<1>2. Regs' = Regs
  BY DEF Regs, Held
<1> QED
  BY <1>1, <1>2 DEF FileStep

(* A read answers what the register holds. *)
LEMMA FileReads ==
  ASSUME NEW p \in Procs, RegsInv, job[p] # <<>>,
         \A q \in Procs : q # p => (Landed(q)' <=> Landed(q)) /\ job'[q] = job[q],
         core' = core, phy' = phy, plain' = plain,
         ~Cur(p).write, PlaceOf(Cur(p)) \in Places,
         ~Landed(p), ~Landed(p)', job'[p] = Tail(job[p]),
         tmp' = [tmp EXCEPT ![p] = Held(PlaceOf(Cur(p)))]
  PROVE  FileStep
<1>1. Todo' = [Todo EXCEPT ![p] = Tail(Todo[p])] /\ Todo[p] = job[p]
  <2>1. /\ Todo' = [Todo EXCEPT ![p] = IF Landed(p)' THEN Tail(job'[p]) ELSE job'[p]]
        /\ Todo[p] = IF Landed(p) THEN Tail(job[p]) ELSE job[p]
    BY TodoStep
  <2> HIDE DEF Todo
  <2> QED
    BY <2>1
<1>2. Regs' = Regs /\ Regs[PlaceOf(Cur(p))] = Held(PlaceOf(Cur(p)))
  <2>1. Regs' = Regs
    BY DEF Regs, Held
  <2>2. Regs[PlaceOf(Cur(p))] = Held(PlaceOf(Cur(p)))
    BY DEF Regs
  <2> QED
    BY <2>1, <2>2
<1>3. File!Read(p)
  <2>1. File!PlaceOf(Head(Todo[p])) = PlaceOf(Cur(p)) /\ Head(Todo[p]) = Cur(p)
    BY <1>1 DEF File!PlaceOf, PlaceOf, Cur
  <2> QED
    BY <1>1, <1>2, <2>1 DEF File!Read, File!Take, Regs, Todo
<1> QED
  BY <1>3 DEF FileStep, File!Next

(* A write changes its register, to bits of what it held and bits of its own. *)
LEMMA FileWrites ==
  ASSUME NEW p \in Procs, RegsInv, job[p] # <<>>,
         Cur(p).write, PlaceOf(Cur(p)) \in Places, tmp' = tmp,
         Todo[p] = job[p], Todo' = [Todo EXCEPT ![p] = Tail(Todo[p])],
         Regs' = [Regs EXCEPT ![PlaceOf(Cur(p))] = Value(p)],
         Cur(p).keep # {} => tmp[p] = Held(PlaceOf(Cur(p)))
  PROVE  FileStep
<1>1. Regs[PlaceOf(Cur(p))] = Held(PlaceOf(Cur(p)))
  BY DEF Regs
<1>2. Value(p) = (Regs[PlaceOf(Cur(p))] \cap Cur(p).keep) \cup Cur(p).set
  BY <1>1 DEF Value, Cur
<1>3. File!Write(p)
  <2>1. File!PlaceOf(Head(Todo[p])) = PlaceOf(Cur(p)) /\ Head(Todo[p]) = Cur(p)
    BY DEF File!PlaceOf, PlaceOf, Cur
  <2>2. Regs' = [Regs EXCEPT ![PlaceOf(Cur(p))] = (Regs[PlaceOf(Cur(p))] \cap Cur(p).keep) \cup Cur(p).set]
    BY <1>2
  <2> HIDE DEF Regs, Todo
  <2> QED
    BY <2>1, <2>2 DEF File!Write, File!Take, Regs, Todo
<1> QED
  BY <1>3 DEF FileStep, File!Next

-----------------------------------------------------------------------------
(* The steps of a process. *)

(* What is known at a step. *)
LEMMA AtAStep ==
  ASSUME RegsInv, NEW p \in Procs, NEW s, At(p, s)
  PROVE  /\ job[p] # <<>> /\ Working(p) /\ Listed(Cur(p)) /\ at[p] \in Nat
         /\ (Cur(p).space # "count" => Resource(Cur(p)) \in Uses(job[p]))
         /\ (s # "sleep" /\ s # "rest" => Waited(p))
         /\ (Window(Cur(p)) => WindowAt(p, Cur(p), Pair(Cur(p))))
         /\ (Managed(Cur(p)) => ManagedAt(p, Cur(p), 3 - Cur(p).port))
         /\ KeptOf(p, Cur(p))
<1>1. job[p] # <<>> /\ Working(p)
  BY DEF At, RegsInv
<1>2. Listed(Cur(p)) /\ (Cur(p).space # "count" => Resource(Cur(p)) \in Uses(job[p]))
  BY <1>1, ListFacts, UsesFacts DEF Working, Cur
<1>3. s # "sleep" /\ s # "rest" => Waited(p)
  BY DEF At, Waited
<1>4. at[p] \in Nat
  BY DEF RegsInv, RegsType
<1> QED
  BY <1>1, <1>2, <1>3, <1>4 DEF RegsInv, AccessAt

(* usleep(100): the window has done what it was told. *)
LEMMA SleepStep ==
  ASSUME RegsInv, NEW p \in Procs, Sleep(p)
  PROVE  RegsInv' /\ FileStep
<1>0. PICK a : a = Cur(p)
  OBVIOUS
<1>1. At(p, "sleep") /\ Advance(p) /\ ~command[Pair(a)].busy /\ UNCHANGED <<card, Unread>>
  BY <1>0 DEF Sleep, Cur
<1>2. /\ job[p] # <<>> /\ Working(p) /\ Listed(a) /\ Resource(a) \in Uses(job[p])
      /\ Window(a) /\ WindowAt(p, a, Pair(a)) /\ ~Managed(a) /\ a.space # "count"
      /\ Len(Steps(a)) = 3 /\ at[p] = IF a.write THEN 3 ELSE 2
  BY <1>0, <1>1, AtAStep, StepFacts DEF Window, Managed
<1>3. /\ \A q \in Procs : q # p => job'[q] = job[q] /\ at'[q] = at[q]
      /\ at[p] < 3 => job'[p] = job[p] /\ at'[p] = at[p] + 1
      /\ ~(at[p] < 3) => job'[p] = Tail(job[p]) /\ at'[p] = 1
  BY <1>0, <1>1, <1>2, Moving
<1>4. /\ core' = core /\ data' = data /\ command' = command /\ phy' = phy /\ mdio' = mdio
      /\ frame' = frame /\ plain' = plain /\ count' = count
      /\ tmp' = tmp /\ halves' = halves /\ total' = total
  BY <1>1 DEF card, Unread
<1>5. Waited(p)
  BY <1>0, <1>1 DEF Waited, At
<1>6. AccessAt(p)'
  <2>1. CASE a.write
    BY <1>0, <1>2, <1>3, <1>4, <1>5, <2>1, NextAccess
  <2>2. CASE ~a.write
    <3>1. at[p] = 2 /\ at'[p] = 3 /\ job'[p] = job[p] /\ Cur(p)' = a
      BY <1>0, <1>2, <1>3, <2>2 DEF Cur
    <3>2. WindowAt(p, a, Pair(a))'
      BY <1>1, <1>2, <1>4, <2>2, <3>1 DEF WindowAt
    <3>3. KeptOf(p, a)'
      BY <2>2 DEF KeptOf
    <3> QED
      BY <1>2, <3>1, <3>2, <3>3 DEF AccessAt
  <2> QED
    BY <2>1, <2>2
<1>7. PairsServed' /\ BusesServed'
  BY <1>3, <1>4, <1>5, StillServed
<1>8. RegsInv' /\ \A q \in Procs : q # p => (Landed(q)' <=> Landed(q))
  BY <1>1, <1>2, <1>4, <1>6, <1>7, CardAlone, ProcessStep DEF RegsInv, RegsType
<1>9. (IF Landed(p)' THEN Tail(job'[p]) ELSE job'[p]) = IF Landed(p) THEN Tail(job[p]) ELSE job[p]
  <2>1. (Landed(p) <=> Lands(p)) /\ (Landed(p)' <=> Lands(p)')
    BY <1>8, LandedNow, LandedThen DEF RegsInv
  <2>2. CASE a.write
    <3>1. Landed(p)
      BY <1>0, <1>1, <1>2, <2>1, <2>2 DEF Lands
    <3>2. ~Landed(p)' /\ job'[p] = Tail(job[p])
      BY <1>2, <1>3, <2>1, <2>2 DEF Lands
    <3> QED
      BY <3>1, <3>2
  <2>3. CASE ~a.write
    <3>1. job'[p] = job[p]
      BY <1>2, <1>3, <2>3
    <3>2. ~Landed(p) /\ ~Landed(p)'
      BY <1>0, <2>1, <2>3, <3>1 DEF Lands, Cur
    <3> QED
      BY <3>1, <3>2
  <2> QED
    BY <2>2, <2>3
<1> QED
  BY <1>3, <1>4, <1>8, <1>9, FileRests

(* What a process writes is a set of bits. *)
LEMMA ValueType ==
  ASSUME RegsInv, NEW p \in Procs, Listed(Cur(p))
  PROVE  Value(p) \in SUBSET AllOnes
BY DEF RegsInv, RegsType, Value, Listed, Cur

(* The registers are as they were. *)
LEMMA HeldSame ==
  ASSUME core' = core, phy' = phy, plain' = plain, NEW q
  PROVE  Held(q)' = Held(q)
BY DEF Held

(* What was read before a change is still there, when the registers are. *)
LEMMA KeptSame ==
  ASSUME NEW p, NEW a, KeptOf(p, a), ~Landed(p),
         core' = core, phy' = phy, plain' = plain, tmp' = tmp
  PROVE  KeptOf(p, a)'
<1>1. Held(PlaceOf(a))' = Held(PlaceOf(a))
  <2>1. PICK q : q = PlaceOf(a)
    OBVIOUS
  <2>2. Held(q)' = Held(q) /\ PlaceOf(a)' = q
    BY <2>1, HeldSame DEF PlaceOf
  <2> QED
    BY <2>1, <2>2
<1> QED
  BY <1>1 DEF KeptOf

(* reg_write(MACx_DATA) *)
LEMMA WriteDataStep ==
  ASSUME RegsInv, NEW p \in Procs, WriteData(p)
  PROVE  RegsInv' /\ FileStep
<1>0. PICK a : a = Cur(p)
  OBVIOUS
<1>1. /\ At(p, "data") /\ Advance(p) /\ data' = [data EXCEPT ![Pair(a)] = Value(p)]
      /\ UNCHANGED <<core, command, phy, mdio, frame, plain, count, Unread>>
  BY <1>0 DEF WriteData, Cur
<1>2. /\ job[p] # <<>> /\ Working(p) /\ Listed(a) /\ Resource(a) \in Uses(job[p]) /\ Waited(p)
      /\ Window(a) /\ WindowAt(p, a, Pair(a)) /\ ~Managed(a) /\ a.space # "count" /\ KeptOf(p, a)
      /\ Len(Steps(a)) = 3 /\ at[p] = 1 /\ a.write
  BY <1>0, <1>1, AtAStep, StepFacts DEF Window, Managed
<1>3. /\ \A q \in Procs : q # p => job'[q] = job[q] /\ at'[q] = at[q]
      /\ job'[p] = job[p] /\ at'[p] = 2 /\ Cur(p)' = a /\ Working(p)'
  <2>1. /\ \A q \in Procs : q # p => job'[q] = job[q] /\ at'[q] = at[q]
        /\ at[p] < 3 => job'[p] = job[p] /\ at'[p] = at[p] + 1
        /\ Working(p)'
    BY <1>0, <1>1, <1>2, Moving
  <2> QED
    BY <1>0, <1>2, <2>1 DEF Cur
<1>4. /\ core' = core /\ command' = command /\ phy' = phy /\ mdio' = mdio
      /\ frame' = frame /\ plain' = plain /\ count' = count
      /\ tmp' = tmp /\ halves' = halves /\ total' = total
  BY <1>1 DEF Unread
<1>5. ~Landed(p) /\ ~Landed(p)'
  BY <1>0, <1>2, <1>3, LandedNow, LandedThen DEF Lands
<1>6. /\ Pair(a) \in Pairs /\ Value(p) \in SUBSET AllOnes /\ Resource(a) = <<"pair", Pair(a)>>
      /\ data \in [Pairs -> SUBSET AllOnes]
  BY <1>0, <1>2, PortFacts, ValueType DEF Resource, Window, RegsInv, RegsType
<1>7. AccessAt(p)'
  <2>1. Value(p)' = Value(p)
    BY <1>0, <1>3, <1>4 DEF Value, Cur
  <2>2. WindowAt(p, a, Pair(a))'
    BY <1>1, <1>2, <1>3, <1>4, <1>6, <2>1 DEF WindowAt
  <2>3. KeptOf(p, a)'
    BY <1>2, <1>4, <1>5, KeptSame
  <2> QED
    BY <1>2, <1>3, <2>2, <2>3 DEF AccessAt
<1>8. Elsewhere(<<"pair", Pair(a)>>)
  <2>1. count' \in Nat /\ count \div Half <= count' \div Half
    BY <1>4, RegsAssumption DEF RegsInv, RegsType
  <2> QED
    BY <1>1, <1>4, <1>6, <2>1 DEF Elsewhere, PairSame, BusSame
<1>9. PairsServed' /\ BusesServed'
  BY <1>2, <1>3, <1>4, StillServed
<1>10. data' \in [Pairs -> SUBSET AllOnes]
  BY <1>1, <1>6
<1>11. RegsInv' /\ \A q \in Procs : q # p => (Landed(q)' <=> Landed(q))
  BY <1>1, <1>2, <1>4, <1>6, <1>7, <1>8, <1>9, <1>10, ProcessStep DEF RegsInv, RegsType
<1> QED
  BY <1>3, <1>4, <1>5, <1>11, FileRests

(* reg_write(MACx_ADDR): the window has something to do. *)
LEMMA WriteAddrStep ==
  ASSUME RegsInv, NEW p \in Procs, WriteAddr(p)
  PROVE  RegsInv' /\ FileStep
<1>0. PICK a : a = Cur(p)
  OBVIOUS
<1>1. /\ At(p, "addr") /\ Advance(p) /\ command' = [command EXCEPT ![Pair(a)] = Order(a)]
      /\ UNCHANGED <<core, data, phy, mdio, frame, plain, count, Unread>>
  BY <1>0 DEF WriteAddr, Cur, Order
<1>2. /\ job[p] # <<>> /\ Working(p) /\ Listed(a) /\ Resource(a) \in Uses(job[p]) /\ Waited(p)
      /\ Window(a) /\ WindowAt(p, a, Pair(a)) /\ ~Managed(a) /\ a.space # "count" /\ KeptOf(p, a)
      /\ Len(Steps(a)) = 3 /\ at[p] = IF a.write THEN 2 ELSE 1
  BY <1>0, <1>1, AtAStep, StepFacts DEF Window, Managed
<1>3. /\ \A q \in Procs : q # p => job'[q] = job[q] /\ at'[q] = at[q]
      /\ job'[p] = job[p] /\ at'[p] = (IF a.write THEN 3 ELSE 2) /\ Cur(p)' = a /\ Working(p)'
  <2>1. /\ \A q \in Procs : q # p => job'[q] = job[q] /\ at'[q] = at[q]
        /\ at[p] < 3 => job'[p] = job[p] /\ at'[p] = at[p] + 1
        /\ Working(p)'
    BY <1>0, <1>1, <1>2, Moving
  <2> QED
    BY <1>0, <1>2, <2>1 DEF Cur
<1>4. /\ core' = core /\ data' = data /\ phy' = phy /\ mdio' = mdio
      /\ frame' = frame /\ plain' = plain /\ count' = count
      /\ tmp' = tmp /\ halves' = halves /\ total' = total
  BY <1>1 DEF Unread
<1>5. /\ Pair(a) \in Pairs /\ Resource(a) = <<"pair", Pair(a)>>
      /\ command = [x \in Pairs |-> command[x]]
  BY <1>2, PortFacts DEF Resource, Window, RegsInv, RegsType
<1>6. command'[Pair(a)] = Order(a) /\ Order(a).busy /\ command' = [x \in Pairs |-> command'[x]]
  BY <1>1, <1>5 DEF Order
<1>7. ~Landed(p) /\ ~Landed(p)'
  <2>1. (Landed(p) <=> Lands(p)) /\ (Landed(p)' <=> Lands(p)')
    BY <1>2, <1>3, LandedNow, LandedThen
  <2>2. ~Lands(p)
    BY <1>0, <1>2 DEF Lands
  <2>3. ~Lands(p)'
    BY <1>2, <1>3, <1>6 DEF Lands
  <2> QED
    BY <2>1, <2>2, <2>3
<1>8. AccessAt(p)'
  <2>1. Value(p)' = Value(p)
    BY <1>0, <1>3, <1>4 DEF Value, Cur
  <2>2. WindowAt(p, a, Pair(a))'
    BY <1>2, <1>3, <1>4, <1>6, <2>1 DEF WindowAt, Order, Address
  <2>3. KeptOf(p, a)'
    BY <1>2, <1>4, <1>7, KeptSame
  <2> QED
    BY <1>2, <1>3, <2>2, <2>3 DEF AccessAt
<1>9. Elsewhere(<<"pair", Pair(a)>>)
  <2>1. count' \in Nat /\ count \div Half <= count' \div Half
    BY <1>4, RegsAssumption DEF RegsInv, RegsType
  <2> QED
    BY <1>1, <1>4, <1>5, <2>1 DEF Elsewhere, PairSame, BusSame
<1>10. PairsServed' /\ BusesServed'
  <2>1. At(p, "sleep")'
    BY <1>0, <1>2, <1>3, WaitingSteps DEF At, Cur
  <2>2. \A x \in Pairs : command'[x] # command[x] => x = Pair(a)
    BY <1>1, <1>5
  <2> QED
    BY <1>2, <1>3, <1>4, <2>1, <2>2, StillServed
<1>11. RegsInv' /\ \A q \in Procs : q # p => (Landed(q)' <=> Landed(q))
  BY <1>1, <1>2, <1>4, <1>5, <1>6, <1>8, <1>9, <1>10, ProcessStep, ZenonT(60) DEF RegsInv, RegsType
<1> QED
  BY <1>3, <1>4, <1>7, <1>11, FileRests

(* The last access of a read: its answer is what the register holds. *)
LEMMA Answered ==
  ASSUME RegsInv, NEW p \in Procs, NEW a, a = Cur(p),
         At(p, "fetch") \/ At(p, "collect") \/ At(p, "get"),
         Advance(p), ~(at[p] < Len(Steps(a))), ~a.write, Legal(a), a.space # "count",
         NEW v, v = Held(PlaceOf(a)), v \in SUBSET AllOnes, tmp' = [tmp EXCEPT ![p] = v],
         UNCHANGED <<card, halves, total, begun>>
  PROVE  RegsInv' /\ FileStep
<1>1. job[p] # <<>> /\ Working(p) /\ Listed(a) /\ Waited(p)
  BY AtAStep
<1>2. /\ \A q \in Procs : q # p => job'[q] = job[q] /\ at'[q] = at[q]
      /\ job'[p] = Tail(job[p]) /\ at'[p] = 1 /\ Working(p)'
  BY <1>1, Moving
<1>3. /\ core' = core /\ data' = data /\ command' = command /\ phy' = phy /\ mdio' = mdio
      /\ frame' = frame /\ plain' = plain /\ count' = count
      /\ halves' = halves /\ total' = total
  BY DEF card
<1>4. ~Landed(p) /\ ~Landed(p)'
  BY <1>1, <1>2, LandedNow, LandedThen DEF Lands
<1>5. tmp' \in [Procs -> SUBSET AllOnes] /\ tmp'[p] = v
      /\ \A q \in Procs : q # p => tmp'[q] = tmp[q]
  BY DEF RegsInv, RegsType
<1>6. tmp'[p] = Held(PlaceOf(a))'
  <2>1. PICK q : q = PlaceOf(a)
    OBVIOUS
  <2>2. Held(q)' = Held(q) /\ PlaceOf(a)' = q
    BY <1>3, <2>1, HeldSame DEF PlaceOf
  <2> QED
    BY <1>5, <2>1, <2>2
<1>7. AccessAt(p)'
  BY <1>1, <1>2, <1>3, <1>6, NextAccess
<1>8. PairsServed' /\ BusesServed'
  BY <1>1, <1>2, <1>3, StillServed
<1>9. RegsInv' /\ \A q \in Procs : q # p => (Landed(q)' <=> Landed(q))
  BY <1>1, <1>3, <1>5, <1>7, <1>8, CardAlone, ProcessStep, ZenonT(60) DEF RegsInv, RegsType
<1>10. PlaceOf(a) \in Places
  BY <1>1 DEF Listed
<1> QED
  BY <1>1, <1>2, <1>3, <1>4, <1>9, <1>10, FileReads

(* reg_read(MACx_DATA): the answer to the read. *)
LEMMA FetchStep ==
  ASSUME RegsInv, NEW p \in Procs, Fetch(p)
  PROVE  RegsInv' /\ FileStep
<1>0. PICK a, v : a = Cur(p) /\ v = data[Pair(Cur(p))]
  OBVIOUS
<1>1. /\ At(p, "fetch") /\ Advance(p) /\ tmp' = [tmp EXCEPT ![p] = v]
      /\ UNCHANGED <<card, halves, total, begun>>
  BY <1>0 DEF Fetch, Cur
<1>2. /\ Listed(a) /\ Window(a) /\ WindowAt(p, a, Pair(a)) /\ Len(Steps(a)) = 3 /\ at[p] = 3
      /\ ~a.write /\ Legal(a) /\ a.space # "count"
  BY <1>0, <1>1, AtAStep, StepFacts DEF Window
<1>3. v = Held(PlaceOf(a)) /\ v \in SUBSET AllOnes
  <2>1. v = core[Home(a)]
    BY <1>0, <1>2 DEF WindowAt
  <2> QED
    BY <1>2, <2>1, HomeFacts DEF RegsInv, RegsType
<1>4. ~(at[p] < Len(Steps(a)))
  BY <1>2
<1> QED
  BY <1>0, <1>1, <1>2, <1>3, <1>4, Answered, Zenon

(* What the MDIO register is told. *)
LEMMA WriteFrameStep ==
  ASSUME RegsInv, NEW p \in Procs, WriteFrame(p)
  PROVE  RegsInv' /\ FileStep
<1>0. PICK a, y, f : a = Cur(p) /\ y = 3 - Cur(p).port /\ f = Frame(p)
  OBVIOUS
<1>1. /\ At(p, "frame") /\ Advance(p) /\ frame' = [frame EXCEPT ![y] = f] /\ y = 3 - a.port
      /\ UNCHANGED <<core, data, command, phy, mdio, plain, count, Unread>>
  BY <1>0 DEF WriteFrame, Cur
<1>2. /\ job[p] # <<>> /\ Working(p) /\ Listed(a) /\ Resource(a) \in Uses(job[p]) /\ Waited(p)
      /\ Managed(a) /\ ManagedAt(p, a, y) /\ ~Window(a) /\ a.space # "count" /\ KeptOf(p, a)
      /\ Len(Steps(a)) \in {2, 3} /\ at[p] = 1
  BY <1>0, <1>1, AtAStep, StepFacts DEF Window, Managed
<1>3. /\ \A q \in Procs : q # p => job'[q] = job[q] /\ at'[q] = at[q]
      /\ job'[p] = job[p] /\ at'[p] = 2 /\ Cur(p)' = a /\ Working(p)'
  <2>1. /\ \A q \in Procs : q # p => job'[q] = job[q] /\ at'[q] = at[q]
        /\ at[p] < Len(Steps(a)) => job'[p] = job[p] /\ at'[p] = at[p] + 1
        /\ Working(p)'
    BY <1>0, <1>1, <1>2, Moving
  <2> QED
    BY <1>0, <1>2, <2>1 DEF Cur
<1>4. /\ core' = core /\ data' = data /\ phy' = phy /\ mdio' = mdio
      /\ command' = command /\ plain' = plain /\ count' = count
      /\ tmp' = tmp /\ halves' = halves /\ total' = total
  BY <1>1 DEF Unread
<1>5. /\ y \in Ports /\ 3 - y = a.port /\ Resource(a) = <<"mdio", a.port>>
      /\ frame = [x \in Ports |-> frame[x]]
  <2>1. a.port \in Ports /\ 3 - a.port \in Ports
    BY <1>2, PortFacts
  <2> QED
    BY <1>1, <1>2, <2>1 DEF Resource, Managed, RegsInv, RegsType, Ports
<1>6. frame'[y] = f /\ f.busy /\ frame' = [x \in Ports |-> frame'[x]] /\ Frame(p)' = f
  <2>1. Value(p)' = Value(p)
    BY <1>0, <1>3, <1>4 DEF Value, Cur
  <2>2. Frame(p)' = f
    BY <1>0, <1>3, <2>1 DEF Frame, Cur
  <2>3. f.busy
    BY <1>0 DEF Frame
  <2> QED
    BY <1>1, <1>5, <2>2, <2>3
<1>7. ~Landed(p) /\ ~Landed(p)'
  <2>1. (Landed(p) <=> Lands(p)) /\ (Landed(p)' <=> Lands(p)')
    BY <1>2, <1>3, LandedNow, LandedThen
  <2>2. ~Lands(p)
    BY <1>0, <1>2 DEF Lands
  <2>3. ~Lands(p)'
    BY <1>1, <1>2, <1>3, <1>6 DEF Lands
  <2> QED
    BY <2>1, <2>2, <2>3
<1>8. AccessAt(p)'
  <2>1. ManagedAt(p, a, y)'
    BY <1>3, <1>6 DEF ManagedAt
  <2>2. KeptOf(p, a)'
    BY <1>2, <1>4, <1>7, KeptSame
  <2> QED
    BY <1>1, <1>2, <1>3, <2>1, <2>2 DEF AccessAt
<1>9. Elsewhere(<<"mdio", a.port>>)
  <2>1. count' \in Nat /\ count \div Half <= count' \div Half
    BY <1>4, RegsAssumption DEF RegsInv, RegsType
  <2>2. \A x \in Ports : <<"mdio", a.port>> # <<"mdio", 3 - x>> => frame'[x] = frame[x]
    BY <1>1, <1>5
  <2> QED
    BY <1>1, <1>4, <2>1, <2>2 DEF Elsewhere, PairSame, BusSame
<1>10. PairsServed' /\ BusesServed'
  <2>1. At(p, "rest")'
    BY <1>0, <1>2, <1>3, WaitingSteps DEF At, Cur
  <2>2. \A x \in Ports : frame'[x] # frame[x] => x = y
    BY <1>1, <1>5
  <2> QED
    BY <1>1, <1>2, <1>3, <1>4, <2>1, <2>2, StillServed
<1>11. RegsInv' /\ \A q \in Procs : q # p => (Landed(q)' <=> Landed(q))
  <2>1. /\ core' \in [Homes -> SUBSET AllOnes] /\ phy' \in [Ports \X PhyRegs -> SUBSET Low16]
        /\ plain' \in [PlainRegs -> SUBSET AllOnes] /\ data' \in [Pairs -> SUBSET AllOnes]
        /\ mdio' \in [Ports -> SUBSET Low16] /\ command' = [x \in Pairs |-> command'[x]]
        /\ tmp' \in [Procs -> SUBSET AllOnes] /\ count' \in Nat
        /\ halves' \in [Procs -> [high : Nat, low : Nat]] /\ total' = [q \in Procs |-> total'[q]]
    BY <1>4 DEF RegsInv, RegsType
  <2>2. <<"mdio", a.port>> \in Uses(job[p])
    BY <1>2, <1>5
  <2>3. \A q \in Procs : q # p => tmp'[q] = tmp[q] /\ halves'[q] = halves[q]
    BY <1>4
  <2> QED
    BY <1>1, <1>2, <1>6, <1>8, <1>9, <1>10, <2>1, <2>2, <2>3, ProcessStep
<1> QED
  BY <1>3, <1>4, <1>7, <1>11, FileRests

(* usleep(100): the bus has done what it was told. *)
LEMMA RestStep ==
  ASSUME RegsInv, NEW p \in Procs, Rest(p)
  PROVE  RegsInv' /\ FileStep
<1>0. PICK a : a = Cur(p)
  OBVIOUS
<1>1. At(p, "rest") /\ Advance(p) /\ ~frame[3 - a.port].busy /\ UNCHANGED <<card, Unread>>
  BY <1>0 DEF Rest, Cur
<1>2. /\ job[p] # <<>> /\ Working(p) /\ Listed(a) /\ Resource(a) \in Uses(job[p])
      /\ Managed(a) /\ ManagedAt(p, a, 3 - a.port) /\ ~Window(a) /\ a.space # "count"
      /\ at[p] = 2 /\ Len(Steps(a)) = IF a.write THEN 2 ELSE 3
  BY <1>0, <1>1, AtAStep, StepFacts DEF Window, Managed
<1>3. /\ \A q \in Procs : q # p => job'[q] = job[q] /\ at'[q] = at[q]
      /\ ~a.write => job'[p] = job[p] /\ at'[p] = 3
      /\ a.write => job'[p] = Tail(job[p]) /\ at'[p] = 1
  <2>1. /\ \A q \in Procs : q # p => job'[q] = job[q] /\ at'[q] = at[q]
        /\ at[p] < Len(Steps(a)) => job'[p] = job[p] /\ at'[p] = at[p] + 1
        /\ ~(at[p] < Len(Steps(a))) => job'[p] = Tail(job[p]) /\ at'[p] = 1
    BY <1>0, <1>1, <1>2, Moving
  <2> QED
    BY <1>2, <2>1
<1>4. /\ core' = core /\ data' = data /\ command' = command /\ phy' = phy /\ mdio' = mdio
      /\ frame' = frame /\ plain' = plain /\ count' = count
      /\ tmp' = tmp /\ halves' = halves /\ total' = total
  BY <1>1 DEF card, Unread
<1>5. Waited(p)
  BY <1>0, <1>1 DEF Waited, At
<1>6. AccessAt(p)'
  <2>1. CASE a.write
    BY <1>0, <1>2, <1>3, <1>4, <1>5, <2>1, NextAccess
  <2>2. CASE ~a.write
    <3>1. at'[p] = 3 /\ job'[p] = job[p] /\ Cur(p)' = a
      BY <1>0, <1>2, <1>3, <2>2 DEF Cur
    <3>2. ManagedAt(p, a, 3 - a.port)'
      BY <1>1, <1>2, <1>4, <2>2, <3>1 DEF ManagedAt
    <3>3. KeptOf(p, a)'
      BY <2>2 DEF KeptOf
    <3> QED
      BY <1>2, <3>1, <3>2, <3>3 DEF AccessAt
  <2> QED
    BY <2>1, <2>2
<1>7. PairsServed' /\ BusesServed'
  BY <1>3, <1>4, <1>5, StillServed
<1>8. RegsInv' /\ \A q \in Procs : q # p => (Landed(q)' <=> Landed(q))
  BY <1>1, <1>2, <1>4, <1>6, <1>7, CardAlone, ProcessStep DEF RegsInv, RegsType
<1>9. (IF Landed(p)' THEN Tail(job'[p]) ELSE job'[p]) = IF Landed(p) THEN Tail(job[p]) ELSE job[p]
  <2>1. (Landed(p) <=> Lands(p)) /\ (Landed(p)' <=> Lands(p)')
    BY <1>8, LandedNow, LandedThen DEF RegsInv
  <2>2. CASE a.write
    <3>1. Landed(p)
      BY <1>0, <1>1, <1>2, <2>1, <2>2 DEF Lands
    <3>2. ~Landed(p)' /\ job'[p] = Tail(job[p])
      BY <1>2, <1>3, <2>1, <2>2 DEF Lands
    <3> QED
      BY <3>1, <3>2
  <2>3. CASE ~a.write
    <3>1. job'[p] = job[p]
      BY <1>2, <1>3, <2>3
    <3>2. ~Landed(p) /\ ~Landed(p)'
      BY <1>0, <2>1, <2>3, <3>1 DEF Lands, Cur
    <3> QED
      BY <3>1, <3>2
  <2> QED
    BY <2>2, <2>3
<1> QED
  BY <1>3, <1>4, <1>8, <1>9, FileRests

(* The bits of a PHY are bits of a word. *)
LEMMA LowBits == Low16 \subseteq AllOnes
BY DEF Low16, AllOnes

(* The answer of the bus. *)
LEMMA CollectStep ==
  ASSUME RegsInv, NEW p \in Procs, Collect(p)
  PROVE  RegsInv' /\ FileStep
<1>0. PICK a, v : a = Cur(p) /\ v = mdio[3 - Cur(p).port] \cap Low16
  OBVIOUS
<1>1. /\ At(p, "collect") /\ Advance(p) /\ tmp' = [tmp EXCEPT ![p] = v]
      /\ UNCHANGED <<card, halves, total, begun>>
  BY <1>0 DEF Collect, Cur
<1>2. /\ Listed(a) /\ Managed(a) /\ ManagedAt(p, a, 3 - a.port) /\ Len(Steps(a)) = 3 /\ at[p] = 3
      /\ ~a.write /\ Legal(a) /\ a.space # "count"
  BY <1>0, <1>1, AtAStep, StepFacts DEF Managed
<1>3. v = Held(PlaceOf(a)) /\ v \in SUBSET AllOnes
  <2>1. mdio[3 - a.port] = phy[<<3 - a.port, a.reg>>]
    BY <1>2 DEF ManagedAt
  <2>2. phy[<<3 - a.port, a.reg>>] \subseteq Low16
    BY <1>2, PhyFacts DEF RegsInv, RegsType
  <2>3. v = phy[<<3 - a.port, a.reg>>]
    BY <1>0, <2>1, <2>2
  <2> QED
    BY <1>2, <2>2, <2>3, PhyFacts, LowBits
<1>4. ~(at[p] < Len(Steps(a)))
  BY <1>2
<1> QED
  BY <1>0, <1>1, <1>2, <1>3, <1>4, Answered, Zenon

(* reg_read of a plain register. *)
LEMMA GetStep ==
  ASSUME RegsInv, NEW p \in Procs, Get(p)
  PROVE  RegsInv' /\ FileStep
<1>0. PICK a, v : a = Cur(p) /\ v = plain[Cur(p).reg]
  OBVIOUS
<1>1. /\ At(p, "get") /\ Advance(p) /\ tmp' = [tmp EXCEPT ![p] = v]
      /\ UNCHANGED <<card, halves, total, begun>>
  BY <1>0 DEF Get, Cur
<1>2. /\ Listed(a) /\ Register(a) /\ Len(Steps(a)) = 1 /\ at[p] = 1 /\ ~a.write
      /\ Legal(a) /\ a.space # "count"
  BY <1>0, <1>1, AtAStep, StepFacts, StepsOf DEF Register
<1>3. v = Held(PlaceOf(a)) /\ v \in SUBSET AllOnes
  BY <1>0, <1>2, PlainFacts DEF RegsInv, RegsType
<1>4. ~(at[p] < Len(Steps(a)))
  BY <1>2
<1> QED
  BY <1>0, <1>1, <1>2, <1>3, <1>4, Answered, Zenon

(* reg_write of a plain register. *)
LEMMA PutStep ==
  ASSUME RegsInv, NEW p \in Procs, Put(p)
  PROVE  RegsInv' /\ FileStep
<1>0. PICK a, v : a = Cur(p) /\ v = Value(p)
  OBVIOUS
<1>1. /\ At(p, "put") /\ Advance(p) /\ plain' = [plain EXCEPT ![a.reg] = v]
      /\ UNCHANGED <<core, data, command, phy, mdio, frame, count, Unread>>
  BY <1>0 DEF Put, Cur
<1>2. /\ job[p] # <<>> /\ Working(p) /\ Listed(a) /\ Waited(p) /\ Register(a)
      /\ Len(Steps(a)) = 1 /\ at[p] = 1 /\ a.write /\ Legal(a) /\ a.space # "count"
      /\ Resource(a) \in Uses(job[p]) /\ KeptOf(p, a) /\ ~Window(a) /\ ~Managed(a)
  BY <1>0, <1>1, AtAStep, StepFacts, StepsOf DEF Register, Window, Managed
<1>3. /\ \A q \in Procs : q # p => job'[q] = job[q] /\ at'[q] = at[q]
      /\ job'[p] = Tail(job[p]) /\ at'[p] = 1 /\ Working(p)'
  <2>1. /\ \A q \in Procs : q # p => job'[q] = job[q] /\ at'[q] = at[q]
        /\ ~(at[p] < 1) => job'[p] = Tail(job[p]) /\ at'[p] = 1
        /\ Working(p)'
    BY <1>0, <1>1, <1>2, Moving
  <2> QED
    BY <1>2, <2>1
<1>4. /\ core' = core /\ data' = data /\ command' = command /\ phy' = phy /\ mdio' = mdio
      /\ frame' = frame /\ count' = count
      /\ tmp' = tmp /\ halves' = halves /\ total' = total
  BY <1>1 DEF Unread
<1>5. ~Landed(p) /\ ~Landed(p)'
  BY <1>0, <1>2, <1>3, LandedNow, LandedThen DEF Lands
<1>6. /\ a.reg \in PlainRegs /\ PlaceOf(a) = <<"reg", 0, a.reg>> /\ v \in SUBSET AllOnes
      /\ plain \in [PlainRegs -> SUBSET AllOnes] /\ Resource(a) = <<"reg", a.reg>>
  BY <1>0, <1>2, PlainFacts, ValueType DEF RegsInv, RegsType, Resource, Register
<1>7. plain' \in [PlainRegs -> SUBSET AllOnes]
  BY <1>1, <1>6
<1>8. Elsewhere(<<"reg", a.reg>>)
  <2>1. count' \in Nat /\ count \div Half <= count' \div Half
    BY <1>4, RegsAssumption DEF RegsInv, RegsType
  <2> QED
    BY <1>1, <1>4, <1>6, <2>1 DEF Elsewhere, PairSame, BusSame
<1>9. AccessAt(p)'
  BY <1>0, <1>2, <1>3, <1>4, NextAccess
<1>10. PairsServed' /\ BusesServed'
  BY <1>2, <1>3, <1>4, StillServed
<1>11. RegsInv' /\ \A q \in Procs : q # p => (Landed(q)' <=> Landed(q))
  BY <1>1, <1>2, <1>4, <1>6, <1>7, <1>8, <1>9, <1>10, ProcessStep DEF RegsInv, RegsType
<1>12. PlaceOf(a) \in Places
  BY <1>2 DEF Listed
<1>13. Regs' = [Regs EXCEPT ![PlaceOf(a)] = v]
  <2>1. ASSUME NEW q \in Places
        PROVE  Held(q)' = IF q = PlaceOf(a) THEN v ELSE Held(q)
    <3>1. CASE q[1] = "reg"
      <4>1. PICK r \in PlainRegs : q = <<"reg", 0, r>>
        BY <3>1 DEF Places
      <4>2. Held(q)' = plain'[r] /\ Held(q) = plain[r]
        BY <4>1 DEF Held
      <4> QED
        BY <1>1, <1>6, <4>1, <4>2
    <3>2. CASE q[1] # "reg"
      <4>1. q[1] \in {"mac", "pcs", "phy"} /\ q # PlaceOf(a)
        BY <1>6, <3>2 DEF Places
      <4>2. Held(q)' = Held(q)
        BY <1>4, <4>1 DEF Held
      <4> QED
        BY <4>1, <4>2
    <3> QED
      BY <3>1, <3>2
  <2> QED
    BY <1>12, <2>1 DEF Regs
<1>14. Todo[p] = job[p] /\ Todo' = [Todo EXCEPT ![p] = Tail(Todo[p])]
  <2>1. /\ Todo' = [Todo EXCEPT ![p] = IF Landed(p)' THEN Tail(job'[p]) ELSE job'[p]]
        /\ Todo[p] = IF Landed(p) THEN Tail(job[p]) ELSE job[p]
    BY <1>3, <1>11, TodoStep
  <2> QED
    BY <1>3, <1>5, <2>1
<1>15. a.keep # {} => tmp[p] = Held(PlaceOf(a))
  BY <1>2, <1>5 DEF KeptOf
<1> QED
  BY <1>0, <1>2, <1>4, <1>11, <1>12, <1>13, <1>14, <1>15, FileWrites

(* An access that is refused answers something, and changes nothing. *)
LEMMA RefuseStep ==
  ASSUME RegsInv, NEW p \in Procs, Refuse(p)
  PROVE  RegsInv' /\ FileStep
<1>0. PICK a : a = Cur(p)
  OBVIOUS
<1>1. At(p, "refuse") /\ Advance(p) /\ UNCHANGED <<card, halves, total, begun>>
  BY DEF Refuse
<1>2. PICK v \in {tmp[p], {}, Low16, AllOnes} :
        /\ tmp' = [tmp EXCEPT ![p] = v]
        /\ v \in {{}, Low16, AllOnes} \cup {tmp[p]}
  BY <1>0 DEF Refuse, Cur
<1>3. /\ job[p] # <<>> /\ Working(p) /\ Listed(a) /\ Waited(p)
      /\ ~Legal(a) /\ at[p] = 1 /\ Len(Steps(a)) = 1 /\ ~Window(a) /\ ~Managed(a)
  BY <1>0, <1>1, AtAStep, StepFacts DEF Window, Managed
<1>4. /\ \A q \in Procs : q # p => job'[q] = job[q] /\ at'[q] = at[q]
      /\ job'[p] = Tail(job[p]) /\ at'[p] = 1 /\ Working(p)'
  <2>1. /\ \A q \in Procs : q # p => job'[q] = job[q] /\ at'[q] = at[q]
        /\ ~(at[p] < 1) => job'[p] = Tail(job[p]) /\ at'[p] = 1
        /\ Working(p)'
    BY <1>0, <1>1, <1>3, Moving
  <2> QED
    BY <1>3, <2>1
<1>5. /\ core' = core /\ data' = data /\ command' = command /\ phy' = phy /\ mdio' = mdio
      /\ frame' = frame /\ plain' = plain /\ count' = count
      /\ halves' = halves /\ total' = total
  BY <1>1 DEF card
<1>6. ~Landed(p) /\ ~Landed(p)'
  BY <1>0, <1>3, <1>4, LandedNow, LandedThen DEF Lands
<1>7. tmp' \in [Procs -> SUBSET AllOnes] /\ \A q \in Procs : q # p => tmp'[q] = tmp[q]
  BY <1>2, LowBits DEF RegsInv, RegsType
<1>8. AccessAt(p)'
  BY <1>0, <1>3, <1>4, <1>5, NextAccess
<1>9. PairsServed' /\ BusesServed'
  BY <1>3, <1>4, <1>5, StillServed
<1>10. RegsInv' /\ \A q \in Procs : q # p => (Landed(q)' <=> Landed(q))
  BY <1>1, <1>3, <1>5, <1>7, <1>8, <1>9, CardAlone, ProcessStep DEF RegsInv, RegsType
<1>11. PlaceOf(a) \notin Places /\ a.space # "count"
  <2>1. a.space \in {"mac", "pcs", "phy"} /\ a.port \in Nat
    BY <1>3 DEF Legal, Listed
  <2>2. CASE a.space = "mac"
    <3>1. ~(a.port <= 3 /\ a.reg <= 1023)
      BY <1>3, <2>2 DEF Legal
    <3>2. \A r \in MacRegs : r \in 0 .. 1023
      BY RegsAssumption
    <3> QED
      BY <2>2, <3>1, <3>2, SMTT(30) DEF PlaceOf, Places, Ports
  <2>3. CASE a.space \in {"pcs", "phy"}
    <3>1. ~(a.port <= 3 /\ a.reg <= 31)
      BY <1>3, <2>3 DEF Legal
    <3>2. (\A r \in PcsRegs : r \in 0 .. 31) /\ (\A r \in PhyRegs : r \in 0 .. 31)
      BY RegsAssumption
    <3> QED
      BY <2>3, <3>1, <3>2 DEF PlaceOf, Places, Ports
  <2> QED
    BY <2>1, <2>2, <2>3
<1>12. Todo[p] = job[p] /\ Todo' = [Todo EXCEPT ![p] = Tail(Todo[p])]
  <2>1. /\ Todo' = [Todo EXCEPT ![p] = IF Landed(p)' THEN Tail(job'[p]) ELSE job'[p]]
        /\ Todo[p] = IF Landed(p) THEN Tail(job[p]) ELSE job[p]
    BY <1>4, <1>10, TodoStep
  <2> QED
    BY <1>4, <1>6, <2>1
<1>13. Regs' = Regs
  BY <1>5 DEF Regs, Held
<1>14. File!Refuse(p)
  <2>1. Head(Todo[p]) = a /\ File!PlaceOf(a) = PlaceOf(a)
    BY <1>0, <1>12 DEF File!PlaceOf, PlaceOf, Cur
  <2> HIDE DEF Todo, Regs
  <2>2. File!Take(p)
    BY <1>3, <1>12 DEF File!Take, Todo
  <2>3. \E w \in {{}, Low16, AllOnes} \cup {tmp[p]} : tmp' = [tmp EXCEPT ![p] = w]
    BY <1>2
  <2> QED
    BY <1>11, <1>13, <2>1, <2>2, <2>3 DEF File!Refuse, Regs, Todo
<1> QED
  BY <1>10, <1>14 DEF FileStep, File!Next

(* The quotient of a natural number is one. *)
LEMMA QuotientNat ==
  ASSUME NEW T \in Nat \ {0}, NEW n \in Nat
  PROVE  n \div T \in Nat
<1>1. n = T * (n \div T) + (n % T) /\ n % T \in 0 .. T - 1 /\ n \div T \in Int
  OBVIOUS
<1> DEFINE a == n \div T
           r == n % T
<1>2. n = T * a + r /\ r \in 0 .. T - 1 /\ a \in Int
  BY <1>1
<1> HIDE DEF a, r
<1>3. ASSUME a < 0 PROVE FALSE
  <2>1. -1 - a \in Nat
    BY <1>2, <1>3
  <2>2. T * (-1 - a) \in Nat
    BY <2>1
  <2>3. T * (-1 - a) = -T - T * a /\ T * a \in Int
    BY <1>2
  <2> QED
    BY <1>2, <2>2, <2>3
<1> QED
  BY <1>2, <1>3 DEF a

(* The high half of a counter: a step of the counter only. *)
LEMMA ReadHighStep ==
  ASSUME RegsInv, NEW p \in Procs, ReadHigh(p)
  PROVE  RegsInv' /\ FileStep
<1>0. PICK a, v : a = Cur(p) /\ v = count \div Half
  OBVIOUS
<1>1. /\ At(p, "high") /\ Advance(p) /\ halves' = [halves EXCEPT ![p]["high"] = v]
      /\ UNCHANGED <<card, tmp, begun>>
  BY <1>0 DEF ReadHigh, ReadHalf
<1>2. total' = [q \in Procs |-> total'[q]]
  <2>1. PICK w : total' = [total EXCEPT ![p] = w]
    BY DEF ReadHigh, ReadHalf
  <2> QED
    BY <2>1 DEF RegsInv, RegsType
<1>3. /\ job[p] # <<>> /\ Working(p) /\ Listed(a) /\ Waited(p) /\ ~Window(a) /\ ~Managed(a)
      /\ a.space = "count" /\ at[p] = 1 /\ Len(Steps(a)) = 2
  BY <1>0, <1>1, AtAStep, StepFacts DEF Window, Managed
<1>4. /\ \A q \in Procs : q # p => job'[q] = job[q] /\ at'[q] = at[q]
      /\ job'[p] = job[p] /\ at'[p] = 2 /\ Cur(p)' = a /\ Working(p)'
  <2>1. /\ \A q \in Procs : q # p => job'[q] = job[q] /\ at'[q] = at[q]
        /\ at[p] < 2 => job'[p] = job[p] /\ at'[p] = at[p] + 1
        /\ Working(p)'
    BY <1>0, <1>1, <1>3, Moving
  <2> QED
    BY <1>0, <1>3, <2>1 DEF Cur
<1>5. /\ core' = core /\ data' = data /\ command' = command /\ phy' = phy /\ mdio' = mdio
      /\ frame' = frame /\ plain' = plain /\ count' = count /\ tmp' = tmp
  BY <1>1 DEF card
<1>6. ~Landed(p) /\ ~Landed(p)'
  BY <1>0, <1>3, <1>4, LandedNow, LandedThen DEF Lands
<1>7. v \in Nat
  BY <1>0, RegsAssumption, QuotientNat DEF RegsInv, RegsType
<1>8. /\ halves' \in [Procs -> [high : Nat, low : Nat]] /\ halves'[p].high = v
      /\ \A q \in Procs : q # p => halves'[q] = halves[q]
  BY <1>1, <1>7 DEF RegsInv, RegsType
<1>9. AccessAt(p)'
  <2>1. KeptOf(p, a)'
    BY <1>3 DEF KeptOf
  <2>2. halves'[p].high <= count' \div Half
    BY <1>0, <1>5, <1>7, <1>8
  <2> QED
    BY <1>3, <1>4, <2>1, <2>2 DEF AccessAt
<1>10. PairsServed' /\ BusesServed'
  BY <1>3, <1>4, <1>5, StillServed
<1>11. RegsInv' /\ \A q \in Procs : q # p => (Landed(q)' <=> Landed(q))
  BY <1>1, <1>2, <1>3, <1>5, <1>8, <1>9, <1>10, CardAlone, ProcessStep DEF RegsInv, RegsType
<1> QED
  BY <1>4, <1>5, <1>6, <1>11, FileRests

(* The low half completes the counter. *)
LEMMA ReadLowStep ==
  ASSUME RegsInv, NEW p \in Procs, ReadLow(p)
  PROVE  RegsInv' /\ FileStep
<1>0. PICK a, v : a = Cur(p) /\ v = count % Half
  OBVIOUS
<1>1. /\ At(p, "low") /\ Advance(p) /\ halves' = [halves EXCEPT ![p]["low"] = v]
      /\ UNCHANGED <<card, tmp, begun>>
  BY <1>0 DEF ReadLow, ReadHalf
<1>2. total' = [q \in Procs |-> total'[q]]
  <2>1. PICK w : total' = [total EXCEPT ![p] = w]
    BY DEF ReadLow, ReadHalf
  <2> QED
    BY <2>1 DEF RegsInv, RegsType
<1>3. /\ job[p] # <<>> /\ Working(p) /\ Listed(a) /\ Waited(p) /\ ~Window(a) /\ ~Managed(a)
      /\ a.space = "count" /\ at[p] = 2 /\ Len(Steps(a)) = 2
  BY <1>0, <1>1, AtAStep, StepFacts DEF Window, Managed
<1>4. /\ \A q \in Procs : q # p => job'[q] = job[q] /\ at'[q] = at[q]
      /\ job'[p] = Tail(job[p]) /\ at'[p] = 1 /\ Working(p)'
  <2>1. /\ \A q \in Procs : q # p => job'[q] = job[q] /\ at'[q] = at[q]
        /\ ~(at[p] < 2) => job'[p] = Tail(job[p]) /\ at'[p] = 1
        /\ Working(p)'
    BY <1>0, <1>1, <1>3, Moving
  <2> QED
    BY <1>3, <2>1
<1>5. /\ core' = core /\ data' = data /\ command' = command /\ phy' = phy /\ mdio' = mdio
      /\ frame' = frame /\ plain' = plain /\ count' = count /\ tmp' = tmp
  BY <1>1 DEF card
<1>6. ~Landed(p) /\ ~Landed(p)'
  BY <1>0, <1>3, <1>4, LandedNow, LandedThen DEF Lands
<1>7. v \in Nat
  <2>1. count \in Int /\ Half \in Nat \ {0}
    BY RegsAssumption DEF RegsInv, RegsType
  <2>2. count % Half \in 0 .. Half - 1
    BY <2>1, Quotient
  <2>3. v \in 0 .. Half - 1
    BY <1>0, <2>2
  <2> QED
    BY <2>1, <2>3
<1>8. /\ halves' \in [Procs -> [high : Nat, low : Nat]]
      /\ \A q \in Procs : q # p => halves'[q] = halves[q]
  BY <1>1, <1>7 DEF RegsInv, RegsType
<1>9. AccessAt(p)'
  BY <1>0, <1>3, <1>4, <1>5, NextAccess
<1>10. PairsServed' /\ BusesServed'
  BY <1>3, <1>4, <1>5, StillServed
<1>11. RegsInv' /\ \A q \in Procs : q # p => (Landed(q)' <=> Landed(q))
  BY <1>1, <1>2, <1>3, <1>5, <1>8, <1>9, <1>10, CardAlone, ProcessStep, ZenonT(60) DEF RegsInv, RegsType
<1>12. Todo[p] = job[p] /\ Todo' = [Todo EXCEPT ![p] = Tail(Todo[p])]
  <2>1. /\ Todo' = [Todo EXCEPT ![p] = IF Landed(p)' THEN Tail(job'[p]) ELSE job'[p]]
        /\ Todo[p] = IF Landed(p) THEN Tail(job[p]) ELSE job[p]
    BY <1>4, <1>11, TodoStep
  <2> QED
    BY <1>4, <1>6, <2>1
<1>13. Regs' = Regs
  BY <1>5 DEF Regs, Held
<1>14. File!Count(p)
  <2>1. Head(Todo[p]) = a
    BY <1>0, <1>12 DEF Cur
  <2> HIDE DEF Todo, Regs
  <2> QED
    BY <1>3, <1>5, <1>12, <1>13, <2>1 DEF File!Count, File!Take, Regs, Todo
<1> QED
  BY <1>11, <1>14 DEF FileStep, File!Next

(* A process takes up a list whose resources nobody uses. *)
LEMMA BeginStep ==
  ASSUME JobsListed, RegsInv, NEW p \in Procs, Begin(p)
  PROVE  RegsInv' /\ FileStep
<1>1. PICK j \in Calls : /\ \A q \in Procs : Uses(j) \cap Uses(job[q]) = {}
                        /\ job' = [job EXCEPT ![p] = j]
  BY DEF Begin
<1>2. job[p] = <<>> /\ UNCHANGED <<card, at, tmp, halves, total>>
  BY DEF Begin
<1>3. /\ core' = core /\ data' = data /\ command' = command /\ phy' = phy /\ mdio' = mdio
      /\ frame' = frame /\ plain' = plain /\ count' = count /\ UNCHANGED card
      /\ at' = at /\ tmp' = tmp /\ halves' = halves /\ total' = total
  BY <1>2 DEF card
<1>4. /\ job'[p] = j /\ \A q \in Procs : q # p => job'[q] = job[q]
      /\ job' = [q \in Procs |-> job'[q]] /\ at[p] = 1
  BY <1>1, <1>2 DEF RegsInv, RegsType, Working
<1>5. WellListed(j) /\ (j # <<>> /\ j[1].write => j[1].keep = {})
  BY DEF JobsListed
<1>6. Working(p)'
  <2>1. ASSUME j # <<>> PROVE 1 \in 1 .. Len(Steps(Head(j)))
    BY <1>5, <2>1, ListFacts, HasSteps
  <2> QED
    BY <1>3, <1>4, <1>5, <2>1 DEF Working, Cur
<1>7. AccessAt(p)'
  <2>1. Waited(p)
    BY <1>2 DEF Waited
  <2>2. ~(j # <<>> /\ Head(j).write /\ Head(j).keep # {})
    BY <1>5, ListFacts
  <2> QED
    BY <1>1, <1>3, <1>4, <1>5, <2>1, <2>2, FirstStep
<1>8. \A q \in Procs : q # p => Working(q)' /\ AccessAt(q)' /\ (Landed(q)' <=> Landed(q))
  <2>1. \A q \in Procs : q # p => Still(q)
    BY <1>3, <1>4 DEF Still
  <2> QED
    BY <1>3, <2>1, CardAlone, OthersStay
<1>9. Apart'
  BY <1>1, <1>4 DEF Apart, RegsInv
<1>10. PairsServed' /\ BusesServed'
  <2>1. Waited(p)
    BY <1>2 DEF Waited
  <2> QED
    BY <1>3, <1>4, <2>1, StillServed
<1>11. RegsType'
  BY <1>3, <1>4 DEF RegsType, RegsInv
<1>12. RegsInv'
  BY <1>6, <1>7, <1>8, <1>9, <1>10, <1>11 DEF RegsInv
<1>13. ~Landed(p) /\ ~Landed(p)'
  <2>1. ~Lands(p) /\ ~Lands(p)'
    BY <1>2, <1>3, <1>4 DEF Lands
  <2> QED
    BY <1>6, <2>1, LandedNow, LandedThen DEF RegsInv
<1>14. Todo[p] = <<>> /\ Todo' = [Todo EXCEPT ![p] = j]
  <2>1. /\ Todo' = [Todo EXCEPT ![p] = IF Landed(p)' THEN Tail(job'[p]) ELSE job'[p]]
        /\ Todo[p] = IF Landed(p) THEN Tail(job[p]) ELSE job[p]
    BY <1>4, <1>8, TodoStep
  <2> QED
    BY <1>2, <1>4, <1>13, <2>1
<1>15. Regs' = Regs
  BY <1>3 DEF Regs, Held
<1>16. File!Begin(p)
  <2> HIDE DEF Todo, Regs
  <2> QED
    BY <1>3, <1>14, <1>15 DEF File!Begin, Regs, Todo
<1> QED
  BY <1>12, <1>16 DEF FileStep, File!Next

-----------------------------------------------------------------------------
(* The steps of the card. *)

(* What the card is still busy with is still waited for. *)
LEMMA ServedOn ==
  ASSUME RegsInv, job' = job, at' = at,
         \A x \in Pairs : command'[x].busy => command[x].busy,
         \A x \in Ports : frame'[x].busy => frame[x].busy
  PROVE  PairsServed' /\ BusesServed' /\ Apart' /\ \A p \in Procs : Working(p)'
<1>1. \A q \in Procs : \A s : (At(q, s)' <=> At(q, s)) /\ Cur(q)' = Cur(q) /\ job'[q] = job[q]
  BY DEF At, Cur
<1>2. PairsServed'
  BY <1>1 DEF RegsInv, PairsServed
<1>3. BusesServed'
  BY <1>1 DEF RegsInv, BusesServed
<1>4. Apart' /\ \A p \in Procs : Working(p)'
  BY DEF RegsInv, Apart, Working, Cur
<1> QED
  BY <1>2, <1>3, <1>4

(* The quotient of a count that goes up does not go down. *)
LEMMA QuotientGrows ==
  ASSUME NEW T \in Nat \ {0}, NEW n \in Nat
  PROVE  n \div T <= (n + 1) \div T
<1>1. n = T * (n \div T) + (n % T) /\ n % T \in 0 .. T - 1 /\ n \div T \in Int
  OBVIOUS
<1>2. /\ n + 1 = T * ((n + 1) \div T) + ((n + 1) % T)
      /\ (n + 1) % T \in 0 .. T - 1 /\ (n + 1) \div T \in Int
  OBVIOUS
<1> DEFINE a == n \div T
           b == (n + 1) \div T
           r == n % T
           s == (n + 1) % T
<1>3. /\ n = T * a + r /\ r \in 0 .. T - 1 /\ a \in Int
      /\ n + 1 = T * b + s /\ s \in 0 .. T - 1 /\ b \in Int
  BY <1>1, <1>2
<1> HIDE DEF a, b, r, s
<1>4. ASSUME b < a PROVE FALSE
  <2>1. T * b <= T * (a - 1)
    <3>1. a - 1 - b \in Nat
      BY <1>3, <1>4
    <3>2. T * (a - 1 - b) \in Nat
      BY <3>1
    <3>3. T * (a - 1 - b) = T * (a - 1) - T * b
      BY <1>3
    <3>4. T * (a - 1) \in Int /\ T * b \in Int
      BY <1>3
    <3> QED
      BY <3>2, <3>3, <3>4
  <2>2. T * (a - 1) = T * a - T
    BY <1>3
  <2>3. T * a \in Int /\ T * b \in Int
    BY <1>3
  <2> QED
    BY <1>3, <2>1, <2>2, <2>3
<1> QED
  BY <1>3, <1>4 DEF a, b

(* Traffic. *)
LEMMA TrafficStep ==
  ASSUME RegsInv, Traffic
  PROVE  RegsInv' /\ FileStep
<1>1. /\ count' = count + 1 /\ core' = core /\ data' = data /\ command' = command /\ phy' = phy
      /\ mdio' = mdio /\ frame' = frame /\ plain' = plain /\ job' = job /\ at' = at
      /\ tmp' = tmp /\ halves' = halves /\ total' = total
  BY DEF Traffic, Unread
<1>2. Elsewhere(<<"none", 0>>)
  <2>1. count \in Nat /\ count' \in Nat /\ Half \in Nat \ {0}
    BY <1>1, RegsAssumption DEF RegsInv, RegsType
  <2>2. count \div Half <= count' \div Half
    BY <1>1, <2>1, QuotientGrows
  <2> QED
    BY <1>1, <2>1, <2>2 DEF Elsewhere, PairSame, BusSame
<1>3. PairsServed' /\ BusesServed' /\ Apart'
  BY <1>1, ServedOn
<1>4. ASSUME NEW q \in Procs PROVE Working(q)' /\ AccessAt(q)' /\ (Landed(q)' <=> Landed(q))
  <2>1. Still(q) /\ Working(q) /\ AccessAt(q) /\ count \in Nat /\ halves[q].high \in Nat
    BY <1>1 DEF Still, RegsInv, RegsType
  <2>2. ASSUME job[q] # <<>>, Cur(q).space # "count" PROVE Resource(Cur(q)) # <<"none", 0>>
    <3>1. Listed(Cur(q))
      BY <2>1, <2>2, AtFacts
    <3> QED
      BY <2>2, <3>1 DEF Listed, Resource
  <2> QED
    BY <1>2, <2>1, <2>2, Undisturbed
<1>5. RegsType'
  BY <1>1 DEF RegsInv, RegsType
<1>6. RegsInv'
  BY <1>3, <1>4, <1>5 DEF RegsInv
<1>7. FileStep
  <2>1. Todo' = Todo
    BY <1>1, <1>4 DEF Todo
  <2>2. Regs' = Regs
    BY <1>1 DEF Regs, Held
  <2> QED
    BY <1>1, <2>1, <2>2 DEF FileStep
<1> QED
  BY <1>6, <1>7

(* Which registers a write through a window changes: the one. *)
LEMMA WindowWritten ==
  ASSUME PlacesApart, RegsInv, NEW a, Listed(a), Window(a), NEW v, UNCHANGED <<phy, plain>>,
         core' = [core EXCEPT ![Home(a)] = v]
  PROVE  Regs' = [Regs EXCEPT ![PlaceOf(a)] = v]
<1>1. a.port \in Ports /\ Home(a) \in Homes /\ DOMAIN core = Homes
  BY PortFacts, HomeFacts DEF RegsInv, RegsType
<1>2. /\ a.space = "mac" => a.reg \in MacRegs /\ Home(a) = MacHome(a.port, a.reg)
      /\ a.space = "pcs" => a.reg \in PcsRegs /\ Home(a) = PcsHome(a.port, a.reg)
      /\ a.space = "mac" \/ a.space = "pcs"
  BY HomeFacts DEF Window
<1>3. ASSUME NEW q \in Places
      PROVE  Held(q)' = IF q = PlaceOf(a) THEN v ELSE Held(q)
  <2>1. CASE q[1] = "mac"
    <3>1. PICK n \in Ports, r \in MacRegs : q = <<"mac", n, r>>
      BY <2>1 DEF Places
    <3>2. Held(q)' = core'[MacHome(n, r)] /\ Held(q) = core[MacHome(n, r)] /\ MacHome(n, r) \in Homes
      BY <3>1 DEF Held, Homes
    <3>3. MacHome(n, r) = Home(a) <=> q = PlaceOf(a)
      BY <1>1, <1>2, <3>1, HomesApart DEF PlaceOf
    <3> QED
      BY <1>1, <3>2, <3>3
  <2>2. CASE q[1] = "pcs"
    <3>1. PICK n \in Ports, r \in PcsRegs : q = <<"pcs", n, r>>
      BY <2>2 DEF Places
    <3>2. Held(q)' = core'[PcsHome(n, r)] /\ Held(q) = core[PcsHome(n, r)] /\ PcsHome(n, r) \in Homes
      BY <3>1 DEF Held, Homes
    <3>3. PcsHome(n, r) = Home(a) <=> q = PlaceOf(a)
      BY <1>1, <1>2, <3>1, HomesApart DEF PlaceOf
    <3> QED
      BY <1>1, <3>2, <3>3
  <2>3. CASE q[1] # "mac" /\ q[1] # "pcs"
    <3>1. (q[1] = "phy" \/ q[1] = "reg") /\ q # PlaceOf(a)
      BY <1>2, <2>3 DEF Places, PlaceOf
    <3>2. Held(q)' = Held(q)
      BY <3>1 DEF Held
    <3> QED
      BY <3>1, <3>2
  <2> QED
    BY <2>1, <2>2, <2>3
<1>4. PlaceOf(a) \in Places
  BY DEF Listed, Window
<1> QED
  BY <1>3, <1>4 DEF Regs

(* A window does what its address register was told. *)
LEMMA ServePairStep ==
  ASSUME JobsListed, RegsInv, NEW x \in Pairs, ServePair(x)
  PROVE  RegsInv' /\ FileStep
<1>1. command[x].busy
  BY DEF ServePair
<1>2. PICK p \in Procs : job[p] # <<>> /\ Window(Cur(p)) /\ Pair(Cur(p)) = x /\ At(p, "sleep")
  BY <1>1 DEF RegsInv, PairsServed
<1>3. PICK a, v : a = Cur(p) /\ v = Value(p)
  OBVIOUS
<1>4. /\ Working(p) /\ Listed(a) /\ Resource(a) \in Uses(job[p]) /\ Window(a) /\ Pair(a) = x
      /\ WindowAt(p, a, x) /\ KeptOf(p, a) /\ ~Managed(a) /\ a.space # "count"
      /\ at[p] = IF a.write THEN 3 ELSE 2
  BY <1>2, <1>3, AtAStep, StepFacts DEF Window, Managed
<1>5. /\ command[x] = Order(a) /\ Home(a) \in Homes /\ Home(a) = <<x, command[x].address>>
      /\ Held(PlaceOf(a)) = core[Home(a)] /\ Resource(a) = <<"pair", x>>
      /\ v \in SUBSET AllOnes /\ PlaceOf(a) \in Places
  <2>1. command[x] = Order(a)
    BY <1>1, <1>4 DEF WindowAt
  <2> QED
    BY <1>3, <1>4, <2>1, HomeFacts, ValueType DEF Order, Home, Resource, Window, Listed
<1>6. /\ phy' = phy /\ mdio' = mdio /\ frame' = frame /\ plain' = plain /\ count' = count
      /\ job' = job /\ at' = at /\ tmp' = tmp /\ halves' = halves /\ total' = total
      /\ command' = [command EXCEPT ![x] = NoCommand]
  BY DEF ServePair, Unread
<1>7. /\ a.write => core' = [core EXCEPT ![Home(a)] = data[x]] /\ data' = data /\ data[x] = v
      /\ ~a.write => data' = [data EXCEPT ![x] = core[Home(a)]] /\ core' = core
  <2>1. DOMAIN core = Homes /\ command[x].write = a.write
    BY <1>5 DEF RegsInv, RegsType, Order
  <2>2. a.write => data[x] = v
    BY <1>3, <1>4 DEF WindowAt
  <2> QED
    BY <1>5, <2>1, <2>2 DEF ServePair
<1>8. /\ command'[x] = NoCommand /\ ~command'[x].busy /\ command' = [y \in Pairs |-> command'[y]]
      /\ \A y \in Pairs : y # x => command'[y] = command[y]
  BY <1>6 DEF NoCommand, RegsInv, RegsType
<1>9. RegsType'
  <2>1. core \in [Homes -> SUBSET AllOnes] /\ data \in [Pairs -> SUBSET AllOnes]
    BY DEF RegsInv, RegsType
  <2>2. core' \in [Homes -> SUBSET AllOnes] /\ data' \in [Pairs -> SUBSET AllOnes]
    <3>1. CASE a.write
      BY <1>5, <1>7, <2>1, <3>1
    <3>2. CASE ~a.write
      BY <1>5, <1>7, <2>1, <3>2
    <3> QED
      BY <3>1, <3>2
  <2> QED
    BY <1>6, <1>8, <2>2 DEF RegsInv, RegsType
<1>10. Elsewhere(<<"pair", x>>)
  <2>1. count' \in Nat /\ count \div Half <= count' \div Half
    BY <1>6, RegsAssumption DEF RegsInv, RegsType
  <2>2. ASSUME NEW y \in Pairs, y # x PROVE PairSame(y)
    <3>1. data'[y] = data[y]
      BY <1>7, <2>2 DEF RegsInv, RegsType
    <3>2. ASSUME NEW h \in Homes, h[1] = y PROVE core'[h] = core[h]
      <4>1. h # Home(a)
        BY <1>5, <2>2, <3>2
      <4> QED
        BY <1>7, <4>1 DEF RegsInv, RegsType
    <3> QED
      BY <1>8, <2>2, <3>1, <3>2 DEF PairSame
  <2> QED
    BY <1>6, <2>1, <2>2 DEF Elsewhere, BusSame
<1>11. PairsServed' /\ BusesServed' /\ Apart' /\ Working(p)'
  BY <1>6, <1>8, ServedOn
<1>12. \A q \in Procs : q # p => Working(q)' /\ AccessAt(q)' /\ (Landed(q)' <=> Landed(q))
  <2>1. \A q \in Procs : q # p => Still(q)
    BY <1>6 DEF Still
  <2> QED
    BY <1>4, <1>5, <1>10, <2>1, OthersStay
<1>13. ~Landed(p) /\ (Landed(p)' <=> a.write) /\ Cur(p)' = a
  <2>1. (Landed(p) <=> Lands(p)) /\ (Landed(p)' <=> Lands(p)')
    BY <1>4, <1>11, LandedNow, LandedThen
  <2>2. Cur(p)' = a
    BY <1>3, <1>6 DEF Cur
  <2>3. ~Lands(p)
    BY <1>1, <1>3, <1>4 DEF Lands
  <2>4. Lands(p)' <=> a.write
    BY <1>2, <1>4, <1>6, <1>8, <2>2 DEF Lands
  <2> QED
    BY <2>1, <2>2, <2>3, <2>4
<1>14. AccessAt(p)'
  <2>1. Value(p)' = v
    BY <1>3, <1>6 DEF Value, Cur
  <2>2. WindowAt(p, a, x)'
    <3>1. CASE a.write
      BY <1>4, <1>6, <1>7, <1>8, <2>1, <3>1 DEF WindowAt
    <3>2. CASE ~a.write
      <4>1. data'[x] = core'[Home(a)]
        BY <1>7, <3>2 DEF RegsInv, RegsType
      <4> QED
        BY <1>4, <1>6, <1>8, <3>2, <4>1 DEF WindowAt, Home, Pair, Address
    <3> QED
      BY <3>1, <3>2
  <2>3. KeptOf(p, a)'
    BY <1>13 DEF KeptOf
  <2> QED
    BY <1>4, <1>13, <2>2, <2>3 DEF AccessAt
<1>15. RegsInv'
  BY <1>9, <1>11, <1>12, <1>14 DEF RegsInv
<1>16. FileStep
  <2>1. CASE ~a.write
    BY <1>6, <1>7, <1>12, <1>13, <2>1, FileRests
  <2>2. CASE a.write
    <3>1. Regs' = [Regs EXCEPT ![PlaceOf(a)] = v]
      <4>1. core' = [core EXCEPT ![Home(a)] = v] /\ UNCHANGED <<phy, plain>> /\ PlacesApart
        BY <1>6, <1>7, <2>2 DEF JobsListed
      <4> QED
        BY <1>4, <4>1, WindowWritten
    <3>2. Todo[p] = job[p] /\ Todo' = [Todo EXCEPT ![p] = Tail(Todo[p])]
      <4>1. /\ Todo' = [Todo EXCEPT ![p] = IF Landed(p)' THEN Tail(job'[p]) ELSE job'[p]]
            /\ Todo[p] = IF Landed(p) THEN Tail(job[p]) ELSE job[p]
        BY <1>6, <1>12, TodoStep
      <4> QED
        BY <1>6, <1>13, <2>2, <4>1
    <3>3. a.keep # {} => tmp[p] = Held(PlaceOf(a))
      BY <1>4, <1>13, <2>2 DEF KeptOf, Window
    <3> QED
      BY <1>2, <1>3, <1>5, <1>6, <2>2, <3>1, <3>2, <3>3, FileWrites
  <2> QED
    BY <2>1, <2>2
<1> QED
  BY <1>15, <1>16

(* Which registers a write over a bus changes: the one. *)
LEMMA BusWritten ==
  ASSUME RegsInv, NEW a, Listed(a), Managed(a), NEW v, UNCHANGED <<core, plain>>,
         phy' = [phy EXCEPT ![<<3 - a.port, a.reg>>] = v]
  PROVE  Regs' = [Regs EXCEPT ![PlaceOf(a)] = v]
<1>1. /\ a.port \in Ports /\ a.reg \in PhyRegs /\ DOMAIN phy = Ports \X PhyRegs
      /\ a.space = "phy"
  BY PortFacts, PhyFacts DEF RegsInv, RegsType, Managed
<1>2. ASSUME NEW q \in Places
      PROVE  Held(q)' = IF q = PlaceOf(a) THEN v ELSE Held(q)
  <2>1. CASE q[1] = "phy"
    <3>1. PICK n \in Ports, r \in PhyRegs : q = <<"phy", n, r>>
      BY <2>1 DEF Places
    <3>2. Held(q)' = phy'[<<3 - n, r>>] /\ Held(q) = phy[<<3 - n, r>>] /\ 3 - n \in Ports
      BY <3>1 DEF Held, PhyHome, Ports
    <3>3. <<3 - n, r>> = <<3 - a.port, a.reg>> <=> q = PlaceOf(a)
      <4>1. 3 - n = 3 - a.port <=> n = a.port
        BY <1>1 DEF Ports
      <4> QED
        BY <1>1, <3>1, <4>1 DEF PlaceOf
    <3>4. <<3 - n, r>> \in DOMAIN phy
      BY <1>1, <3>2
    <3> QED
      BY <3>2, <3>3, <3>4
  <2>2. CASE q[1] # "phy"
    <3>1. q[1] \in {"mac", "pcs", "reg"} /\ q # PlaceOf(a)
      BY <1>1, <2>2 DEF Places, PlaceOf
    <3>2. Held(q)' = Held(q)
      BY <3>1 DEF Held
    <3> QED
      BY <3>1, <3>2
  <2> QED
    BY <2>1, <2>2
<1>3. PlaceOf(a) \in Places
  BY DEF Listed, Managed
<1> QED
  BY <1>2, <1>3 DEF Regs

(* A bus does what its MDIO register was told. *)
LEMMA ServeMdioStep ==
  ASSUME RegsInv, NEW x \in Ports, ServeMdio(x)
  PROVE  RegsInv' /\ FileStep
<1>1. frame[x].busy
  BY DEF ServeMdio
<1>2. PICK p \in Procs : job[p] # <<>> /\ Managed(Cur(p)) /\ 3 - Cur(p).port = x /\ At(p, "rest")
  BY <1>1 DEF RegsInv, BusesServed
<1>3. PICK a, v : a = Cur(p) /\ v = Value(p)
  OBVIOUS
<1>4. /\ Working(p) /\ Listed(a) /\ Resource(a) \in Uses(job[p]) /\ Managed(a) /\ 3 - a.port = x
      /\ ManagedAt(p, a, x) /\ KeptOf(p, a) /\ ~Window(a) /\ a.space # "count" /\ at[p] = 2
  BY <1>2, <1>3, AtAStep, StepFacts DEF Window, Managed
<1>5. /\ frame[x] = Frame(p) /\ frame[x].write = a.write /\ frame[x].value = v
      /\ <<frame[x].phyad, frame[x].regad>> = <<x, a.reg>> /\ frame[x].phyad = x
  <2>1. frame[x] = Frame(p)
    BY <1>1, <1>4 DEF ManagedAt
  <2> QED
    BY <1>3, <1>4, <2>1 DEF Frame, Cur
<1>6. /\ <<x, a.reg>> \in Ports \X PhyRegs /\ a.port \in Ports /\ Resource(a) = <<"mdio", a.port>>
      /\ 3 - x = a.port /\ a.reg \in PhyRegs /\ v \in SUBSET Low16 /\ PlaceOf(a) \in Places
  <2>1. a.port \in Ports /\ <<3 - a.port, a.reg>> \in Ports \X PhyRegs /\ a.reg \in PhyRegs
    BY <1>4, PortFacts, PhyFacts
  <2>2. 3 - x = a.port
    BY <1>4, <2>1 DEF Ports
  <2>3. v \subseteq Low16
    BY <1>3, <1>4 DEF Value, Cur, Managed, Listed
  <2> QED
    BY <1>3, <1>4, <2>1, <2>2, <2>3 DEF Resource, Managed, Listed
<1>7. /\ core' = core /\ data' = data /\ command' = command /\ plain' = plain /\ count' = count
      /\ job' = job /\ at' = at /\ tmp' = tmp /\ halves' = halves /\ total' = total
      /\ frame' = [frame EXCEPT ![x] = NoCommand]
  BY DEF ServeMdio, Unread
<1>8. /\ a.write => phy' = [phy EXCEPT ![<<x, a.reg>>] = v] /\ mdio' = mdio
      /\ ~a.write => mdio' = [mdio EXCEPT ![x] = phy[<<x, a.reg>>]] /\ phy' = phy
  <2>1. DOMAIN phy = Ports \X PhyRegs
    BY DEF RegsInv, RegsType
  <2> QED
    BY <1>5, <1>6, <2>1 DEF ServeMdio
<1>9. /\ ~frame'[x].busy /\ frame' = [y \in Ports |-> frame'[y]]
      /\ \A y \in Ports : y # x => frame'[y] = frame[y]
  BY <1>7 DEF NoCommand, RegsInv, RegsType
<1>10. RegsType'
  <2>1. phy \in [Ports \X PhyRegs -> SUBSET Low16] /\ mdio \in [Ports -> SUBSET Low16]
    BY DEF RegsInv, RegsType
  <2>2. phy' \in [Ports \X PhyRegs -> SUBSET Low16] /\ mdio' \in [Ports -> SUBSET Low16]
    <3>1. CASE a.write
      BY <1>6, <1>8, <2>1, <3>1
    <3>2. CASE ~a.write
      BY <1>6, <1>8, <2>1, <3>2
    <3> QED
      BY <3>1, <3>2
  <2> QED
    BY <1>7, <1>9, <2>2 DEF RegsInv, RegsType
<1>11. Elsewhere(<<"mdio", a.port>>)
  <2>1. count' \in Nat /\ count \div Half <= count' \div Half
    BY <1>7, RegsAssumption DEF RegsInv, RegsType
  <2>2. ASSUME NEW y \in Ports, y # x PROVE BusSame(y)
    <3>1. mdio'[y] = mdio[y]
      BY <1>8, <2>2 DEF RegsInv, RegsType
    <3>2. ASSUME NEW r \in PhyRegs PROVE phy'[<<y, r>>] = phy[<<y, r>>]
      <4>1. <<y, r>> # <<x, a.reg>> /\ <<y, r>> \in Ports \X PhyRegs
        BY <2>2
      <4> QED
        BY <1>8, <4>1 DEF RegsInv, RegsType
    <3> QED
      BY <1>9, <2>2, <3>1, <3>2 DEF BusSame
  <2>3. \A y \in Ports : <<"mdio", a.port>> # <<"mdio", 3 - y>> => y # x
    BY <1>6
  <2> QED
    BY <1>7, <2>1, <2>2, <2>3 DEF Elsewhere, PairSame
<1>12. PairsServed' /\ BusesServed' /\ Apart' /\ Working(p)'
  BY <1>7, <1>9, ServedOn
<1>13. \A q \in Procs : q # p => Working(q)' /\ AccessAt(q)' /\ (Landed(q)' <=> Landed(q))
  <2>1. \A q \in Procs : q # p => Still(q)
    BY <1>7 DEF Still
  <2> QED
    BY <1>4, <1>6, <1>11, <2>1, OthersStay
<1>14. ~Landed(p) /\ (Landed(p)' <=> a.write) /\ Cur(p)' = a
  <2>1. (Landed(p) <=> Lands(p)) /\ (Landed(p)' <=> Lands(p)')
    BY <1>4, <1>12, LandedNow, LandedThen
  <2>2. Cur(p)' = a
    BY <1>3, <1>7 DEF Cur
  <2>3. ~Lands(p)
    BY <1>1, <1>3, <1>4 DEF Lands
  <2>4. Lands(p)' <=> a.write
    BY <1>2, <1>4, <1>7, <1>9, <2>2 DEF Lands
  <2> QED
    BY <2>1, <2>2, <2>3, <2>4
<1>15. AccessAt(p)'
  <2>1. ManagedAt(p, a, x)'
    <3>1. ~a.write => mdio'[x] = phy'[<<x, a.reg>>]
      BY <1>8 DEF RegsInv, RegsType
    <3> QED
      BY <1>9, <3>1 DEF ManagedAt
  <2>2. KeptOf(p, a)'
    BY <1>14 DEF KeptOf
  <2> QED
    BY <1>4, <1>14, <2>1, <2>2 DEF AccessAt
<1>16. RegsInv'
  BY <1>10, <1>12, <1>13, <1>15 DEF RegsInv
<1>17. FileStep
  <2>1. CASE ~a.write
    BY <1>7, <1>8, <1>13, <1>14, <2>1, FileRests
  <2>2. CASE a.write
    <3>1. Regs' = [Regs EXCEPT ![PlaceOf(a)] = v]
      BY <1>4, <1>7, <1>8, <2>2, BusWritten
    <3>2. Todo[p] = job[p] /\ Todo' = [Todo EXCEPT ![p] = Tail(Todo[p])]
      <4>1. /\ Todo' = [Todo EXCEPT ![p] = IF Landed(p)' THEN Tail(job'[p]) ELSE job'[p]]
            /\ Todo[p] = IF Landed(p) THEN Tail(job[p]) ELSE job[p]
        BY <1>7, <1>13, TodoStep
      <4> QED
        BY <1>7, <1>14, <2>2, <4>1
    <3>3. a.keep # {} => tmp[p] = Held(PlaceOf(a))
      BY <1>4, <1>14, <2>2 DEF KeptOf, Managed
    <3> QED
      BY <1>2, <1>3, <1>6, <1>7, <2>2, <3>1, <3>2, <3>3, FileWrites
  <2> QED
    BY <2>1, <2>2
<1> QED
  BY <1>16, <1>17

-----------------------------------------------------------------------------
(* Together. *)

(* At first nobody is at anything. *)
LEMMA RegsBegin ==
  ASSUME Init
  PROVE  RegsInv /\ Regs = [q \in Places |-> {}] /\ Todo = [p \in Procs |-> <<>>]
<1>1. RegsType
  BY DEF Init, RegsType, NoCommand
<1>2. ASSUME NEW p \in Procs PROVE Working(p) /\ AccessAt(p) /\ job[p] = <<>> /\ ~Landed(p)
  <2>1. job[p] = <<>> /\ at[p] = 1
    BY DEF Init
  <2>2. WellListed(<<>>)
    BY DEF WellListed
  <2> QED
    BY <2>1, <2>2 DEF Working, AccessAt, Landed
<1>3. Apart
  BY <1>2 DEF Apart, Uses
<1>4. PairsServed /\ BusesServed
  BY DEF Init, PairsServed, BusesServed, NoCommand
<1>5. ASSUME NEW q \in Places PROVE Held(q) = {}
  <2>1. CASE \E n \in Ports, r \in MacRegs : q = <<"mac", n, r>>
    BY <2>1 DEF Init, Held, Homes
  <2>2. CASE \E n \in Ports, r \in PcsRegs : q = <<"pcs", n, r>>
    BY <2>2 DEF Init, Held, Homes
  <2>3. CASE \E n \in Ports, r \in PhyRegs : q = <<"phy", n, r>>
    <3>1. PICK n \in Ports, r \in PhyRegs : q = <<"phy", n, r>>
      BY <2>3
    <3>2. Held(q) = phy[<<3 - n, r>>] /\ 3 - n \in Ports
      BY <3>1 DEF Held, PhyHome, Ports
    <3> QED
      BY <3>2 DEF Init
  <2>4. CASE \E r \in PlainRegs : q = <<"reg", 0, r>>
    BY <2>4 DEF Init, Held
  <2> QED
    BY <2>1, <2>2, <2>3, <2>4 DEF Places
<1>6. Regs = [q \in Places |-> {}]
  BY <1>5 DEF Regs
<1>7. Todo = [p \in Procs |-> <<>>]
  BY <1>2 DEF Todo
<1> QED
  BY <1>1, <1>2, <1>3, <1>4, <1>6, <1>7 DEF RegsInv

(* Every step preserves the invariant and is one of the register file. *)
LEMMA RegsNext ==
  ASSUME JobsListed, RegsInv, [Next]_vars
  PROVE  RegsInv' /\ FileStep
<1>1. CASE UNCHANGED vars
  <2>1. /\ core' = core /\ data' = data /\ command' = command /\ phy' = phy
        /\ mdio' = mdio /\ frame' = frame /\ plain' = plain /\ count' = count /\ job' = job
        /\ at' = at /\ tmp' = tmp /\ halves' = halves /\ total' = total
    BY <1>1 DEF vars, card
  <2>2. PairsServed' /\ BusesServed' /\ Apart' /\ \A p \in Procs : Working(p)'
    BY <2>1, ServedOn
  <2>3. ASSUME NEW q \in Procs PROVE Landed(q)' <=> Landed(q)
    BY <2>1, SMTT(30) DEF Landed, At
  <2>4. ASSUME NEW q \in Procs PROVE AccessAt(q)'
    <3>1. AccessAt(q)
      BY DEF RegsInv
    <3> QED
      BY <2>1, <3>1 DEF AccessAt, WindowAt, ManagedAt, KeptOf, Value, Frame, Held, Cur, Landed, At
  <2>5. RegsType'
    BY <2>1 DEF RegsInv, RegsType
  <2>6. RegsInv'
    BY <2>2, <2>4, <2>5 DEF RegsInv
  <2>7. Todo' = Todo /\ Regs' = Regs
    BY <2>1, <2>3 DEF Todo, Regs, Held
  <2> QED
    BY <2>1, <2>6, <2>7 DEF FileStep
<1>2. ASSUME NEW p \in Procs, Process(p) PROVE RegsInv' /\ FileStep
  BY <1>2, BeginStep, RefuseStep, WriteDataStep, WriteAddrStep, SleepStep, FetchStep,
     WriteFrameStep, RestStep, CollectStep, PutStep, GetStep, ReadHighStep, ReadLowStep
     DEF Process
<1>3. ASSUME NEW x \in Pairs, ServePair(x) PROVE RegsInv' /\ FileStep
  BY <1>3, ServePairStep
<1>4. ASSUME NEW x \in Ports, ServeMdio(x) PROVE RegsInv' /\ FileStep
  BY <1>4, ServeMdioStep
<1>5. ASSUME Traffic PROVE RegsInv' /\ FileStep
  BY <1>5, TrafficStep
<1> QED
  BY <1>1, <1>2, <1>3, <1>4, <1>5 DEF Next

(* Between the accesses of a function its window, its bus and what it has read
   are what it left them. *)
THEOREM RegsInductive ==
  ASSUME JobsListed PROVE Spec => []RegsInv
<1>1. Init => RegsInv
  BY RegsBegin
<1>2. RegsInv /\ [Next]_vars => RegsInv'
  BY RegsNext
<1> QED
  BY <1>1, <1>2, PTL DEF Spec

(* The windows, buses and plain registers behave as one register per place,
   read and written as a whole, whatever lists of accesses the processes work
   through: each access reaches the register its arguments name once they are
   cut to the width of the function's parameters. *)
THEOREM RegistersImplemented ==
  ASSUME JobsListed PROVE Spec => ImplementsRegisters
<1>1. Init => File!Init
  <2> SUFFICES ASSUME Init PROVE File!Init
    OBVIOUS
  <2>1. Regs = [q \in Places |-> {}] /\ Todo = [p \in Procs |-> <<>>] /\ tmp = [p \in Procs |-> {}]
    BY RegsBegin DEF Init
  <2> QED
    BY <2>1 DEF File!Init, Regs, Todo
<1>2. RegsInv /\ [Next]_vars => [File!Next]_(File!vars)
  <2> SUFFICES ASSUME RegsInv, [Next]_vars PROVE [File!Next]_(File!vars)
    OBVIOUS
  <2>1. FileStep
    BY RegsNext
  <2> QED
    BY <2>1 DEF FileStep, File!vars, Regs, Todo
<1> QED
  BY <1>1, <1>2, RegsInductive, PTL DEF Spec, ImplementsRegisters, File!Spec

-----------------------------------------------------------------------------
(* The counters. *)

(* Half of a counter and what is above it. *)
LEMMA Halves ==
  ASSUME NEW T \in Nat \ {0}, NEW n \in Nat, NEW h \in Nat, h <= n \div T
  PROVE  h * T + (n % T) <= n /\ (h * T + (n % T)) % T = n % T
<1>1. n = T * (n \div T) + (n % T) /\ n % T \in 0 .. T - 1 /\ n \div T \in Int
  OBVIOUS
<1> DEFINE a == n \div T
           r == n % T
<1>2. n = T * a + r /\ r \in 0 .. T - 1 /\ a \in Int /\ h <= a
  BY <1>1
<1>3. h * T + r = T * h + r /\ h * T + r \in Int
  BY <1>2
<1> HIDE DEF a, r
<1>4. h * T + r <= n
  <2>1. T * (a - h) \in Nat
    <3>1. a - h \in Nat
      BY <1>2
    <3> QED
      BY <3>1
  <2>2. T * (a - h) = T * a - T * h /\ T * a \in Int /\ T * h \in Int
    BY <1>2
  <2> QED
    BY <1>2, <1>3, <2>1, <2>2
<1>5. (h * T + r) % T = r
  BY <1>2, <1>3, Remainder
<1> QED
  BY <1>4, <1>5 DEF r

(* The second half of a counter is read by the process itself, and completes it. *)
LEMMA CountStep ==
  ASSUME RegsInv, [Next]_vars, NEW p \in Procs,
         at[p] = 2, job[p] # <<>>, Cur(p).space = "count", at'[p] = 1
  PROVE  ReadLow(p)
<1>1. at'[p] # at[p]
  OBVIOUS
<1>2. At(p, "low")
  <2>1. Listed(Cur(p)) /\ Working(p)
    BY AtFacts DEF RegsInv
  <2>2. Steps(Cur(p)) = Counter
    BY <2>1, StepsOf
  <2>3. Counter[2] = "low"
    BY DEF Counter
  <2> QED
    BY <2>2, <2>3 DEF At, Cur
<1>3. ASSUME NEW q \in Procs, Process(q) PROVE ReadLow(p)
  <2>1. ASSUME q # p, job[q] # <<>>, Advance(q) PROVE FALSE
    BY <1>1, <2>1, Moving
  <2>2. ~Begin(q)
    BY <1>1 DEF Begin
  <2>3. \E s : At(q, s) /\ Advance(q) /\ (s = "low" => ReadLow(q))
    BY <1>3, <2>2 DEF Process, Refuse, WriteData, WriteAddr, Sleep, Fetch, WriteFrame, Rest,
                      Collect, Put, Get, ReadHigh, ReadLow, ReadHalf
  <2>4. q = p
    BY <2>1, <2>3 DEF At
  <2> QED
    BY <1>2, <2>3, <2>4 DEF At
<1>4. ~UNCHANGED vars /\ ~Traffic /\ \A x \in Pairs : ~ServePair(x)
  BY <1>1 DEF vars, Traffic, ServePair
<1>5. \A x \in Ports : ~ServeMdio(x)
  BY <1>1 DEF ServeMdio
<1> QED
  BY <1>3, <1>4, <1>5 DEF Next

(* A counter read in two halves, the high one first, is never ahead of the card's
   and has its low half, however much traffic comes in between. *)
THEOREM CounterBehind ==
  ASSUME JobsListed PROVE Spec => CountNeverAhead
<1>1. RegsInv /\ [Next]_vars =>
        [\A p \in Procs :
           at[p] = 2 /\ job[p] # <<>> /\ Head(job[p]).space = "count" /\ at'[p] = 1 =>
             /\ total'[p] <= count
             /\ total'[p] % Half = count % Half]_vars
  <2> SUFFICES ASSUME RegsInv, [Next]_vars, NEW p \in Procs,
                      at[p] = 2, job[p] # <<>>, Head(job[p]).space = "count", at'[p] = 1
               PROVE  total'[p] <= count /\ total'[p] % Half = count % Half
    OBVIOUS
  <2>1. ReadLow(p)
    BY CountStep DEF Cur
  <2>2. PICK h, r : h = halves[p].high /\ r = count % Half
    OBVIOUS
  <2>3. /\ halves' = [halves EXCEPT ![p]["low"] = r]
        /\ total' = [total EXCEPT ![p] = halves'[p].high * Half + halves'[p].low]
    BY <2>1, <2>2 DEF ReadLow, ReadHalf
  <2>4. halves'[p].high = h /\ halves'[p].low = r /\ h \in Nat
    BY <2>2, <2>3 DEF RegsInv, RegsType
  <2>5. total'[p] = h * Half + r
    BY <2>3, <2>4 DEF RegsInv, RegsType
  <2>6. h <= count \div Half
    BY <2>2 DEF RegsInv, AccessAt, Cur
  <2> QED
    BY <2>2, <2>4, <2>5, <2>6, Halves, RegsAssumption DEF RegsInv, RegsType
<1> QED
  BY <1>1, RegsInductive, PTL DEF Spec, CountNeverAhead

-----------------------------------------------------------------------------
(* The flags of the PCSs. *)

(* The writes of a list to the control register of a PCS change a flag, or come
   from a menu. *)
FlagList(j) ==
  \A i \in 1 .. Len(j) : j[i].space = "pcs" /\ j[i].write /\ j[i].reg = 0 => FlagWrite(j[i])

(* A control register has 16 bits. *)
FlagInv ==
  /\ \A p \in Procs : FlagList(job[p])
  /\ \A port \in Ports : core[PcsHome(port, 0)] \subseteq 0 .. 15

(* What becomes of the list of a process in a step. *)
LEMMA JobStep ==
  ASSUME RegsInv, [Next]_vars, NEW p \in Procs
  PROVE  \/ job'[p] = job[p]
         \/ job[p] # <<>> /\ job'[p] = Tail(job[p])
         \/ job'[p] \in Calls
<1>1. ASSUME NEW q \in Procs, job[q] # <<>>, Advance(q)
      PROVE  job'[p] = job[p] \/ (job[p] # <<>> /\ job'[p] = Tail(job[p]))
  BY <1>1, Moving
<1>2. ASSUME NEW q \in Procs, Process(q)
      PROVE  \/ job'[p] = job[p]
             \/ job[p] # <<>> /\ job'[p] = Tail(job[p])
             \/ job'[p] \in Calls
  <2>1. CASE Begin(q)
    BY <2>1 DEF Begin, RegsInv, RegsType
  <2>2. CASE ~Begin(q)
    <3>1. \E s : At(q, s) /\ Advance(q)
      BY <1>2, <2>2 DEF Process, Refuse, WriteData, WriteAddr, Sleep, Fetch, WriteFrame, Rest,
                        Collect, Put, Get, ReadHigh, ReadLow, ReadHalf
    <3> QED
      BY <1>1, <3>1 DEF At
  <2> QED
    BY <2>1, <2>2
<1>3. ASSUME UNCHANGED vars \/ Traffic \/ (\E x \in Pairs : ServePair(x)) \/ \E x \in Ports : ServeMdio(x)
      PROVE  job' = job
  BY <1>3 DEF vars, Traffic, ServePair, ServeMdio
<1> QED
  BY <1>2, <1>3 DEF Next

(* A register behind a window changes when the window carries out the write of a
   process that waits for it. *)
LEMMA CoreStep ==
  ASSUME RegsInv, [Next]_vars, NEW h \in Homes, core'[h] # core[h]
  PROVE  \E p \in Procs :
           /\ job[p] # <<>> /\ Listed(Cur(p)) /\ Window(Cur(p)) /\ Cur(p).write
           /\ Home(Cur(p)) = h /\ core'[h] = Value(p)
           /\ Cur(p).keep # {} => tmp[p] = core[h]
<1>1. PICK x \in Pairs : ServePair(x)
  <2>1. ASSUME NEW q \in Procs, Process(q) PROVE core' = core
    BY <2>1 DEF Process, Begin, Refuse, WriteData, WriteAddr, Sleep, Fetch, WriteFrame, Rest,
                Collect, Put, Get, ReadHigh, ReadLow, ReadHalf, card
  <2>2. ASSUME UNCHANGED vars \/ Traffic \/ \E y \in Ports : ServeMdio(y) PROVE core' = core
    BY <2>2 DEF vars, card, Traffic, ServeMdio
  <2> QED
    BY <2>1, <2>2 DEF Next
<1>2. command[x].busy
  BY <1>1 DEF ServePair
<1>3. PICK p \in Procs : job[p] # <<>> /\ Window(Cur(p)) /\ Pair(Cur(p)) = x /\ At(p, "sleep")
  BY <1>2 DEF RegsInv, PairsServed
<1>4. PICK a, v : a = Cur(p) /\ v = Value(p)
  OBVIOUS
<1>5. /\ Working(p) /\ Listed(a) /\ Window(a) /\ Pair(a) = x
      /\ WindowAt(p, a, x) /\ KeptOf(p, a) /\ at[p] = IF a.write THEN 3 ELSE 2
  BY <1>3, <1>4, AtAStep, StepFacts
<1>6. /\ Home(a) = <<x, command[x].address>> /\ command[x].write = a.write
      /\ Held(PlaceOf(a)) = core[Home(a)] /\ Home(a) \in Homes
  <2>1. command[x] = Order(a)
    BY <1>2, <1>5 DEF WindowAt
  <2> QED
    BY <1>5, <2>1, HomeFacts DEF Order, Home
<1>7. a.write
  BY <1>1, <1>6 DEF ServePair
<1>8. core' = [core EXCEPT ![Home(a)] = data[x]] /\ data[x] = v
  BY <1>1, <1>4, <1>5, <1>6, <1>7 DEF ServePair, WindowAt
<1>9. h = Home(a) /\ core'[h] = v
  BY <1>6, <1>8 DEF RegsInv, RegsType
<1>10. a.keep # {} => tmp[p] = core[h]
  <2>1. ~Landed(p)
    BY <1>2, <1>4, <1>5, LandedNow DEF Lands, Managed, Window
  <2> QED
    BY <1>5, <1>6, <1>7, <1>9, <2>1 DEF KeptOf, Window
<1> QED
  BY <1>3, <1>4, <1>5, <1>7, <1>9, <1>10

(* What a write to the control register of a PCS does to it. *)
LEMMA ControlWritten ==
  ASSUME JobsListed, FlagJobs, RegsInv, FlagInv, [Next]_vars, NEW port \in Ports,
         core'[PcsHome(port, 0)] # core[PcsHome(port, 0)]
  PROVE  /\ core'[PcsHome(port, 0)] \subseteq 0 .. 15
         /\ \/ MenuWriteTo(port)
            \/ \E b \in 0 .. 15 : \/ core'[PcsHome(port, 0)] = core[PcsHome(port, 0)] \cup {b}
                                  \/ core'[PcsHome(port, 0)] = core[PcsHome(port, 0)] \ {b}
<1> DEFINE h == PcsHome(port, 0)
<1>0. 0 \in PcsRegs
  BY DEF FlagJobs
<1>1. h \in Homes
  BY <1>0 DEF Homes
<1>2. PICK p \in Procs :
        /\ job[p] # <<>> /\ Listed(Cur(p)) /\ Window(Cur(p)) /\ Cur(p).write
        /\ Home(Cur(p)) = h /\ core'[h] = Value(p)
        /\ Cur(p).keep # {} => tmp[p] = core[h]
  BY <1>1, CoreStep
<1>3. PICK a, old, new : a = Cur(p) /\ old = core[h] /\ new = core'[h]
  OBVIOUS
<1>4. a.space = "pcs" /\ a.port = port /\ a.reg = 0
  <2>1. /\ a.port \in Ports
        /\ a.space = "mac" => a.reg \in MacRegs /\ MacHome(a.port, a.reg) = PcsHome(port, 0)
        /\ a.space = "pcs" => a.reg \in PcsRegs /\ PcsHome(a.port, a.reg) = PcsHome(port, 0)
    BY <1>2, <1>3, HomeFacts, PortFacts
  <2>2. PlacesApart
    BY DEF JobsListed
  <2> QED
    BY <1>0, <1>2, <1>3, <2>1, <2>2, HomesApart DEF Window
<1>5. FlagWrite(a)
  <2>1. a = job[p][1] /\ Len(job[p]) \in Nat /\ Len(job[p]) > 0
    BY <1>2, <1>3, ListFacts DEF RegsInv, Working, Cur
  <2>2. 1 \in 1 .. Len(job[p])
    BY <2>1
  <2> QED
    BY <1>2, <1>3, <1>4, <2>1, <2>2 DEF FlagInv, FlagList
<1>6. /\ new = (tmp[p] \cap a.keep) \cup a.set /\ old \subseteq 0 .. 15
      /\ a.keep # {} => tmp[p] = old
  BY <1>2, <1>3 DEF Value, FlagInv, Cur
<1>7. CASE a.keep = {} /\ a.set \subseteq 0 .. 15
  <2>1. MenuWriteTo(port)
    BY <1>2, <1>3, <1>4, <1>7 DEF MenuWriteTo, Cur
  <2> QED
    BY <1>3, <1>6, <1>7, <2>1
<1>8. CASE \E b \in 0 .. 15 : a.keep = AllOnes /\ a.set = {b}
  <2>1. PICK b \in 0 .. 15 : a.keep = AllOnes /\ a.set = {b}
    BY <1>8
  <2>2. 0 .. 15 \subseteq AllOnes /\ AllOnes # {}
    BY DEF AllOnes
  <2>3. new = old \cup {b}
    BY <1>6, <2>1, <2>2
  <2> QED
    BY <1>3, <1>6, <2>3
<1>9. CASE \E b \in 0 .. 15 : a.keep = 0 .. 15 \ {b} /\ a.set = {}
  <2>1. PICK b \in 0 .. 15 : a.keep = 0 .. 15 \ {b} /\ a.set = {}
    BY <1>9
  <2>2. a.keep # {}
    <3>1. 0 \in a.keep \/ 1 \in a.keep
      BY <2>1
    <3> QED
      BY <3>1
  <2>3. new = old \ {b}
    BY <1>6, <2>1, <2>2
  <2> QED
    BY <1>3, <1>6, <2>3
<1> QED
  BY <1>5, <1>7, <1>8, <1>9 DEF FlagWrite

(* The lists stay lists of flags, and the control registers have 16 bits. *)
LEMMA FlagNext ==
  ASSUME JobsListed, FlagJobs, RegsInv, FlagInv, [Next]_vars
  PROVE  FlagInv'
<1>1. ASSUME NEW p \in Procs PROVE FlagList(job'[p])
  <2>1. CASE job'[p] = job[p]
    BY <2>1 DEF FlagInv
  <2>2. CASE job[p] # <<>> /\ job'[p] = Tail(job[p])
    <3>1. /\ Len(job[p]) \in Nat /\ Len(Tail(job[p])) = Len(job[p]) - 1
          /\ \A i \in 1 .. Len(job[p]) - 1 : Tail(job[p])[i] = job[p][i + 1]
      BY <2>2, ListFacts DEF RegsInv, Working
    <3>2. ASSUME NEW i \in 1 .. Len(Tail(job[p]))
          PROVE  i + 1 \in 1 .. Len(job[p]) /\ Tail(job[p])[i] = job[p][i + 1]
      BY <3>1
    <3> QED
      BY <2>2, <3>2 DEF FlagInv, FlagList
  <2>3. CASE job'[p] \in Calls
    BY <2>3 DEF FlagJobs, FlagList
  <2> QED
    BY <2>1, <2>2, <2>3, JobStep
<1>2. ASSUME NEW port \in Ports PROVE core'[PcsHome(port, 0)] \subseteq 0 .. 15
  BY ControlWritten DEF FlagInv
<1> QED
  BY <1>1, <1>2 DEF FlagInv, FlagList, PcsHome

(* The control register of a PCS changes by one flag at a time unless it is
   written raw, although it is read and written as a whole and through a window
   that three other ports use. *)
THEOREM FlagsChange ==
  ASSUME JobsListed, FlagJobs PROVE Spec => FlagsKept
<1>1. Init => FlagInv
  <2> SUFFICES ASSUME Init PROVE FlagInv
    OBVIOUS
  <2>1. \A port \in Ports : PcsHome(port, 0) \in Homes
    BY DEF FlagJobs, Homes
  <2> QED
    BY <2>1 DEF Init, FlagInv, FlagList
<1>2. RegsInv /\ FlagInv /\ [Next]_vars => FlagInv'
  BY FlagNext
<1>3. RegsInv /\ FlagInv /\ [Next]_vars =>
        [\A port \in Ports :
           LET old == core[PcsHome(port, 0)]
               new == core'[PcsHome(port, 0)]
           IN  old # new /\ ~MenuWriteTo(port) =>
                 \E b \in AllOnes : (old \ new) \cup (new \ old) = {b}]_vars
  <2> SUFFICES ASSUME RegsInv, FlagInv, [Next]_vars, NEW port \in Ports,
                      NEW old, old = core[PcsHome(port, 0)],
                      NEW new, new = core'[PcsHome(port, 0)],
                      old # new, ~MenuWriteTo(port)
               PROVE  \E b \in AllOnes : (old \ new) \cup (new \ old) = {b}
    OBVIOUS
  <2>1. PICK b \in 0 .. 15 : new = old \cup {b} \/ new = old \ {b}
    BY ControlWritten
  <2>2. b \in AllOnes
    BY DEF AllOnes
  <2>3. (old \ new) \cup (new \ old) = {b}
    BY <2>1
  <2> QED
    BY <2>2, <2>3
<1> QED
  BY <1>1, <1>2, <1>3, RegsInductive, PTL DEF Spec, FlagsKept
=============================================================================
