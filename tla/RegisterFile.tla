---------------------------- MODULE RegisterFile ----------------------------
(***************************************************************************)
(* What the register functions of lib/nacapi.c promise their callers: one  *)
(* register per place, read and written as a whole.  A process works       *)
(* through a list of accesses; a write keeps some bits of the register and *)
(* sets others in one step, a read answers what the register holds, and an *)
(* access to a place that does not exist changes nothing.                  *)
(*                                                                         *)
(* A register is the set of its bits that are 1.  An access is a record    *)
(* with fields space, port, reg, write, keep and set.                      *)
(***************************************************************************)
EXTENDS Sequences

CONSTANTS
  Procs,      \* processes
  Jobs,       \* lists of accesses a process may work through
  Places,     \* registers there are
  Initial,    \* what the registers hold at first
  Junk        \* what a read of a place that does not exist may give

VARIABLES
  regs,    \* [Places -> SUBSET Nat]
  todo,    \* [Procs -> Seq(access)]
  answer   \* [Procs -> SUBSET Nat]: what the last read of a process gave

vars == <<regs, todo, answer>>

PlaceOf(a) == <<a.space, a.port, a.reg>>

Init ==
  /\ regs = Initial
  /\ todo = [p \in Procs |-> <<>>]
  /\ answer = [p \in Procs |-> {}]

Begin(p) ==
  /\ todo[p] = <<>>
  /\ \E j \in Jobs : todo' = [todo EXCEPT ![p] = j]
  /\ UNCHANGED <<regs, answer>>

Take(p) == todo[p] # <<>> /\ todo' = [todo EXCEPT ![p] = Tail(@)]

Write(p) ==
  /\ Take(p)
  /\ LET a == Head(todo[p]) IN
     /\ a.write /\ PlaceOf(a) \in Places
     /\ regs' = [regs EXCEPT ![PlaceOf(a)] = (@ \cap a.keep) \cup a.set]
  /\ UNCHANGED answer

Read(p) ==
  /\ Take(p)
  /\ LET a == Head(todo[p]) IN
     /\ ~a.write /\ PlaceOf(a) \in Places
     /\ answer' = [answer EXCEPT ![p] = regs[PlaceOf(a)]]
  /\ UNCHANGED regs

(* A place that does not exist: a read gives some junk. *)
Refuse(p) ==
  /\ Take(p)
  /\ PlaceOf(Head(todo[p])) \notin Places /\ Head(todo[p]).space # "count"
  /\ \E v \in Junk \cup {answer[p]} : answer' = [answer EXCEPT ![p] = v]
  /\ UNCHANGED regs

(* The statistics counters run on by themselves: nothing is promised here. *)
Count(p) ==
  /\ Take(p)
  /\ Head(todo[p]).space = "count"
  /\ UNCHANGED <<regs, answer>>

Next == \E p \in Procs : Begin(p) \/ Write(p) \/ Read(p) \/ Refuse(p) \/ Count(p)

Spec == Init /\ [][Next]_vars
=============================================================================
