------------------------------ MODULE NacBoards ------------------------------
(***************************************************************************)
(* The boards of the driver: the table nac_array, the probe and remove     *)
(* entry points that fill and empty it (nac_init_one, nac_remove_one in    *)
(* drv/nac_main.c), and the areas of memory they get from nac_mem_malloc() *)
(* and give back to nac_mem_free() (drv/nac_mem.c), which NacMemPool has   *)
(* carved.  NacFiles adds the files, NacDriver puts the driver together    *)
(* with the pool.                                                          *)
(*                                                                         *)
(* The PCI core calls the two entry points one at a time, and remove only  *)
(* for a card whose probe succeeded.  A probe can fail at each of its      *)
(* early returns, and none of them undoes what has been done before; it    *)
(* is one step here, for what it leaves behind in between is what one of   *)
(* the early returns leaves.  A removal is a step for each thing that is   *)
(* given back: no lock keeps the files of the unit away in between.        *)
(*                                                                         *)
(* External state: bound and regions belong to the kernel.                 *)
(***************************************************************************)
EXTENDS Integers, FiniteSets

CONSTANTS
  MaxBoards,    \* NAC_MAX_BOARDS (8)
  Cards,        \* PCI devices the driver is for
  AreaCount,    \* nnacs
  None

VARIABLES
  carved,     \* nac_mem: areas it found memory for (nac_mem_vaddr # 0)
  loaded,     \* kernel: the driver is "out", "in" or "leaving"
  lost,       \* ghost: areas in use by a unit that went with the driver
  attached,   \* sc->flags & NACF_ATTACHED, of each unit
  device,     \* sc->device
  mmio,       \* sc->mmio # NULL
  mmbuf,      \* sc->mmbuf: the area of the unit, or None
  irq,        \* sc->irq # 0
  driverData, \* dev->driver_data of each card: a unit or None
  inuse,      \* nac_mem_inuse
  regions,    \* kernel: cards whose IO memory region is requested
  bound,      \* kernel: cards whose probe has succeeded, until they are removed
  removing,   \* the card nac_remove_one is called for, or None
  removePc    \* what nac_remove_one has to do next

unitVars == <<attached, device, mmio, mmbuf, irq>>
boardVars == <<unitVars, driverData, inuse, regions, bound, loaded, lost,
              removing, removePc>>
removeVars == <<removing, removePc>>

Units == 0 .. MaxBoards - 1
Areas == 0 .. AreaCount - 1

(* The least element of a set of numbers, as a loop from 0 up finds it. *)
First(S) == CHOOSE i \in S : \A j \in S : i <= j

Unattached == {u \in Units : ~attached[u]}
Idle == {a \in Areas : inuse[a] = 0}

(* nac_mem_malloc: the first area that is not in use, if it was carved. *)
Malloc == IF Idle # {} /\ First(Idle) \in carved THEN First(Idle) ELSE None

(* Variant: the unit is chosen without looking at the flags. *)
UnitForNew == IF Cardinality(bound) < MaxBoards THEN Cardinality(bound) ELSE None

(* nac_find_unattached *)
FindUnattached == IF Unattached = {} THEN None ELSE First(Unattached)

-----------------------------------------------------------------------------
Init ==
  /\ attached = [u \in Units |-> FALSE]
  /\ device = [u \in Units |-> None]
  /\ mmio = [u \in Units |-> FALSE]
  /\ mmbuf = [u \in Units |-> None]
  /\ irq = [u \in Units |-> FALSE]
  /\ driverData = [c \in Cards |-> None]
  /\ inuse = [a \in Areas |-> 0]
  /\ regions = {} /\ bound = {}
  /\ loaded = "out" /\ lost = {}
  /\ removing = None /\ removePc = "idle"

(* insmod: nac_init registers the driver, and the PCI core probes the cards
   from then on. *)
Load ==
  /\ loaded = "out"
  /\ loaded' = "in"
  /\ UNCHANGED <<unitVars, driverData, inuse, regions, bound, lost, removeVars>>

(* rmmod: nac_cleanup; the PCI core removes the cards in service before
   pci_unregister_driver returns. *)
Leave ==
  /\ loaded = "in"
  /\ loaded' = "leaving"
  /\ UNCHANGED <<unitVars, driverData, inuse, regions, bound, lost, removeVars>>

(* The units of cards whose probe failed go without being cleared. *)
Left ==
  /\ loaded = "leaving" /\ bound = {}
  /\ loaded' = "out"
  /\ lost' = lost \cup ({mmbuf[u] : u \in Units} \ {None})
  /\ attached' = [u \in Units |-> FALSE]
  /\ device' = [u \in Units |-> None]
  /\ mmio' = [u \in Units |-> FALSE]
  /\ mmbuf' = [u \in Units |-> None]
  /\ irq' = [u \in Units |-> FALSE]
  /\ UNCHANGED <<driverData, inuse, regions, bound, removeVars>>

(* nac_init_one is called for a card that has no driver. *)
Probing(c) == loaded = "in" /\ c \notin bound /\ removing = None

(* No unit is left: nothing has been changed yet. *)
ProbeTooMany(c) ==
  /\ Probing(c)
  /\ FindUnattached = None
  /\ UNCHANGED boardVars

(* The part of the unit that is set at once. *)
Claim(c, u) ==
  /\ attached' = [attached EXCEPT ![u] = TRUE]
  /\ device' = [device EXCEPT ![u] = c]
  /\ driverData' = [driverData EXCEPT ![c] = u]

(* pci_enable_device fails, or the IO memory is in use already. *)
ProbeNoDevice(c) ==
  LET u == FindUnattached IN
  /\ Probing(c) /\ u # None
  /\ Claim(c, u)
  /\ UNCHANGED <<mmio, mmbuf, irq, inuse, regions, bound, loaded, lost, removeVars>>

(* nac_mem_malloc has nothing left. *)
ProbeNoMemory(c) ==
  LET u == FindUnattached IN
  /\ Probing(c) /\ u # None
  /\ c \notin regions
  /\ Malloc = None
  /\ Claim(c, u)
  /\ regions' = regions \cup {c}
  /\ mmio' = [mmio EXCEPT ![u] = TRUE]
  /\ UNCHANGED <<mmbuf, irq, inuse, bound, loaded, lost, removeVars>>

(* pci_enable_msi or request_irq fails, or the card has no interrupt. *)
ProbeNoIrq(c) ==
  LET u == FindUnattached IN
  /\ Probing(c) /\ u # None
  /\ c \notin regions
  /\ Malloc # None
  /\ Claim(c, u)
  /\ regions' = regions \cup {c}
  /\ mmio' = [mmio EXCEPT ![u] = TRUE]
  /\ mmbuf' = [mmbuf EXCEPT ![u] = Malloc]
  /\ inuse' = [inuse EXCEPT ![Malloc] = @ + 1]
  /\ UNCHANGED <<irq, bound, loaded, lost, removeVars>>

(* The probe succeeds. *)
ProbeOk(c) ==
  LET u == FindUnattached IN
  /\ Probing(c) /\ u # None
  /\ c \notin regions
  /\ Malloc # None
  /\ Claim(c, u)
  /\ regions' = regions \cup {c}
  /\ mmio' = [mmio EXCEPT ![u] = TRUE]
  /\ mmbuf' = [mmbuf EXCEPT ![u] = Malloc]
  /\ inuse' = [inuse EXCEPT ![Malloc] = @ + 1]
  /\ irq' = [irq EXCEPT ![u] = TRUE]
  /\ bound' = bound \cup {c}
  /\ UNCHANGED <<loaded, lost, removeVars>>

(* nac_remove_one: the character devices are deleted and the interrupt is freed,
   but the unit still has all its fields. *)
RemoveBegin(c) ==
  /\ removing = None
  /\ c \in bound /\ driverData[c] # None
  /\ removing' = c /\ removePc' = "memory"
  /\ UNCHANGED <<unitVars, driverData, inuse, regions, bound, loaded, lost>>

(* Variant: the area is not given back. *)
RemoveMemoryNot(c) ==
  /\ removing = c /\ removePc = "memory"
  /\ removePc' = "registers"
  /\ UNCHANGED <<unitVars, driverData, inuse, regions, bound, loaded, lost, removing>>

(* nac_mem_free; mmbuf and buf keep pointing to the area. *)
RemoveMemory(c) ==
  LET a == mmbuf[driverData[c]] IN
  /\ removing = c /\ removePc = "memory"
  /\ inuse' = IF a # None THEN [inuse EXCEPT ![a] = @ - 1] ELSE inuse
  /\ removePc' = "registers"
  /\ UNCHANGED <<unitVars, driverData, regions, bound, loaded, lost, removing>>

(* iounmap and release_mem_region; mmio keeps pointing to the registers. *)
RemoveRegisters(c) ==
  /\ removing = c /\ removePc = "registers"
  /\ regions' = IF mmio[driverData[c]] THEN regions \ {c} ELSE regions
  /\ removePc' = "clear"
  /\ UNCHANGED <<unitVars, driverData, inuse, bound, loaded, lost, removing>>

(* Variant: the unit is only marked free, its fields keep their values. *)
RemoveUncleared(c) ==
  LET u == driverData[c] IN
  /\ removing = c /\ removePc = "clear"
  /\ attached' = [attached EXCEPT ![u] = FALSE]
  /\ bound' = bound \ {c}
  /\ removing' = None /\ removePc' = "idle"
  /\ UNCHANGED <<device, mmio, mmbuf, irq, driverData, inuse, regions, loaded, lost>>

(* The memset; dev->driver_data keeps pointing to the unit. *)
RemoveClear(c) ==
  LET u == driverData[c] IN
  /\ removing = c /\ removePc = "clear"
  /\ attached' = [attached EXCEPT ![u] = FALSE]
  /\ device' = [device EXCEPT ![u] = None]
  /\ mmio' = [mmio EXCEPT ![u] = FALSE]
  /\ mmbuf' = [mmbuf EXCEPT ![u] = None]
  /\ irq' = [irq EXCEPT ![u] = FALSE]
  /\ bound' = bound \ {c}
  /\ removing' = None /\ removePc' = "idle"
  /\ UNCHANGED <<driverData, inuse, regions, loaded, lost>>

Board(c) ==
  \/ ProbeTooMany(c) \/ ProbeNoDevice(c) \/ ProbeNoMemory(c)
  \/ ProbeNoIrq(c) \/ ProbeOk(c)
  \/ RemoveBegin(c) \/ RemoveMemory(c) \/ RemoveRegisters(c) \/ RemoveClear(c)

-----------------------------------------------------------------------------
(* Properties. *)

(* The unit of the card that is being removed. *)
Removed == IF removing = None THEN None ELSE driverData[removing]

(* A card in service has a unit of its own, with its registers, a handler and
   memory that was carved, whatever probes failed and whatever cards came and
   went before, until nac_remove_one is called for it. *)
BoundServed ==
  \A c \in bound \ {removing} :
    LET u == driverData[c] IN
    /\ u # None /\ attached[u] /\ device[u] = c
    /\ mmio[u] /\ irq[u] /\ c \in regions
    /\ mmbuf[u] \in carved

(* No two units, and so no two cards, share an area of memory; remove gives
   back exactly what probe took, so that an area is in use for a unit or is
   one that a failed probe had taken before the driver was unloaded.  A unit
   that is being removed points to its area after that has been given back. *)
AreasExact ==
  \A a \in Areas :
    LET owners == {u \in Units : mmbuf[u] = a}
        givenBack == IF removePc \in {"registers", "clear"} THEN {Removed} ELSE {}
    IN  /\ Cardinality(owners) <= 1
        /\ inuse[a] = Cardinality(owners \ givenBack) + (IF a \in lost THEN 1 ELSE 0)
=============================================================================
