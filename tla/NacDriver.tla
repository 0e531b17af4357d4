------------------------------ MODULE NacDriver ------------------------------
(***************************************************************************)
(* The kernel side as a whole: the memory module (NacMemPool, nacmem.ko)   *)
(* below the driver (NacBoards and NacFiles, nac.ko), as nacload loads     *)
(* them.  The driver calls nac_mem_malloc(), so the kernel loads it after  *)
(* nac_mem_init() has returned and does not let nacmem be unloaded while   *)
(* the driver is loaded; the driver may be loaded and unloaded many times  *)
(* on top of the same pool.                                                *)
(***************************************************************************)
EXTENDS NacMemPool

CONSTANTS Boards, Devices, Files, Offsets, Lengths, None

ASSUME DriverAssumption ==
  /\ Boards \in Nat \ {0}
  /\ Offsets \subseteq Int /\ Lengths \subseteq Nat \ {0}
  /\ None \notin Devices \cup Files \cup 0 .. Boards - 1 \cup Cards

VARIABLES loaded, lost, attached, device, mmio, mmbuf, irq, driverData, inuse,
          regions, bound, removing, removePc, file, view, iomView

driverVars == <<loaded, lost, attached, device, mmio, mmbuf, irq, driverData,
                inuse, regions, bound, removing, removePc, file, view, iomView>>

(* The area of a card number is there when its address is not 0; its size is
   what nac_mem() found. *)
Driver == INSTANCE NacFiles WITH
  MaxBoards <- Boards, Cards <- Devices, AreaCount <- CardCount,
  carved <- {a \in Cards : vaddr[a] # 0}, areaSize <- size

DriverInit == Init /\ Driver!DriverInit

(* nac_mem_exit comes only when the driver is out. *)
DriverNext ==
  \/ Next /\ loaded = "out" /\ UNCHANGED driverVars
  \/ pc = "ready" /\ Driver!DriverStep /\ UNCHANGED vars

DriverSpec == DriverInit /\ [][DriverNext]_<<vars, driverVars>>

-----------------------------------------------------------------------------
(* Properties. *)

(* NacBoards: a card in service has a unit of its own, with its registers, a
   handler and memory that was carved, whatever probes failed and whatever
   cards came and went before, until it is removed. *)
BoundServed == Driver!BoundServed

(* NacBoards: no two units share an area, and the use counts match the units
   that own one and the areas lost to failed probes. *)
AreasExact == Driver!AreasExact

(* Memory a process maps or copies through a file of the driver is memory the
   module holds and has not promised back to the kernel, from the start of the
   area on, over its whole length: also in an area that came out smaller than
   asked for, after the card was removed under the mapping, and after the driver
   was reloaded.  Nothing is promised of the pages in front of the area, which
   nac_mmap maps for a negative offset (drv/nac_main.c:381-393). *)
MappedHeld ==
  \A f \in Files :
    view[f] # None =>
      LET start == vaddr[view[f].area]
          from  == start + view[f].off
      IN  \A page \in from .. from + view[f].len - 1 :
            page >= start => page - (page % PieceSize) \in held \ TablePieces

(* NacFiles: a step of a file operation hands out only the area of its unit, in
   use and not another unit's, or the registers of a requested region, never
   what a removed card had; while the card of its unit is being removed, the
   area may have been given back already and the registers be unmapped. *)
StaleFileRefused == [][Driver!FreshlyMapped]_<<vars, driverVars>>
=============================================================================
