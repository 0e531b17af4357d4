------------------------------ MODULE NacFiles ------------------------------
(***************************************************************************)
(* The files of the driver (the file operations of drv/nac_main.c): a      *)
(* process opens the device node of a unit, maps the card's memory or its  *)
(* registers, or reads and writes them, while cards come and go.           *)
(*                                                                         *)
(* A file keeps a pointer to the unit (file->private_data), not to the     *)
(* card: when a card is removed with files open, the unit is cleared under *)
(* them, and may be given to another card.  The kernel lets nobody unload  *)
(* the driver while a file is open or a mapping stands.                    *)
(*                                                                         *)
(* An operation reads the fields of its unit in one step.  The code reads  *)
(* some of them twice (mmbuf at lines 231 and 239), and nothing keeps      *)
(* nac_remove_one from clearing the unit in between: of an operation that  *)
(* is under way while its unit is cleared this module says nothing.        *)
(***************************************************************************)
EXTENDS NacBoards

CONSTANTS
  Files,     \* open files there may be at once
  Offsets,   \* mapping offsets that are tried, in pages, and those of them that
             \* are not negative as file positions
  Lengths    \* lengths that are tried, in pages

VARIABLES
  areaSize,  \* nac_mem: size of each area, in pages
  file,      \* file->private_data of each file: a unit, or None when closed
  view,      \* memory the process maps or copies: [area, off, len], or None
  iomView    \* card whose registers it maps or copies, or None

fileVars == <<file, view, iomView>>

AtRest(f) == file[f] # None /\ view[f] = None /\ iomView[f] = None

-----------------------------------------------------------------------------
FilesInit ==
  /\ file = [f \in Files |-> None]
  /\ view = [f \in Files |-> None]
  /\ iomView = [f \in Files |-> None]

(* nac_open, through the node of a unit whose character devices are added. *)
Open(f) ==
  /\ loaded = "in" /\ file[f] = None
  /\ \E c \in bound \ {removing} :
       /\ attached[driverData[c]]
       /\ file' = [file EXCEPT ![f] = driverData[c]]
  /\ UNCHANGED <<view, iomView>>

(* Variant: the offset is forgotten. *)
MapLimitWhole(u, off) == areaSize[mmbuf[u]]

(* psize in nac_mmap: what is left of the area behind an offset; negative for
   an offset beyond its end, and more than the area for a negative offset. *)
MapLimit(u, off) == areaSize[mmbuf[u]] - off

(* nac_mmap; the offset is signed, and only its end is compared. *)
Map(f) ==
  /\ AtRest(f) /\ mmbuf[file[f]] # None
  /\ \E off \in Offsets, len \in Lengths :
       /\ len <= MapLimit(file[f], off)
       /\ view' = [view EXCEPT ![f] = [area |-> mmbuf[file[f]], off |-> off, len |-> len]]
  /\ UNCHANGED <<file, iomView>>

(* nac_mem_read and nac_mem_write while they copy: the count is cut at the end
   of the area.  The kernel refuses negative file positions. *)
Copy(f) ==
  /\ AtRest(f) /\ mmbuf[file[f]] # None
  /\ \E off \in Offsets \cap Nat, count \in Lengths :
       LET a == mmbuf[file[f]]
           len == IF off + count > areaSize[a] THEN areaSize[a] - off ELSE count
       IN  /\ off < areaSize[a]
           /\ view' = [view EXCEPT ![f] = [area |-> a, off |-> off, len |-> len]]
  /\ UNCHANGED <<file, iomView>>

(* nac_iom_mmap, which asks for the memory and maps the registers; as in
   nac_mmap, what a negative offset reaches in front of them is left out. *)
MapRegisters(f) ==
  /\ AtRest(f) /\ mmbuf[file[f]] # None
  /\ iomView' = [iomView EXCEPT ![f] = device[file[f]]]
  /\ UNCHANGED <<file, view>>

(* nac_iom_read and nac_iom_write, which go by mmio_size. *)
CopyRegisters(f) ==
  /\ AtRest(f) /\ mmio[file[f]]
  /\ iomView' = [iomView EXCEPT ![f] = device[file[f]]]
  /\ UNCHANGED <<file, view>>

(* The copy is over, or the process unmaps. *)
Finish(f) ==
  /\ view[f] # None \/ iomView[f] # None
  /\ view' = [view EXCEPT ![f] = None]
  /\ iomView' = [iomView EXCEPT ![f] = None]
  /\ UNCHANGED file

(* nac_release; the kernel calls it when the last mapping is gone. *)
Release(f) ==
  /\ AtRest(f)
  /\ file' = [file EXCEPT ![f] = None]
  /\ UNCHANGED <<view, iomView>>

FileOp(f) ==
  \/ Open(f) \/ Map(f) \/ Copy(f)
  \/ MapRegisters(f) \/ CopyRegisters(f)
  \/ Finish(f) \/ Release(f)

NoFiles == \A f \in Files : file[f] = None

DriverInit == Init /\ FilesInit

(* A step of the driver: insmod and rmmod, the PCI core's calls, and the
   processes' calls. *)
DriverStep ==
  \/ Load /\ UNCHANGED fileVars
  \/ Leave /\ NoFiles /\ UNCHANGED fileVars
  \/ Left /\ UNCHANGED fileVars
  \/ (\E c \in Cards : Board(c)) /\ UNCHANGED fileVars
  \/ (\E f \in Files : FileOp(f)) /\ UNCHANGED boardVars

-----------------------------------------------------------------------------
(* Properties. *)

(* A file operation hands out only an area that belongs to the unit of its file
   and to no other; and only what the driver has taken at that moment, an area
   in use and the registers of a card whose region is requested.  So a file that
   was opened for a card that has gone gets nothing, unless its unit has been
   given to another card since.  While nac_remove_one is at work on the unit of
   the file the second does not hold: the area is given back and the registers
   are unmapped (drv/nac_main.c:739-745) before the unit is cleared (749), and
   the operations still hand them out. *)
FreshlyMapped ==
  \A f \in Files :
    /\ view'[f] # view[f] /\ view'[f] # None =>
         /\ {u \in Units : mmbuf[u] = view'[f].area} = {file[f]}
         /\ attached[file[f]]
         /\ file[f] # Removed => inuse[view'[f].area] = 1
    /\ iomView'[f] # iomView[f] /\ iomView'[f] # None /\ file[f] # Removed =>
         iomView'[f] \in regions
=============================================================================
