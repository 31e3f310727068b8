--------------------------- MODULE MCMemMapMerge ---------------------------
(***************************************************************************)
(* Model-checking instance of MemMapMerge.  The enum teecore_memtypes      *)
(* values keep their relative order: the physical types sort before the   *)
(* virtual-space types (RES_VASPACE, then SHM_VASPACE), as in core_mmu.h.  *)
(***************************************************************************)
EXTENDS MemMapMerge

MEM_AREA_RAM_NSEC == 1
MEM_AREA_IO_SEC == 2
MEM_AREA_RES_VASPACE == 3
MEM_AREA_SHM_VASPACE == 4

MCPhysTypes == {MEM_AREA_RAM_NSEC, MEM_AREA_IO_SEC}
MCVaSpaceTypes == <<MEM_AREA_RES_VASPACE, MEM_AREA_SHM_VASPACE>>
=============================================================================
