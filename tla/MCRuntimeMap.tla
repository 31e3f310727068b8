---------------------------- MODULE MCRuntimeMap ----------------------------
(***************************************************************************)
(* Model-checking instance of RuntimeMap: one static non-secure shared     *)
(* memory region and the reserved VA space after boot, the reserved space  *)
(* mapped by a table of 2-page blocks.                                     *)
(***************************************************************************)
EXTENDS RuntimeMap

MEM_AREA_NSEC_SHM == 1
MEM_AREA_IO_SEC == 2
MEM_AREA_RES_VASPACE == 3
MEM_AREA_TEE_RAM == 4

MCAddTypes == {MEM_AREA_NSEC_SHM, MEM_AREA_IO_SEC}

(* One static shared memory region and three table blocks of reserved    *)
(* space, so that the array fills up.                                     *)
MCInitMapWide ==
  << [type |-> MEM_AREA_NSEC_SHM, pa |-> 6, va |-> 2, size |-> 2],
     [type |-> MEM_AREA_RES_VASPACE, pa |-> 0, va |-> 4, size |-> 6] >>

(* A TEE RAM region, a type no caller passes to add/remove_mapping, and  *)
(* two blocks of reserved space: only dynamically added regions are     *)
(* removed.                                                               *)
MCInitMapTeeRam ==
  << [type |-> MEM_AREA_TEE_RAM, pa |-> 6, va |-> 2, size |-> 2],
     [type |-> MEM_AREA_RES_VASPACE, pa |-> 0, va |-> 4, size |-> 4] >>
=============================================================================
