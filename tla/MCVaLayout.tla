----------------------------- MODULE MCVaLayout -----------------------------
(***************************************************************************)
(* Model-checking instance of VaLayout: a 64-page VA space with 4-page     *)
(* pgdirs, a two-region core image at the anchor, one secure device, a block of  *)
(* non-secure RAM, the reserved VA space and, with virtualization, the     *)
(* nexus dynamic VA space, which is shared across partitions.              *)
(***************************************************************************)
EXTENDS VaLayout

MEM_AREA_TEE_RAM_RX == 1
MEM_AREA_TEE_RAM_RW == 2
MEM_AREA_IDENTITY_MAP_RX == 3
MEM_AREA_IO_SEC == 4
MEM_AREA_RAM_NSEC == 5
MEM_AREA_RES_VASPACE == 6
MEM_AREA_NEX_DYN_VASPACE == 7

MCTeeRamTypes == {MEM_AREA_TEE_RAM_RX, MEM_AREA_TEE_RAM_RW}
MCNexSharedTypes == {MEM_AREA_NEX_DYN_VASPACE}

Reg(t, a, s) == [type |-> t, pa |-> a, size |-> s]

(* The core image is contiguous from the anchor StartAddr, as the       *)
(* linker lays it out; the devices and RAM vary in place and size.      *)
MCLayouts ==
  { << Reg(MEM_AREA_TEE_RAM_RX, StartAddr, 2), Reg(MEM_AREA_TEE_RAM_RW, StartAddr + 2, 2),
       Reg(MEM_AREA_IO_SEC, io, ios), Reg(MEM_AREA_RAM_NSEC, ram, rams),
       Reg(MEM_AREA_RES_VASPACE, 0, 4) >> \o nex
    : io \in {17, 22}, ios \in {2, 9}, ram \in {32, 34}, rams \in {4, 24},
      nex \in {<<>>, << Reg(MEM_AREA_NEX_DYN_VASPACE, 0, 4) >>} }
=============================================================================
