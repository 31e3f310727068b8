--------------------------- MODULE MCNsecCarveOut ---------------------------
(***************************************************************************)
(* Model-checking instance of NsecCarveOut: 16 pages of physical space,    *)
(* secure RAM at pages 4-5, non-secure shared memory at 8-9, SDP memory   *)
(* at 11-12 or 12, a non-secure device at 14, and firmware reports that   *)
(* cover these in every way: unsorted, split twice, trimmed on either     *)
(* side, removed entirely.                                                 *)
(***************************************************************************)
EXTENDS NsecCarveOut

MEM_AREA_TEE_RAM == 1
MEM_AREA_NSEC_SHM == 2
MEM_AREA_IO_NSEC == 3
MEM_AREA_RAM_NSEC == 4

R(a, s) == [addr |-> a, size |-> s]

MCSecureOnly == << R(4, 2) >>

(* A secure data path region in the device tree or none, and one        *)
(* registered SDP region that overlaps it.                               *)
MCSdpDtChoices == {<< >>, << R(11, 2) >>}

MCPhysSdpMem == << R(12, 1) >>

MCMemMap ==
  << [type |-> MEM_AREA_TEE_RAM, pa |-> 4, size |-> 2],
     [type |-> MEM_AREA_NSEC_SHM, pa |-> 8, size |-> 2],
     [type |-> MEM_AREA_IO_NSEC, pa |-> 14, size |-> 1],
     [type |-> MEM_AREA_RAM_NSEC, pa |-> 0, size |-> 16] >>

MCExemptTypes == {MEM_AREA_RAM_NSEC}

(* Every bank that starts in the physical space, and every pair of     *)
(* disjoint banks, in either order.                                      *)
Banks == {b \in {R(a, s) : a \in 0 .. PaSpace - 1, s \in 1 .. PaSpace} : b.addr + b.size <= PaSpace + 1}

SmallBanks == {b \in Banks : b.size <= 4}

MCDiscovered ==
  {<< b >> : b \in Banks}
  \cup {p \in {<< b1, b2 >> : b1, b2 \in SmallBanks} :
         ~Intersect(p[1].addr, p[1].size, p[2].addr, p[2].size)}

(* Windows the algorithm is checked on in every state. *)
MCWindows == {R(a, s) : a \in 0 .. PaSpace - 1, s \in {1, 3}}
=============================================================================
