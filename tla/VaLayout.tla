------------------------------ MODULE VaLayout ------------------------------
(***************************************************************************)
(* Virtual address layout of the boot memory map, init_mem_map() in        *)
(* core_mmu.c: assign_mem_granularity(), the qsort() by cmp_init_mem_map(), *)
(* up to three ASLR candidates tried by assign_mem_va() and               *)
(* mem_map_add_id_map(), the fixed anchor as fallback, and the final       *)
(* qsort() by cmp_mmap_by_lower_va().                                      *)
(*                                                                         *)
(* Addresses and sizes are in small pages.  The build is LPAE without      *)
(* pager, so the secure/non-secure padding of 32-bit tables and the       *)
(* preferred-direction retry of the pager are left out.  qsort() is not    *)
(* stable: entries the comparator ranks equal end up in any order.         *)
(***************************************************************************)
EXTENDS Integers, Sequences, FiniteSets, TLC

CONSTANTS
  Layouts,        \* maps collect_mem_ranges() may produce: sequences of [type, pa, size]
  TeeRamTypes,    \* types map_is_tee_ram() accepts
  NexSharedTypes, \* types core_mmu_type_is_nex_shared() accepts
  IdMapType,      \* MEM_AREA_IDENTITY_MAP_RX
  PgdirSize,      \* CORE_MMU_PGDIR_SIZE
  VaSpace,        \* BIT64(core_mmu_get_va_width())
  StartAddr,      \* secure_only[0].paddr: the fixed anchor
  InitialOffs,    \* tee_ram_initial_offs
  IdMapStart,     \* __identity_map_init_start
  IdMapEnd,       \* __identity_map_init_end
  AslrBases,      \* values arch_aslr_base_addr() may return
  AslrEnabled     \* CFG_CORE_ASLR and a non-zero seed

VARIABLES
  map,     \* mem_map->map[0 .. count-1]: records [type, pa, size, va, rs]
  pc,      \* "init", "aslr", "fixed", "done" or "panic"
  attempt, \* ASLR candidates tried
  offs     \* *ret_offs: ba - start_addr, 0 for the fixed anchor

vars == <<map, pc, attempt, offs>>

RoundDown(x, g) == (x \div g) * g
RoundUp(x, g) == ((x + g - 1) \div g) * g



(* core_is_buffer_intersect() on two non-empty ranges. *)
Intersect(a, al, b, bl) == a < b + bl /\ b < a + al

(* Fault model: the SUB_OVERFLOW() checks of the downward placement are *)
(* missing.                                                               *)
SubOverflowNever(va, size) == FALSE

(* SUB_OVERFLOW(va, size, &va): the subtraction would wrap below 0. *)
SubOverflow(va, size) == size > va

(* Fault model: the operands of the pa-alignment offset swapped. *)
PgdirOffsetSwapped(pa, va) == (va - pa) % PgdirSize

(* (map->pa - va) & CORE_MMU_PGDIR_MASK on unsigned addresses. *)
PgdirOffset(pa, va) == (pa - va) % PgdirSize

(* Fault model: the check of the end of a region's VA range is missing. *)
VaIsValidNever(va) == TRUE

(* core_mmu_va_is_valid(): the address is below the top of the VA space. *)
VaIsValid(va) == va < VaSpace

VaPages(r) == {r.va + i : i \in 0 .. r.size - 1}

-----------------------------------------------------------------------------
(* assign_mem_granularity(): small pages for TEE RAM, pgdir otherwise.    *)
(* The small-page alignment check cannot fail on page-unit addresses.    *)
AssignMemGranularity(m) ==
  [i \in DOMAIN m |-> [m[i] EXCEPT !.rs = IF m[i].type \in TeeRamTypes THEN 1 ELSE PgdirSize]]

(* cmp_init_mem_map(a, b) < 0 under LPAE: region_size, pa, nex-shared. *)
CmpInitBefore(a, b) ==
  LET key(r) == <<r.rs, r.pa, IF r.type \in NexSharedTypes THEN 1 ELSE 0>>
  IN  \/ key(a)[1] < key(b)[1]
      \/ key(a)[1] = key(b)[1] /\ key(a)[2] < key(b)[2]
      \/ key(a)[1] = key(b)[1] /\ key(a)[2] = key(b)[2] /\ key(a)[3] < key(b)[3]

(* cmp_mmap_by_lower_va(a, b) < 0. *)
CmpVaBefore(a, b) == a.va < b.va

(* Every order qsort() may leave the entries in: sorted by the strict    *)
(* comparator, ties in any order.                                         *)
QSort(m, Before(_, _)) ==
  {s \in {[i \in 1..Len(m) |-> m[p[i]]] : p \in Permutations(1..Len(m))} :
     \A i \in 1..Len(m) - 1 : ~Before(s[i + 1], s[i])}

-----------------------------------------------------------------------------
(* First loop of assign_mem_va_dir(): TEE RAM regions back to back from  *)
(* va; the ADD_OVERFLOW cannot trigger below VaSpace, the validity check *)
(* can.                                                                  *)
RECURSIVE PlaceTeeRam(_, _, _)
PlaceTeeRam(m, i, va) ==
  IF i > Len(m) THEN [m |-> m, va |-> va, ok |-> TRUE]
  ELSE IF m[i].type \notin TeeRamTypes THEN PlaceTeeRam(m, i + 1, va)
  ELSE IF ~VaIsValid(va + m[i].size)
    THEN [m |-> [m EXCEPT ![i].va = va], va |-> va + m[i].size, ok |-> FALSE]
  ELSE PlaceTeeRam([m EXCEPT ![i].va = va], i + 1, va + m[i].size)

(* The tee_ram_at_top branch: every region without a va is placed below *)
(* the previous one, going down from tee_ram_va.                         *)
RECURSIVE PlaceBelow(_, _, _, _)
PlaceBelow(m, i, va, nex) ==
  IF i > Len(m) THEN [m |-> m, ok |-> TRUE]
  ELSE IF m[i].va # 0 THEN PlaceBelow(m, i + 1, va, nex)
  ELSE
    LET r      == m[i]
        toggle == nex # (r.type \in NexSharedTypes)
        va1    == IF toggle THEN RoundDown(va, PgdirSize) ELSE va
        va2    == RoundDown(va1 - r.size, r.rs)
        big    == r.size > 2 * PgdirSize
        va3    == va2 - PgdirSize
        va4    == IF big THEN va3 + PgdirOffset(r.pa, va3) ELSE va2
    IN  IF SubOverflow(va1, r.size) \/ (big /\ SubOverflow(va2, PgdirSize))
        THEN [m |-> m, ok |-> FALSE]
        ELSE PlaceBelow([m EXCEPT ![i].va = va4], i + 1, va4, IF toggle THEN ~nex ELSE nex)

(* The other branch: every region without a va is placed above the       *)
(* previous one, going up from the end of TEE RAM.                        *)
RECURSIVE PlaceAbove(_, _, _, _)
PlaceAbove(m, i, va, nex) ==
  IF i > Len(m) THEN [m |-> m, ok |-> TRUE]
  ELSE IF m[i].va # 0 THEN PlaceAbove(m, i + 1, va, nex)
  ELSE
    LET r      == m[i]
        toggle == nex # (r.type \in NexSharedTypes)
        va1    == IF toggle THEN RoundUp(va, PgdirSize) ELSE va
        va2    == RoundUp(va1, r.rs)
        va3    == IF r.size > 2 * PgdirSize THEN va2 + PgdirOffset(r.pa, va2) ELSE va2
        m2     == [m EXCEPT ![i].va = va3]
    IN  IF ~VaIsValid(va3 + r.size)
        THEN [m |-> m2, ok |-> FALSE]
        ELSE PlaceAbove(m2, i + 1, va3 + r.size, IF toggle THEN ~nex ELSE nex)

(* place_tee_ram_at_top() *)
PlaceTeeRamAtTop(pa) == pa > VaSpace \div 2

(* assign_mem_va(tee_ram_va, mem_map) with assign_mem_va_dir() inlined: *)
(* the result is the map as far as it got and whether it succeeded.      *)
AssignMemVa(m, teeRamVa) ==
  LET m0 == [i \in DOMAIN m |-> [m[i] EXCEPT !.va = 0]]
      t  == PlaceTeeRam(m0, 1, teeRamVa + InitialOffs)
  IN  IF teeRamVa = 0 THEN [m |-> m, ok |-> FALSE]
      ELSE IF ~t.ok THEN [m |-> t.m, ok |-> FALSE]
      ELSE IF PlaceTeeRamAtTop(teeRamVa) THEN PlaceBelow(t.m, 1, teeRamVa, FALSE)
      ELSE PlaceAbove(t.m, 1, t.va, FALSE)

(* The range mem_map_add_id_map() adds, rounded to pages already. *)
IdMapRegion ==
  [type |-> IdMapType, pa |-> IdMapStart, size |-> IdMapEnd - IdMapStart,
   va |-> IdMapStart, rs |-> 1]

(* Fault model: the intersection test of mem_map_add_id_map() missing. *)
IdMapFitsUnchecked(m) == TRUE

(* mem_map_add_id_map() succeeds: no region intersects the range. *)
IdMapFits(m) ==
  \A i \in DOMAIN m : ~Intersect(m[i].va, m[i].size, IdMapStart, IdMapEnd - IdMapStart)

-----------------------------------------------------------------------------
(* init_mem_map() after collect_mem_ranges(): assign_mem_granularity()  *)
(* and the qsort() by cmp_init_mem_map().                                *)
PrepareMap ==
  /\ pc = "init"
  /\ map' \in QSort(AssignMemGranularity(map), CmpInitBefore)
  /\ pc' = IF AslrEnabled THEN "aslr" ELSE "fixed"
  /\ UNCHANGED <<attempt, offs>>

(* Fault model: the offset reported is the base itself. *)
AslrOffsetFromZero(ba) == ba

(* offs = ba - start_addr *)
AslrOffset(ba) == ba - StartAddr

(* One iteration of the ASLR loop with candidate ba: on success the id  *)
(* map is added, offs set and the map sorted by va (label out).          *)
AslrAttempt(ba) ==
  LET a == AssignMemVa(map, ba)
  IN
  /\ pc = "aslr"
  /\ attempt < 3
  /\ attempt' = attempt + 1
  /\ IF a.ok /\ IdMapFits(a.m)
       THEN /\ map' \in QSort(Append(a.m, IdMapRegion), CmpVaBefore)
            /\ offs' = AslrOffset(ba)
            /\ pc' = "done"
       ELSE /\ map' = a.m
            /\ pc' = IF attempt = 2 THEN "fixed" ELSE "aslr"
            /\ UNCHANGED offs

(* The fixed anchor: assign_mem_va(start_addr) or panic(), then the      *)
(* final sort.                                                           *)
AssignFixed ==
  LET a == AssignMemVa(map, StartAddr)
  IN
  /\ pc = "fixed"
  /\ IF a.ok
       THEN map' \in QSort(a.m, CmpVaBefore) /\ pc' = "done"
       ELSE map' = a.m /\ pc' = "panic"
  /\ UNCHANGED <<attempt, offs>>

Init ==
  /\ map \in {[i \in DOMAIN l |-> [type |-> l[i].type, pa |-> l[i].pa, size |-> l[i].size,
                                   va |-> 0, rs |-> 0]] : l \in Layouts}
  /\ pc = "init"
  /\ attempt = 0
  /\ offs = 0

Next ==
  \/ PrepareMap
  \/ \E ba \in AslrBases : AslrAttempt(ba)
  \/ AssignFixed

Spec == Init /\ [][Next]_vars

-----------------------------------------------------------------------------
TypeOK ==
  /\ map \in Seq([type : Nat, pa : Nat, size : Nat, va : Nat, rs : Nat])
  /\ pc \in {"init", "aslr", "fixed", "done", "panic"}
  /\ attempt \in 0..3
  /\ offs \in Int

Placed == pc = "done"

(* Spec section 8, placement disjointness: once init_mem_map() returns,  *)
(* no two regions, the identity map included, share a virtual page, in   *)
(* either direction, after the pgdir pa-alignment shifts and the padding *)
(* at nex-shared boundaries.                                             *)
VaDisjoint ==
  Placed =>
    \A i, j \in DOMAIN map : i # j => VaPages(map[i]) \cap VaPages(map[j]) = {}

(* Every region ends inside the virtual address space: the upward        *)
(* placement checks only the end of each region, after the roundings    *)
(* and the pa-alignment offset moved it up.                              *)
VaInSpace ==
  Placed => \A i \in DOMAIN map : map[i].va + map[i].size <= VaSpace

(* The core image is relocated by the offset init_mem_map() reports:     *)
(* every TEE RAM region sits at its physical address plus offs, which    *)
(* boot code applies to the link addresses.                              *)
TeeRamAtOffset ==
  Placed => \A i \in DOMAIN map : map[i].type \in TeeRamTypes => map[i].va = map[i].pa + offs

(* Comment in assign_mem_va_dir(): regions larger than two pgdirs get a  *)
(* va congruent to their pa modulo the pgdir size.                       *)
LargeRegionsPgdirCongruent ==
  Placed =>
    \A i \in DOMAIN map :
      map[i].size > 2 * PgdirSize => map[i].va % PgdirSize = map[i].pa % PgdirSize

=============================================================================
