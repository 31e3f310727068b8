---------------------------- MODULE NsecCarveOut ----------------------------
(***************************************************************************)
(* core_mmu_set_discovered_nsec_ddr() in core_mmu.c: the non-secure DDR    *)
(* ranges firmware reports are sorted by address, then carve_out_phys_mem() *)
(* punches the secure_only[] windows and every MEM_AREA_NSEC_SHM region of *)
(* the memory map out of them (with CFG_SECURE_DATA_PATH first the SDP    *)
(* region of the device tree and the registered phys_sdp_mem[] regions),  *)
(* and every other region of a non-exempt                                  *)
(* type must lie outside what is left (check_phys_mem_is_outside()), or    *)
(* the core panics.  Finally the end of the last range is checked with     *)
(* core_mmu_check_end_pa().                                                *)
(*                                                                         *)
(* Addresses are in small pages; a range is a record [addr, size].         *)
(* nex_realloc() to zero bytes may return NULL, which panics, or not: the  *)
(* model takes both outcomes.                                              *)
(***************************************************************************)
EXTENDS Integers, Sequences, FiniteSets, TLC

LOCAL SE == INSTANCE SequencesExt

CONSTANTS
  Discovered,   \* the arrays firmware may pass (sequences of ranges)
  SdpDtChoices, \* what dtb_get_sdp_region() may find: <<>> or << sec_sdp >>
  PhysSdpMem,   \* phys_sdp_mem[]: sequence of ranges
  SecureOnly,   \* secure_only[]: sequence of ranges
  MemMap,       \* static_memory_map: sequence of [type, pa, size]
  ShmType,      \* MEM_AREA_NSEC_SHM
  ExemptTypes,  \* types the switch skips (NSEC RAM, DT, VA spaces)
  PaSpace,      \* first physical page core_mmu_check_end_pa() refuses
  Windows       \* ranges carve_out_phys_mem() is checked against in every state

VARIABLES
  mem,    \* m[0 .. num_elems-1]
  pc,     \* "sort", "sdp_dt", "sdp_mem", "secure", "map", "end", "done", "panic"
  n,      \* index into phys_sdp_mem[], secure_only[] or the memory map
  sdp,    \* the SDP region of the device tree: <<>> or << sec_sdp >>
  input   \* history: the ranges firmware passed

vars == <<mem, pc, n, sdp, input>>

Pages(a, s) == a .. a + s - 1

RangePages(m) == UNION {Pages(m[i].addr, m[i].size) : i \in DOMAIN m}

(* core_is_buffer_intersect() on non-empty ranges *)
Intersect(a, al, b, bl) == a < b + bl /\ b < a + al

(* core_is_buffer_inside(a, al, b, bl): [a, a+al) lies within [b, b+bl). *)
Inside(a, al, b, bl) == a >= b /\ a + al <= b + bl

-----------------------------------------------------------------------------
(* Fault model of the split test: a window starting at the range's base *)
(* counts as strictly inside.                                            *)
StrictlyInsideLoose(pa, size, r) ==
  pa >= r.addr /\ pa + size - 1 < r.addr + r.size - 1

(* pa:size is strictly inside m[n]: the range is split in two. *)
StrictlyInside(pa, size, r) ==
  pa > r.addr /\ pa + size - 1 < r.addr + r.size - 1

(* Fault model of the trim at the front: the size is left as it was. *)
TrimFrontKeepSize(r, pa, size) == [addr |-> pa + size, size |-> r.size]

(* pa:size overlaps the beginning of m[n]. *)
TrimFront(r, pa, size) == [addr |-> pa + size, size |-> r.addr + r.size - pa - size]

(* Fault model of the trim at the end: the operands of the size swapped. *)
TrimBackSwapped(r, pa) == [r EXCEPT !.size = r.addr - pa]

(* pa:size overlaps the end of m[n]. *)
TrimBack(r, pa) == [r EXCEPT !.size = pa - r.addr]

(* The loop of carve_out_phys_mem(m, nelems, pa, size) from index k.     *)
RECURSIVE CarveLoop(_, _, _, _)
CarveLoop(m, k, pa, size) ==
  IF k > Len(m) THEN m
  ELSE
    LET r == m[k]
    IN
    IF ~Intersect(pa, size, r.addr, r.size) THEN CarveLoop(m, k + 1, pa, size)
    ELSE IF Inside(r.addr, r.size, pa, size) THEN CarveLoop(SE!RemoveAt(m, k), k, pa, size)
    ELSE IF StrictlyInside(pa, size, r)
      THEN CarveLoop(SE!InsertAt([m EXCEPT ![k].size = pa - r.addr], k + 1,
                                 [addr |-> pa + size, size |-> r.addr + r.size - pa - size]),
                     k + 2, pa, size)
    ELSE IF pa <= r.addr THEN CarveLoop([m EXCEPT ![k] = TrimFront(r, pa, size)], k + 1, pa, size)
    ELSE CarveLoop([m EXCEPT ![k] = TrimBack(r, pa)], k + 1, pa, size)

CarveOutPhysMem(m, pa, size) == CarveLoop(m, 1, pa, size)

(* Reference: the pages of m without those of [pa, pa + size). *)
CarveReference(m, pa, size) == RangePages(m) \ Pages(pa, size)

(* cmp_pmem_by_addr() < 0 *)
CmpPmemByAddr(a, b) == a.addr < b.addr

(* Every order qsort() may leave the array in. *)
QSortByAddr(m) ==
  {s \in {[i \in 1..Len(m) |-> m[p[i]]] : p \in Permutations(1..Len(m))} :
     \A i \in 1..Len(m) - 1 : ~CmpPmemByAddr(s[i + 1], s[i])}

(* A carve_out_phys_mem() call: when it removed the last range, the     *)
(* nex_realloc() to zero bytes may have returned NULL and panicked.      *)
Carve(pa, size, next) ==
  LET m2 == CarveOutPhysMem(mem, pa, size)
  IN  /\ mem' = m2
      /\ pc' \in IF Len(m2) = 0 /\ Len(mem) > 0 THEN {next, "panic"} ELSE {next}

-----------------------------------------------------------------------------
(* qsort() of m by cmp_pmem_by_addr() *)
SortRanges ==
  /\ pc = "sort"
  /\ mem' \in QSortByAddr(mem)
  /\ pc' = "sdp_dt"
  /\ n' = 1
  /\ UNCHANGED <<sdp, input>>

(* The stage after the registered SDP regions. *)
AfterSdpDt == IF PhysSdpMem = <<>> THEN "secure" ELSE "sdp_mem"

(* if (dtb_get_sdp_region()) carve_out_phys_mem(..., sec_sdp.paddr, sec_sdp.size) *)
CarveSdpDt ==
  /\ pc = "sdp_dt"
  /\ IF sdp = <<>> THEN pc' = AfterSdpDt /\ UNCHANGED mem
                   ELSE Carve(sdp[1].addr, sdp[1].size, AfterSdpDt)
  /\ UNCHANGED <<n, sdp, input>>

(* One iteration of the loop over phys_sdp_mem[]. *)
CarveSdpMem ==
  /\ pc = "sdp_mem"
  /\ Carve(PhysSdpMem[n].addr, PhysSdpMem[n].size,
           IF n = Len(PhysSdpMem) THEN "secure" ELSE "sdp_mem")
  /\ n' = IF n = Len(PhysSdpMem) THEN 1 ELSE n + 1
  /\ UNCHANGED <<sdp, input>>

(* One iteration of the loop over secure_only[]. *)
CarveSecureOnly ==
  /\ pc = "secure"
  /\ Carve(SecureOnly[n].addr, SecureOnly[n].size,
           IF n = Len(SecureOnly) THEN "map" ELSE "secure")
  /\ n' = IF n = Len(SecureOnly) THEN 1 ELSE n + 1
  /\ UNCHANGED <<sdp, input>>

(* Fault model of check_phys_mem_is_outside(): only the first range is  *)
(* compared.                                                             *)
IsOutsideFirstOnly(m, r) ==
  Len(m) = 0 \/ ~Intersect(m[1].addr, m[1].size, r.pa, r.size)

(* check_phys_mem_is_outside() does not panic: no range meets the region. *)
IsOutside(m, r) == \A i \in DOMAIN m : ~Intersect(m[i].addr, m[i].size, r.pa, r.size)

(* One iteration of the loop over the memory map: NSEC_SHM is carved     *)
(* out, exempt types are skipped, any other region must lie outside the *)
(* remaining ranges or check_phys_mem_is_outside() panics.               *)
VisitMapRegion ==
  LET r    == MemMap[n]
      next == IF n = Len(MemMap) THEN "end" ELSE "map"
  IN
  /\ pc = "map"
  /\ CASE r.type = ShmType -> Carve(r.pa, r.size, next)
       [] r.type \in ExemptTypes -> pc' = next /\ UNCHANGED mem
       [] OTHER ->
            /\ pc' = IF IsOutside(mem, r) THEN next ELSE "panic"
            /\ UNCHANGED mem
  /\ n' = n + 1
  /\ UNCHANGED <<sdp, input>>

(* Fault model: the end check takes the first range of the sorted array. *)
FirstRange(m) == m[1]

(* m[num_elems - 1]: the range with the highest address once sorted. *)
LastRange(m) == m[Len(m)]

(* The tail of the function: core_mmu_check_end_pa() on m[num_elems - 1]; *)
(* with no range left the read is out of bounds and its outcome is any.  *)
CheckEndPa ==
  /\ pc = "end"
  /\ pc' \in IF Len(mem) = 0 THEN {"done", "panic"}
              ELSE IF LastRange(mem).addr + LastRange(mem).size <= PaSpace
                   THEN {"done"} ELSE {"panic"}
  /\ UNCHANGED <<mem, n, sdp, input>>

Init ==
  /\ input \in Discovered
  /\ mem = input
  /\ pc = "sort"
  /\ n = 0
  /\ sdp \in SdpDtChoices

Next ==
  \/ SortRanges
  \/ CarveSdpDt
  \/ CarveSdpMem
  \/ CarveSecureOnly
  \/ VisitMapRegion
  \/ CheckEndPa

Spec == Init /\ [][Next]_vars

-----------------------------------------------------------------------------
TypeOK ==
  /\ mem \in Seq([addr : Nat, size : Nat])
  /\ pc \in {"sort", "sdp_dt", "sdp_mem", "secure", "map", "end", "done", "panic"}
  /\ sdp \in SdpDtChoices
  /\ n \in Nat

(* The order of the stages of the function. *)
Stage == [sort |-> 0, sdp_dt |-> 1, sdp_mem |-> 2, secure |-> 3, map |-> 4,
          end |-> 5, done |-> 5, panic |-> 0]

(* The indices of a loop over s the function has finished: all of them *)
(* after its stage, those below n during it.                            *)
Done(stage, s) ==
  IF pc = stage THEN 1 .. n - 1
  ELSE IF Stage[pc] > Stage[stage] THEN DOMAIN s ELSE {}

(* The windows carve_out_phys_mem() has been called with so far. *)
Carved ==
  LET shm == {i \in Done("map", MemMap) : MemMap[i].type = ShmType}
  IN  (IF Stage[pc] > Stage["sdp_dt"] THEN RangePages(sdp) ELSE {})
      \cup UNION {Pages(PhysSdpMem[i].addr, PhysSdpMem[i].size) : i \in Done("sdp_mem", PhysSdpMem)}
      \cup UNION {Pages(SecureOnly[i].addr, SecureOnly[i].size) : i \in Done("secure", SecureOnly)}
      \cup UNION {Pages(MemMap[i].pa, MemMap[i].size) : i \in shm}

(* The ranges always hold exactly the discovered pages minus the carved *)
(* windows: the split, the trims from either side and the removal in    *)
(* carve_out_phys_mem() neither lose nor keep a page.                    *)
CarveExact ==
  pc # "panic" => RangePages(mem) = RangePages(input) \ Carved

(* Spec section 4.2: after carve-out no region of the memory map other  *)
(* than the exempt types shares a page with the non-secure DDR kept.    *)
CarveOutExclusion ==
  pc = "done" =>
    \A j \in DOMAIN MemMap :
      MemMap[j].type \notin ExemptTypes =>
        \A i \in DOMAIN mem : ~Intersect(mem[i].addr, mem[i].size, MemMap[j].pa, MemMap[j].size)

(* carve_out_phys_mem() computes the set difference: on the ranges of   *)
(* any reachable state and any window it keeps exactly the pages outside *)
(* the window, in non-empty, ordered, disjoint ranges.                    *)
CarveOutIsSetDifference ==
  pc \notin {"sort", "panic"} =>
    \A w \in Windows :
      LET m2 == CarveOutPhysMem(mem, w.addr, w.size)
      IN  /\ RangePages(m2) = CarveReference(mem, w.addr, w.size)
          /\ \A i \in DOMAIN m2 : m2[i].size > 0
          /\ \A i \in 1 .. Len(m2) - 1 : m2[i].addr + m2[i].size <= m2[i + 1].addr

-----------------------------------------------------------------------------
(* The windows a boot carves when the device tree gives the SDP region d. *)
BootWindows(d) ==
  {Pages(w.addr, w.size) : w \in {d[i] : i \in DOMAIN d} \cup {PhysSdpMem[i] : i \in DOMAIN PhysSdpMem}
                                  \cup {SecureOnly[i] : i \in DOMAIN SecureOnly}}
  \cup {Pages(MemMap[i].pa, MemMap[i].size) : i \in {j \in DOMAIN MemMap : MemMap[j].type = ShmType}}

(* The set-up seen as the page set of NsecDdr: the ranges stand for their *)
(* pages; sorting, skipped regions and checks that pass are stutter steps. *)
Abs == INSTANCE NsecDdr WITH
  InitialPages <- {RangePages(d) : d \in Discovered},
  WindowChoices <- {BootWindows(d) : d \in SdpDtChoices},
  Guarded       <- {Pages(MemMap[i].pa, MemMap[i].size) : i \in {j \in DOMAIN MemMap : MemMap[j].type \notin ExemptTypes}},
  pages         <- RangePages(mem),
  windows       <- BootWindows(sdp),
  phase         <- IF pc \in {"done", "panic"} THEN pc ELSE "carving"

(* core_mmu_set_discovered_nsec_ddr() implements NsecDdr: every step of   *)
(* the sort, the carve loops, the overlap checks and the end check either *)
(* removes one reserved window's pages, finishes with pages that are in   *)
(* the address space and clear of every guarded region, or panics only on *)
(* a real layout defect.  Broken if a check looks at the wrong range or a *)
(* carve keeps or drops a page.                                            *)
NsecDdrRefined == Abs!Spec

=============================================================================
