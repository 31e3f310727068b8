---------------------------- MODULE MemMapMerge ----------------------------
(***************************************************************************)
(* Boot-time region collection of core_mmu.c: collect_mem_ranges() feeds   *)
(* the platform's physical ranges one by one to add_phys_mem(), which      *)
(* keeps struct memory_map sorted by (type, pa) and coalesces a new range  *)
(* with an overlapping or touching range of the same type, and then adds   *)
(* the pure virtual-space reservations with add_va_space().  Every         *)
(* insertion goes through grow_mem_map(), which calls the installed        *)
(* memory_map_realloc_func (boot_mem_realloc_memory_map during boot) when  *)
(* the array is full.                                                      *)
(*                                                                         *)
(* Addresses and sizes are in units of small pages; a region is a record   *)
(* [type, pa, size] where type is the numeric value of the                 *)
(* enum teecore_memtypes, so that "<" on types is the code's order.        *)
(***************************************************************************)
EXTENDS Naturals, Sequences, FiniteSets

LOCAL SE == INSTANCE SequencesExt

CONSTANTS
  PhysTypes,      \* enum values of the types given to add_phys_mem()
  VaSpaceTypes,   \* sequence of the types given to add_va_space(), in call order
  PAs,            \* physical base addresses a platform may declare
  Sizes,          \* sizes a platform may declare (0 included: discarded)
  VaSpaceSize,    \* size passed to add_va_space()
  InitAllocCount, \* CFG_MMAP_REGIONS: initial capacity of the array
  MaxAdds         \* bound on the number of add_phys_mem() calls

ASSUME PhysTypes \subseteq Nat /\ PAs \subseteq Nat /\ Sizes \subseteq Nat
ASSUME \A i \in 1..Len(VaSpaceTypes) : VaSpaceTypes[i] \notin PhysTypes
ASSUME InitAllocCount \in Nat \ {0} /\ MaxAdds \in Nat

VARIABLES
  map,        \* mem_map->map[0 .. count-1] as a sequence of regions
  allocCount, \* mem_map->alloc_count
  phase,      \* "phys": platform ranges; "va": va-space reservations; "done"
  vaNext,     \* index in VaSpaceTypes of the next add_va_space() call
  adds,       \* number of add_phys_mem() calls made (bounded by MaxAdds)
  added       \* history: set of <<type, page>> given to add_phys_mem()

vars == <<map, allocCount, phase, vaNext, adds, added>>

Region == [type : Nat, pa : Nat, size : Nat]

(* The pages a region covers. *)
Pages(r) == {r.pa + i : i \in 0 .. r.size - 1}

-----------------------------------------------------------------------------
(* mmaps_are_mergeable(): same type, and the extents overlap or touch. *)
MmapsAreMergeable(r1, r2) ==
  /\ r1.type = r2.type
  /\ \/ r1.pa = r2.pa
     \/ r1.pa < r2.pa /\ r1.pa + r1.size >= r2.pa
     \/ r1.pa > r2.pa /\ r2.pa + r2.size >= r1.pa

(* Fault model of merge_mmaps(): the base of dst is kept, so a src that *)
(* starts below dst loses its lower pages.                               *)
MergeMmapsKeepDstPa(dst, src) ==
  LET endPa == IF dst.pa + dst.size > src.pa + src.size
               THEN dst.pa + dst.size - 1 ELSE src.pa + src.size - 1
  IN  [dst EXCEPT !.size = endPa - dst.pa + 1]

(* merge_mmaps(): dst becomes the smallest extent covering dst and src. *)
MergeMmaps(dst, src) ==
  LET endPa == IF dst.pa + dst.size > src.pa + src.size
               THEN dst.pa + dst.size - 1 ELSE src.pa + src.size - 1
      pa    == IF dst.pa < src.pa THEN dst.pa ELSE src.pa
  IN  [dst EXCEPT !.pa = pa, !.size = endPa - pa + 1]

(* Fault model of the break condition: ordering by type only, as        *)
(* add_va_space() does, so a range of a known type is always appended.   *)
SortsBeforeTypeOnly(m0, r) == m0.type < r.type

(* The break condition of add_phys_mem()'s scan: m0 sorts before r. *)
SortsBefore(m0, r) ==
  \/ m0.type < r.type
  \/ m0.type = r.type /\ m0.pa < r.pa

(* Index where add_phys_mem()'s loop stops: the first entry m0 merges    *)
(* with or sorts before, or count (Len + 1 here) when there is none.     *)
ScanStop(m, m0) ==
  LET hits == {n \in 1..Len(m) : MmapsAreMergeable(m[n], m0) \/ SortsBefore(m0, m[n])}
  IN  IF hits = {} THEN Len(m) + 1
      ELSE CHOOSE n \in hits : \A k \in hits : n <= k

(* Fault model of grow_mem_map(): the full check is off by one, so the  *)
(* array grows only once it has already overflowed.                      *)
GrowAllocCountLate(m, ac) == IF Len(m) > ac THEN 2 * ac ELSE ac

(* grow_mem_map() with boot_mem_realloc_memory_map() installed: when the *)
(* array is full its capacity doubles.                                   *)
GrowAllocCount(m, ac) == IF Len(m) = ac THEN 2 * ac ELSE ac

(* The merge branch of add_phys_mem(): merge into entry n, then once     *)
(* with the next entry and once with the previous one.                   *)
MergeAt(m, n, m0) ==
  LET m1 == [m EXCEPT ![n] = MergeMmaps(m[n], m0)]
      m2 == IF n + 1 <= Len(m1) /\ MmapsAreMergeable(m1[n], m1[n + 1])
            THEN SE!RemoveAt([m1 EXCEPT ![n] = MergeMmaps(m1[n], m1[n + 1])], n + 1)
            ELSE m1
      m3 == IF n > 1 /\ MmapsAreMergeable(m2[n - 1], m2[n])
            THEN SE!RemoveAt([m2 EXCEPT ![n - 1] = MergeMmaps(m2[n - 1], m2[n])], n)
            ELSE m2
  IN  m3

(* add_phys_mem(mem_map, name, t, a, s) *)
AddPhysMem(t, a, s) ==
  LET m0   == [type |-> t, pa |-> a, size |-> s]
      stop == ScanStop(map, m0)
  IN
  /\ phase = "phys"
  /\ adds < MaxAdds
  /\ adds' = adds + 1
  /\ added' = added \cup {<<t, p>> : p \in Pages(m0)}
  /\ IF s = 0
       THEN UNCHANGED <<map, allocCount>>
     ELSE IF stop <= Len(map) /\ MmapsAreMergeable(map[stop], m0)
       THEN /\ map' = MergeAt(map, stop, m0)
            /\ UNCHANGED allocCount
     ELSE /\ allocCount' = GrowAllocCount(map, allocCount)
          /\ map' = SE!InsertAt(map, stop, m0)
  /\ UNCHANGED <<phase, vaNext>>

(* collect_mem_ranges() leaves the loop over phys_mem_map and goes on    *)
(* to the add_va_space() calls.                                          *)
EndPhysRanges ==
  /\ phase = "phys"
  /\ phase' = IF Len(VaSpaceTypes) = 0 THEN "done" ELSE "va"
  /\ UNCHANGED <<map, allocCount, vaNext, adds, added>>

(* add_va_space(mem_map, type, size): inserted before the first entry   *)
(* of a larger type, without merging.                                    *)
AddVaSpace ==
  LET t    == VaSpaceTypes[vaNext]
      hits == {n \in 1..Len(map) : t < map[n].type}
      pos  == IF hits = {} THEN Len(map) + 1
              ELSE CHOOSE n \in hits : \A k \in hits : n <= k
  IN
  /\ phase = "va"
  /\ allocCount' = GrowAllocCount(map, allocCount)
  /\ map' = SE!InsertAt(map, pos, [type |-> t, pa |-> 0, size |-> VaSpaceSize])
  /\ vaNext' = vaNext + 1
  /\ phase' = IF vaNext = Len(VaSpaceTypes) THEN "done" ELSE "va"
  /\ UNCHANGED <<adds, added>>

Init ==
  /\ map = <<>>
  /\ allocCount = InitAllocCount
  /\ phase = "phys"
  /\ vaNext = 1
  /\ adds = 0
  /\ added = {}

Next ==
  \/ \E t \in PhysTypes, a \in PAs, s \in Sizes : AddPhysMem(t, a, s)
  \/ EndPhysRanges
  \/ AddVaSpace

Spec == Init /\ [][Next]_vars

-----------------------------------------------------------------------------
TypeOK ==
  /\ map \in Seq(Region)
  /\ allocCount \in Nat /\ Len(map) <= allocCount
  /\ phase \in {"phys", "va", "done"}
  /\ vaNext \in 1..Len(VaSpaceTypes) + 1
  /\ adds \in 0..MaxAdds
  /\ added \subseteq PhysTypes \X Nat

PhysEntries == {n \in 1..Len(map) : map[n].type \in PhysTypes}

(* The map stays sorted by (type, pa) however the platform orders its    *)
(* ranges: add_phys_mem() relies on this to find merge partners and the *)
(* insertion point in one scan, and the merges of the scan's entry with *)
(* its neighbours must not move an entry out of order.                   *)
SortedByTypeAndPa ==
  \A i \in 1..Len(map) - 1 :
    \/ map[i].type < map[i + 1].type
    \/ map[i].type = map[i + 1].type /\ map[i].pa <= map[i + 1].pa

(* Merging neither loses nor invents memory: for every type, the pages   *)
(* the map covers are exactly the pages of the non-empty ranges given to *)
(* add_phys_mem() with that type.                                         *)
CoverageExact ==
  UNION {{map[n].type} \X Pages(map[n]) : n \in PhysEntries} = added

=============================================================================
