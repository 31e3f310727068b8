----------------------------- MODULE RuntimeMap -----------------------------
(***************************************************************************)
(* The published core memory map after boot (static_memory_map in          *)
(* core_mmu.c) and the translation table behind it, mutated by             *)
(* core_mmu_add_mapping() and core_mmu_remove_mapping() and read lock-free *)
(* by phys_to_virt() on any core.                                          *)
(*                                                                         *)
(* Neither mutator takes mmu_lock; the in-tree caller, spmc_handle_rxtx_map *)
(* in thread_spmc.c, runs them under the single rxtx spinlock, so one      *)
(* mutator call runs at a time.  Readers take no lock at all.  Each        *)
(* mutator call is split at the stores another core can observe:           *)
(* add_mapping writes the free slot map[count], moves the reserved VA      *)
(* region (RES_VASPACE), increments count, then programs the table;        *)
(* remove_mapping clears the table and invalidates the TLB, gives the VA   *)
(* back to RES_VASPACE, shifts the array down, then decrements count.      *)
(*                                                                         *)
(* Addresses are in small pages.  As in the code, 0 is the invalid         *)
(* physical address of an empty table entry and the NULL virtual address.  *)
(***************************************************************************)
EXTENDS Integers, Sequences, FiniteSets

CONSTANTS
  Cores,        \* cores running phys_to_virt() concurrently
  ResType,      \* MEM_AREA_RES_VASPACE
  AddTypes,     \* memory types callers pass to add/remove_mapping
  InitMap,      \* static_memory_map after core_mmu_save_mem_map(), sorted by va
  AllocCount,   \* static_memory_map.alloc_count (count + 5 in the code)
  Granule,      \* BIT(tbl_info.shift) of the table holding RES_VASPACE
  TblBase,      \* tbl_info.va_base of that table
  TblEntries,   \* tbl_info.num_entries
  PAs,          \* physical addresses callers pass
  Lens,         \* lengths callers pass
  VAs,          \* virtual pages that exist in the model
  MaxOps,       \* bound on mutator calls
  MaxLookups    \* bound on phys_to_virt() calls per core

ASSUME Granule \in Nat \ {0} /\ AllocCount >= Len(InitMap)

Region == [type : Nat, pa : Nat, va : Nat, size : Nat]

(* A slot of the calloc'ed array that holds no region. *)
EmptySlot == [type |-> 0, pa |-> 0, va |-> 0, size |-> 0]

VARIABLES
  slots,    \* static_memory_map.map[0 .. alloc_count-1]
  count,    \* static_memory_map.count
  table,    \* translation table: virtual page -> physical page, 0 = invalid
  wpc,      \* program counter of the running mutator call
  wop,      \* that call's arguments and locals
  ops,      \* number of mutator calls started
  rpc,      \* per core: program counter of its phys_to_virt() call
  rq,       \* per core: the call's arguments and loop index
  rres,     \* per core: the call's result (a va, 0 = NULL)
  rstable,  \* history: matching regions published throughout the call
  rgood,    \* history: answers that were right at some point of the call
  lookups   \* per core: phys_to_virt() calls made

mutVars == <<slots, count, table, wpc, wop, ops>>
readVars == <<rpc, rq, rres, lookups>>
histVars == <<rstable, rgood>>
vars == <<mutVars, readVars, histVars>>

-----------------------------------------------------------------------------
RoundDown(x, g) == (x \div g) * g
RoundUp(x, g) == ((x + g - 1) \div g) * g

(* Pages of the region's virtual extent. *)
VaPages(r) == {r.va + i : i \in 0 .. r.size - 1}

(* pa_is_in_map(): [pa, pa + len) lies inside the region's physical extent. *)
PaIsInMap(r, pa, len) ==
  /\ len >= 1
  /\ pa >= r.pa
  /\ pa + len - 1 <= r.pa + r.size - 1

(* The published entries map[0 .. count-1] of a state. *)
Published(s, c) == {s[i] : i \in 1..c}

(* Index of the first published entry satisfying P, 0 when none: the    *)
(* linear scans of find_map_by_type() and find_map_by_type_and_pa().     *)
FirstIndex(s, c, P(_)) ==
  LET hits == {i \in 1..c : P(s[i])}
  IN  IF hits = {} THEN 0 ELSE CHOOSE i \in hits : \A k \in hits : i <= k

FindMapByType(s, c, t) == FirstIndex(s, c, LAMBDA r : r.type = t)

FindMapByTypeAndPa(s, c, t, pa, len) ==
  FirstIndex(s, c, LAMBDA r : r.type = t /\ PaIsInMap(r, pa, len))

(* Fault model of map_pa2va(): the offset into the region is dropped. *)
MapPa2VaNoOffset(r, pa) == r.va

(* map_pa2va() on a region that passed pa_is_in_map(). *)
MapPa2Va(r, pa) == r.va + pa - r.pa

(* set_region(): one entry per page of the region. *)
SetRegion(t, r) ==
  [v \in DOMAIN t |-> IF v \in VaPages(r) THEN r.pa + (v - r.va) ELSE t[v]]

(* Fault model of clear_region(): the loop stops one page short. *)
ClearRegionShort(t, r) ==
  [v \in DOMAIN t |-> IF v \in VaPages(r) /\ v < r.va + r.size - 1 THEN 0 ELSE t[v]]

(* clear_region(): every entry of the region's extent is made invalid.   *)
ClearRegion(t, r) ==
  [v \in DOMAIN t |-> IF v \in VaPages(r) THEN 0 ELSE t[v]]

(* rem_array_elem(map, count, elem_size, idx): memmove of the entries *)
(* above idx one slot down; the last old slot keeps its old content.     *)
RemArrayElem(s, c, idx) ==
  [i \in DOMAIN s |-> IF i >= idx /\ i < c THEN s[i + 1] ELSE s[i]]

(* Fault model of the array-full check: off by one. *)
MapFullOffByOne(c) == c > AllocCount

(* add_mapping: static_memory_map.count >= static_memory_map.alloc_count. *)
MapFull(c) == c >= AllocCount

-----------------------------------------------------------------------------
(* History for the lookups in flight: after each step that other cores   *)
(* can observe, matching regions that are no longer published drop out   *)
(* of rstable and the answers now right are added to rgood.              *)
Matching(s, c, q) ==
  {r \in Published(s, c) : r.type = q.type /\ PaIsInMap(r, q.pa, 1)}

Answers(s, c, q) == {MapPa2Va(r, q.pa) : r \in Matching(s, c, q)}

Observe(s, c) ==
  /\ rstable' = [k \in Cores |->
                   IF rpc[k] \in {"scan", "check", "compute"}
                   THEN rstable[k] \cap Matching(s, c, rq[k]) ELSE rstable[k]]
  /\ rgood' = [k \in Cores |->
                 IF rpc[k] \in {"scan", "check", "compute"}
                 THEN rgood[k] \cup Answers(s, c, rq[k]) ELSE rgood[k]]

-----------------------------------------------------------------------------
(* core_mmu_add_mapping(type, addr, len) up to and including the store   *)
(* of the new entry into the unpublished slot map[count].  Every early   *)
(* return is a step to "ret" with its result.  RES_VASPACE is always    *)
(* published (no caller passes its type), so the returns on a missing   *)
(* reserved region or table are not reachable and not modelled; nor is  *)
(* core_mmu_check_end_pa(), since no address here overflows.            *)
AddMappingStart(t, a, len) ==
  LET ex  == FindMapByTypeAndPa(slots, count, t, a, len)
      ri  == FindMapByType(slots, count, ResType)
      res == slots[ri]
      p   == RoundDown(a, Granule)
      l   == RoundUp(len + a - p, Granule)
      new == [type |-> t, pa |-> p, va |-> res.va, size |-> l]
      Fail == /\ wpc' = "ret"
              /\ wop' = [kind |-> "add", type |-> t, addr |-> a, len |-> len,
                         ri |-> ri, idx |-> 0, reg |-> EmptySlot, ret |-> 0]
              /\ UNCHANGED slots
  IN
  /\ wpc = "idle" /\ ops < MaxOps
  /\ ops' = ops + 1
  /\ CASE len = 0 -> Fail
       [] ex # 0 ->
            /\ wpc' = "ret"
            /\ wop' = [kind |-> "add", type |-> t, addr |-> a, len |-> len, ri |-> ri,
                       idx |-> ex, reg |-> slots[ex], ret |-> MapPa2Va(slots[ex], a)]
            /\ UNCHANGED slots
       [] res.size < l -> Fail
       [] (res.va + len - TblBase) \div Granule >= TblEntries -> Fail
       [] MapFull(count) -> Fail
       [] OTHER ->
            /\ slots' = [slots EXCEPT ![count + 1] = new]
            /\ wop' = [kind |-> "add", type |-> t, addr |-> a, len |-> len, ri |-> ri,
                       idx |-> count + 1, reg |-> new, ret |-> 0]
            /\ wpc' = "add_res"
  /\ UNCHANGED <<count, table, readVars, histVars>>

(* Fault model of the RES_VASPACE update: the size shrinks but the base *)
(* is not advanced.                                                       *)
AddMappingResNoVa ==
  LET s2 == [slots EXCEPT ![wop.ri].size = @ - wop.reg.size]
  IN
  /\ wpc = "add_res"
  /\ slots' = s2
  /\ wpc' = "add_count"
  /\ Observe(s2, count)
  /\ UNCHANGED <<count, table, wop, ops, readVars>>

(* add_mapping: map->va += l; map->size -= l on RES_VASPACE. *)
AddMappingRes ==
  LET ri == wop.ri
      l  == wop.reg.size
      s2 == [slots EXCEPT ![ri].va = @ + l, ![ri].size = @ - l]
  IN
  /\ wpc = "add_res"
  /\ slots' = s2
  /\ wpc' = "add_count"
  /\ Observe(s2, count)
  /\ UNCHANGED <<count, table, wop, ops, readVars>>

(* add_mapping: mem_map->count++ publishes the new entry. *)
AddMappingPublish ==
  /\ wpc = "add_count"
  /\ count' = count + 1
  /\ wpc' = "add_set"
  /\ Observe(slots, count + 1)
  /\ UNCHANGED <<slots, table, wop, ops, readVars>>

(* add_mapping: set_region(), the write barrier, and the return value.  *)
AddMappingSetRegion ==
  /\ wpc = "add_set"
  /\ table' = SetRegion(table, wop.reg)
  /\ wop' = [wop EXCEPT !.ret = MapPa2Va(wop.reg, wop.addr)]
  /\ wpc' = "ret"
  /\ UNCHANGED <<slots, count, ops, readVars, histVars>>

(* core_mmu_remove_mapping(type, addr, len) up to clear_region() and     *)
(* tlbi_all(): pa is virt_to_phys(addr), read from the table.            *)
RemoveMappingStart(t, v, len) ==
  LET pa  == table[v]
      idx == FindMapByTypeAndPa(slots, count, t, pa, len)
      ri  == FindMapByType(slots, count, ResType)
      p   == RoundDown(pa, Granule)
      l   == RoundUp(len + pa - p, Granule)
      Fail == /\ wpc' = "ret"
              /\ wop' = [kind |-> "remove", type |-> t, addr |-> v, len |-> len,
                         ri |-> ri, idx |-> idx, reg |-> EmptySlot, ret |-> 0]
              /\ UNCHANGED table
  IN
  /\ wpc = "idle" /\ ops < MaxOps
  /\ ops' = ops + 1
  /\ CASE idx = 0 -> Fail
       [] slots[idx].pa # p \/ slots[idx].size # l -> Fail
       [] OTHER ->
            /\ table' = ClearRegion(table, slots[idx])
            /\ wpc' = "rm_res"
            /\ wop' = [kind |-> "remove", type |-> t, addr |-> v, len |-> len,
                       ri |-> ri, idx |-> idx, reg |-> slots[idx], ret |-> 1]
  /\ UNCHANGED <<slots, count, readVars, histVars>>

(* remove_mapping: the VA goes back to RES_VASPACE only when the region  *)
(* lies right below it.                                                   *)
RemoveMappingRes ==
  LET res == slots[wop.ri]
      m   == wop.reg
      s2  == IF res.va - m.size = m.va
             THEN [slots EXCEPT ![wop.ri].va = @ - m.size, ![wop.ri].size = @ + m.size]
             ELSE slots
  IN
  /\ wpc = "rm_res"
  /\ slots' = s2
  /\ wpc' = "rm_shift"
  /\ Observe(s2, count)
  /\ UNCHANGED <<count, table, wop, ops, readVars>>

(* remove_mapping: rem_array_elem() over the published entries. *)
RemoveMappingShift ==
  LET s2 == RemArrayElem(slots, count, wop.idx)
  IN
  /\ wpc = "rm_shift"
  /\ slots' = s2
  /\ wpc' = "rm_count"
  /\ Observe(s2, count)
  /\ UNCHANGED <<count, table, wop, ops, readVars>>

(* remove_mapping: static_memory_map.count--. *)
RemoveMappingCount ==
  /\ wpc = "rm_count"
  /\ count' = count - 1
  /\ wpc' = "ret"
  /\ Observe(slots, count - 1)
  /\ UNCHANGED <<slots, table, wop, ops, readVars>>

(* The mutator call returns to its caller. *)
MutatorReturn ==
  /\ wpc = "ret"
  /\ wpc' = "idle"
  /\ UNCHANGED <<slots, count, table, wop, ops, readVars, histVars>>

-----------------------------------------------------------------------------
(* phys_to_virt(pa, type, len) on core k for a type that takes the       *)
(* default branch: map_pa2va(find_map_by_type_and_pa(type, pa, len)).    *)
LookupStart(k, t, pa) ==
  LET q == [type |-> t, pa |-> pa, n |-> 1]
  IN
  /\ rpc[k] = "idle" /\ lookups[k] < MaxLookups
  /\ rpc' = [rpc EXCEPT ![k] = "scan"]
  /\ rq' = [rq EXCEPT ![k] = q]
  /\ rres' = [rres EXCEPT ![k] = 0]
  /\ lookups' = [lookups EXCEPT ![k] = @ + 1]
  /\ rstable' = [rstable EXCEPT ![k] = Matching(slots, count, q)]
  /\ rgood' = [rgood EXCEPT ![k] = Answers(slots, count, q)]
  /\ UNCHANGED mutVars

(* One iteration of find_map_by_type_and_pa(): count and map[n] are     *)
(* read afresh on every iteration.                                        *)
LookupScan(k) ==
  LET n == rq[k].n
  IN
  /\ rpc[k] = "scan"
  /\ IF n > count
       THEN rpc' = [rpc EXCEPT ![k] = "done"] /\ UNCHANGED rq
     ELSE IF slots[n].type = rq[k].type /\ PaIsInMap(slots[n], rq[k].pa, 1)
       THEN rpc' = [rpc EXCEPT ![k] = "check"] /\ UNCHANGED rq
     ELSE rq' = [rq EXCEPT ![k].n = n + 1] /\ UNCHANGED rpc
  /\ UNCHANGED <<mutVars, rres, lookups, histVars>>

(* map_pa2va(): pa_is_in_map() re-reads the entry through the pointer.  *)
LookupCheck(k) ==
  /\ rpc[k] = "check"
  /\ rpc' = [rpc EXCEPT ![k] =
               IF PaIsInMap(slots[rq[k].n], rq[k].pa, 1) THEN "compute" ELSE "done"]
  /\ UNCHANGED <<mutVars, rq, rres, lookups, histVars>>

(* map_pa2va(): map->va + pa - map->pa, read once more. *)
LookupCompute(k) ==
  /\ rpc[k] = "compute"
  /\ rres' = [rres EXCEPT ![k] = MapPa2Va(slots[rq[k].n], rq[k].pa)]
  /\ rpc' = [rpc EXCEPT ![k] = "done"]
  /\ UNCHANGED <<mutVars, rq, lookups, histVars>>

LookupReturn(k) ==
  /\ rpc[k] = "done"
  /\ rpc' = [rpc EXCEPT ![k] = "idle"]
  /\ UNCHANGED <<mutVars, rq, rres, lookups, histVars>>

-----------------------------------------------------------------------------
Init ==
  /\ slots = [i \in 1..AllocCount |-> IF i <= Len(InitMap) THEN InitMap[i] ELSE EmptySlot]
  /\ count = Len(InitMap)
  /\ table = [v \in VAs |->
               IF \E i \in 1..Len(InitMap) : InitMap[i].type # ResType /\ v \in VaPages(InitMap[i])
               THEN LET r == CHOOSE r \in Published(InitMap, Len(InitMap)) :
                               r.type # ResType /\ v \in VaPages(r)
                    IN  r.pa + (v - r.va)
               ELSE 0]
  /\ wpc = "idle"
  /\ wop = [kind |-> "none", type |-> 0, addr |-> 0, len |-> 0, ri |-> 0, idx |-> 0,
            reg |-> EmptySlot, ret |-> 0]
  /\ ops = 0
  /\ rpc = [k \in Cores |-> "idle"]
  /\ rq = [k \in Cores |-> [type |-> 0, pa |-> 0, n |-> 1]]
  /\ rres = [k \in Cores |-> 0]
  /\ rstable = [k \in Cores |-> {}]
  /\ rgood = [k \in Cores |-> {}]
  /\ lookups = [k \in Cores |-> 0]

Next ==
  \/ \E t \in AddTypes, a \in PAs, len \in Lens : AddMappingStart(t, a, len)
  \/ AddMappingRes
  \/ AddMappingPublish
  \/ AddMappingSetRegion
  \/ \E t \in AddTypes, v \in VAs, len \in Lens : RemoveMappingStart(t, v, len)
  \/ RemoveMappingRes
  \/ RemoveMappingShift
  \/ RemoveMappingCount
  \/ MutatorReturn
  \/ \E k \in Cores, t \in AddTypes, pa \in PAs : LookupStart(k, t, pa)
  \/ \E k \in Cores : LookupScan(k) \/ LookupCheck(k) \/ LookupCompute(k) \/ LookupReturn(k)

Spec == Init /\ [][Next]_vars

-----------------------------------------------------------------------------
TypeOK ==
  /\ slots \in [1..AllocCount -> Region]
  /\ count \in 0..AllocCount
  /\ table \in [VAs -> Nat]
  /\ wpc \in {"idle", "add_res", "add_count", "add_set", "rm_res", "rm_shift", "rm_count", "ret"}
  /\ ops \in 0..MaxOps
  /\ rpc \in [Cores -> {"idle", "scan", "check", "compute", "done"}]
  /\ rres \in [Cores -> Int]
  /\ lookups \in [Cores -> 0..MaxLookups]

(* Regions whose table entries are in place: the published ones except  *)
(* the one the running call has published but not yet set, or has       *)
(* already cleared but not yet unpublished.                              *)
Settled ==
  {r \in Published(slots, count) :
     /\ r.type # ResType
     /\ ~(wpc \in {"add_set", "rm_res", "rm_shift", "rm_count"} /\ r = wop.reg)}

(* The translation table maps exactly the settled regions, each page to  *)
(* its physical page: add_mapping programs what it publishes, and        *)
(* remove_mapping clears the whole extent before unpublishing it, so no  *)
(* stale translation survives a removal and no published region is left  *)
(* unmapped.                                                             *)
TableMatchesMap ==
  \A v \in VAs :
    IF \E r \in Settled : v \in VaPages(r)
    THEN \E r \in Settled : v \in VaPages(r) /\ table[v] = r.pa + (v - r.va)
    ELSE table[v] = 0

(* Whenever no mutator call is in progress, the published regions,       *)
(* RES_VASPACE included, occupy pairwise disjoint virtual ranges: a VA   *)
(* handed out by add_mapping is taken out of RES_VASPACE before the next *)
(* call can hand it out again.                                           *)
VaDisjointWhenIdle ==
  wpc = "idle" =>
    \A i, j \in 1..count :
      i # j => VaPages(slots[i]) \cap VaPages(slots[j]) = {}

(* Round trip of spec section 8: the address add_mapping returns, fresh  *)
(* or reused, translates back to the physical address asked for.         *)
AddReturnsTranslation ==
  (wpc = "ret" /\ wop.kind = "add" /\ wop.ret # 0) => table[wop.ret] = wop.addr

(* Spec section 5: a lookup racing a mutation observes the pre- or the   *)
(* post-mutation state, never a torn one.  So phys_to_virt() returns     *)
(* NULL only if no matching region stayed published throughout the call, *)
(* and an address it returns was the right answer at some point of the   *)
(* call, although find_map_by_type_and_pa() and map_pa2va() read the      *)
(* array without a lock while remove_mapping() shifts it.                 *)
LookupSeesPreOrPost ==
  \A k \in Cores :
    rpc[k] = "done" =>
      IF rres[k] = 0 THEN rstable[k] = {} ELSE rres[k] \in rgood[k]

=============================================================================
