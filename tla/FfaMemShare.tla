---------------------------- MODULE FfaMemShare ----------------------------
(***************************************************************************)
(* Memory sharing with the S-EL1 SPMC, thread_spmc.c: the FF-A calls      *)
(* FFA_MEM_SHARE, FFA_MEM_FRAG_TX and FFA_MEM_RECLAIM, and the RX/TX      *)
(* buffer calls FFA_RXTX_MAP, FFA_RXTX_UNMAP, FFA_RX_RELEASE and          *)
(* FFA_PARTITION_INFO_GET, issued by the normal world on any core.        *)
(*                                                                         *)
(* A share's descriptor comes through our RX buffer or through a buffer   *)
(* of its own ("tmem"), which handle_mem_share_tmem() allocates from      *)
(* core_virt_shm_pool and maps before taking my_rxtx.spinlock and unmaps  *)
(* and frees after releasing it.  A descriptor longer than the first      *)
(* fragment leaves a struct mem_frag_state on frag_state_head, completed  *)
(* by FFA_MEM_FRAG_TX calls.  The RX/TX buffers (without                  *)
(* CFG_NS_VIRTUALIZATION) come from the same pool through map_buf().      *)
(*                                                                         *)
(* A step is one stretch of a handler under one lock: the rxtx spinlock,  *)
(* or the pool and MMU locks taken inside tee_mm_alloc(), tee_mm_free(),  *)
(* core_mmu_map_contiguous_pages() and core_mmu_unmap_pages().  Sizes are *)
(* in units of sizeof(struct ffa_address_range); the pool in pages.       *)
(***************************************************************************)
EXTENDS Integers, Sequences, FiniteSets

CONSTANTS
  Cores,           \* cores the normal world calls from
  PoolPages,       \* pages of core_virt_shm_pool
  PageUnits,       \* SMALL_PAGE_SIZE in units
  RangeUnits,      \* sizeof(struct ffa_address_range) in units
  ShareReqs,       \* FFA_MEM_SHARE arguments with the descriptor they point to
  FragLens,        \* frag_len values of FFA_MEM_FRAG_TX
  RangePageCounts, \* page_count values of an address range entry
  RxTxPages,       \* buffer sizes FFA_RXTX_MAP passes, in pages
  OobHdrs,         \* values a region_offs read outside the descriptor may yield
  Versions,        \* version words FFA_MSG_VERSION_REQ passes
  Lsps,            \* lsp_head: sequence of the LSPs' UUIDs, NilUuid for none
  NilUuid,         \* the nil UUID
  UuidArgs,        \* UUIDs FFA_PARTITION_INFO_GET passes
  MaxCalls         \* bound on the number of FF-A calls

VARIABLES
  owner,    \* pool page -> id of the tee_mm entry owning it, 0 when free
  mapped,   \* pool pages with a valid translation table entry
  rxtx,     \* my_rxtx: [size (pages), rx, tx (tee_mm entries), txMine, vers]
  frags,    \* frag_state_head: set of mem_frag_state
  mobj,     \* cookie -> "none", "pending", "inactive", "deleted", "reclaimed"
  filled,   \* cookie -> [idx, count] of the mobj when pushed to inactive
  core,     \* core -> [pc, req, mm, n]: handler position and its locals
  ret,      \* core -> [rc, handle] returned by the last call
  calls,    \* FF-A calls made (also the source of tee_mm and cookie ids)
  panicked, \* the SPMC called panic()
  oob       \* a descriptor field was read outside the checked descriptor

vars == <<owner, mapped, rxtx, frags, mobj, filled, core, ret, calls, panicked, oob>>

Ids == 1 .. MaxCalls + 2
RxId == MaxCalls + 1
TxId == MaxCalls + 2

FFA_OK == 0
FFA_INVALID_PARAMETERS == -2
FFA_NO_MEMORY == -3
FFA_BUSY == -4
FFA_DENIED == -6

(* FF-A version words: major in bits [30:16], minor in bits [15:0]. *)
FfaVersion(major, minor) == major * 65536 + minor
MajorVersion(v) == v \div 65536
MinorVersion(v) == v % 65536
FFA_VERSION_1_0 == FfaVersion(1, 0)
FFA_VERSION_1_1 == FfaVersion(1, 1)
FFA_VERSION_1_2 == FfaVersion(1, 2)

(* SMALL_PAGE_SIZE, sizeof(struct ffa_partition_info_x), FFA_UUID_SIZE *)
SmallPageBytes == 4096
PartInfoBytes == 8
UuidBytes == 16

NoMm == [id |-> 0, start |-> 0, npages |-> 0]
Idle == [pc |-> "idle", req |-> CHOOSE r \in ShareReqs : TRUE, mm |-> NoMm, n |-> 0]

-----------------------------------------------------------------------------
(* The core_virt_shm_pool: tee_mm_alloc(), tee_mm_free() and the table   *)
(* updates of core_mmu_map_contiguous_pages() / core_mmu_unmap_pages().  *)

MmPages(mm) == mm.start .. mm.start + mm.npages - 1

(* Fault model of tee_mm_alloc(): the pool's end is off by one. *)
FreeStartsPastEnd(own, n) ==
  {st \in 1 .. PoolPages - n + 2 : \A v \in st .. st + n - 1 : v > PoolPages \/ own[v] = 0}

(* Start pages tee_mm_alloc() may return for n pages. *)
FreeStarts(own, n) ==
  {st \in 1 .. PoolPages - n + 1 : \A v \in st .. st + n - 1 : own[v] = 0}

Alloc(own, mm) == [v \in DOMAIN own |-> IF v \in MmPages(mm) THEN mm.id ELSE own[v]]

(* tee_mm_free(): the pages of the entry return to the pool. *)
Free(own, mm) == [v \in DOMAIN own |-> IF own[v] = mm.id /\ mm.id # 0 THEN 0 ELSE own[v]]

(* core_mmu_map_contiguous_pages() panics on a page already mapped. *)
MapPanics(mm) == MmPages(mm) \cap mapped # {}

(* core_mmu_unmap_pages(start, n): maybe_remove_from_mem_map() panics    *)
(* unless the page of its last byte, vstart + n * SMALL_PAGE_SIZE - 1, is *)
(* in the pool's region; for n = 0 that is the page before start, outside *)
(* the region when start is its first page.                               *)
UnmapPanics(start, n) == start + n - 1 \notin 1 .. PoolPages

Unmap(m, start, n) == m \ (start .. start + n - 1)

-----------------------------------------------------------------------------
(* Descriptor parsing.  A request carries tot (tot_len), frag (frag_len), *)
(* bufPages (page_count; 0 for the RX buffer), count and me (the          *)
(* endpoint memory access descriptors and the index of ours, -1 when      *)
(* absent), hdr (region_offs plus the composite descriptor: the offset of *)
(* the address ranges), pages (total_page_count) and regions             *)
(* (address_range_count).                                                 *)

(* get_acc_perms(): mem_acc already points at entry n and region_offs is *)
(* read from mem_acc[n], that is entry 2n.                               *)
AccEntryRead(n) == n + n

(* The offsets mem_share_init() may compute: every entry's region_offs   *)
(* is hdr, a read beyond the entries yields anything.                    *)
HdrsRead(req) ==
  IF AccEntryRead(req.me) < req.count THEN {req.hdr} ELSE OobHdrs

RECURSIVE PageSums(_)
PageSums(k) == IF k = 0 THEN {0} ELSE {a + b : a \in PageSums(k - 1), b \in RangePageCounts}

MinOf(a, b) == IF a < b THEN a ELSE b

(* Fault model of add_mem_share_helper(): the final page count check is *)
(* dropped.                                                               *)
PagesFilledUnchecked(s) == TRUE

(* current_page_idx == page_count once the last range is added. *)
PagesFilled(s) == s.pageIdx = s.pageCount

(* add_mem_share_helper(s, buf, flen): the address ranges of the fragment *)
(* are added with mobj_ffa_add_pages_at(), which fails once the pages    *)
(* exceed the mobj.  Results [rc, s].                                     *)
AddMemShareHelper(s, flen) ==
  LET k == MinOf(flen \div RangeUnits, s.regionsLeft)
  IN  {IF s.pageIdx + t > s.pageCount
       THEN [rc |-> FFA_INVALID_PARAMETERS, s |-> s]
       ELSE LET s2 == [s EXCEPT !.regionsLeft = @ - k, !.pageIdx = @ + t]
            IN  IF s2.regionsLeft > 0 THEN [rc |-> k * RangeUnits, s |-> s2]
                ELSE IF ~PagesFilled(s2) THEN [rc |-> FFA_INVALID_PARAMETERS, s |-> s2]
                ELSE [rc |-> 0, s |-> s2]
       : t \in PageSums(k)}

(* add_mem_share_frag(s, buf, flen): the fate of the state is "pending"  *)
(* (returned frag_offset), "inactive" (mobj_ffa_push_to_inactive) or     *)
(* "deleted" (mobj_ffa_sel1_spmc_delete); in the last two the state is   *)
(* removed from frag_state_head and freed.                                *)
AddMemShareFrag(s, flen) ==
  {IF h.rc >= 0 /\ h.s.regionsLeft > 0
     THEN LET off == s.offset + h.rc
          IN  [rc |-> off, s |-> [h.s EXCEPT !.offset = off], fate |-> "pending"]
   ELSE IF h.rc >= 0 THEN [rc |-> 0, s |-> h.s, fate |-> "inactive"]
   ELSE [rc |-> h.rc, s |-> h.s, fate |-> "deleted"]
   : h \in AddMemShareHelper(s, flen)}

(* spmc_read_mem_transaction(): the endpoint access descriptors fit in   *)
(* the fragment.                                                          *)
ReadMemTransactionOk(req) == req.count <= req.frag

(* Fault model of add_mem_share(): frag_offset is left at 0 by calloc(). *)
InitShareNoOffset(req, k, mm, hdr) ==
  [cookie |-> k, mm |-> mm, regionsLeft |-> req.regions, pageIdx |-> 0,
   pageCount |-> req.pages, offset |-> 0, hdr |-> hdr, regions |-> req.regions]

(* The mem_frag_state a share starts from, with the offset of its ranges. *)
InitShare(req, k, mm, hdr) ==
  [cookie |-> k, mm |-> mm, regionsLeft |-> req.regions, pageIdx |-> 0,
   pageCount |-> req.pages, offset |-> hdr, hdr |-> hdr, regions |-> req.regions]

(* add_mem_share() with mem_share_init(): the results [rc, s, fate] for  *)
(* cookie k; fate "none" when no mobj was created.                       *)
AddMemShare(req, k, mm) ==
  LET Fail == [rc |-> FFA_INVALID_PARAMETERS, s |-> InitShare(req, k, mm, 0), fate |-> "none"]
  IN
  IF ~ReadMemTransactionOk(req) \/ req.me < 0 THEN {Fail}
  ELSE UNION
    {IF hdr > req.frag \/ req.pages = 0 \/ req.regions = 0
        \/ req.regions * RangeUnits + hdr > req.tot
     THEN {Fail}
     ELSE IF req.frag # req.tot
     THEN AddMemShareFrag(InitShare(req, k, mm, hdr), req.frag - hdr)
     ELSE {IF h.rc = 0 THEN [rc |-> 0, s |-> h.s, fate |-> "inactive"]
           ELSE [rc |-> FFA_INVALID_PARAMETERS, s |-> h.s, fate |-> "deleted"]
           : h \in AddMemShareHelper(InitShare(req, k, mm, hdr), req.frag - hdr)}
     : hdr \in HdrsRead(req)}

(* A descriptor read outside what was checked. *)
ReadsOutside(req) == ReadMemTransactionOk(req) /\ req.me >= 0 /\ AccEntryRead(req.me) >= req.count

(* Fault model of add_mem_share_frag(): the state is not unlinked on the *)
(* error path.                                                            *)
UnlinkedNotOnError(o, old) == IF o.fate = "deleted" THEN {} ELSE old

(* SLIST_REMOVE() of the state the call started from, on every path that *)
(* does not return frag_offset (the pending state is replaced by o.s).   *)
Unlinked(o, old) == old

(* The effect of result o on the mobjs of cookie k and on the list, once *)
(* the state old (or none) has been taken off it.                        *)
Settle(o, k, old) ==
  /\ frags' = (frags \ Unlinked(o, old)) \cup (IF o.fate = "pending" THEN {o.s} ELSE {})
  /\ mobj' = IF o.fate = "none" THEN mobj ELSE [mobj EXCEPT ![k] = o.fate]
  /\ filled' = IF o.fate = "inactive"
               THEN [filled EXCEPT ![k] = [idx |-> o.s.pageIdx, count |-> o.s.pageCount]]
               ELSE filled

(* The handle handle_mem_share() and handle_mem_frag_tx() return. *)
Handle(rc, k) == IF rc >= 0 THEN k ELSE 0

(* Fault model of the keep test: a completed share (rc 0) keeps its      *)
(* buffer as if more fragments were expected.                             *)
KeepsBufferOnZero(rc) == rc >= 0

(* Fault model of handle_mem_share_tmem(): the buffer is kept only on    *)
(* success, as if rc > 0 were an error.                                   *)
KeepsBufferOnSuccess(rc) == rc = FFA_OK

(* The descriptor buffer stays mapped after the call: more fragments are *)
(* expected.                                                              *)
KeepsBuffer(rc) == rc > 0

(* A call that returns rc at once, changing nothing else. *)
Return(c, rc) ==
  /\ ret' = [ret EXCEPT ![c] = [rc |-> rc, handle |-> 0]]
  /\ UNCHANGED <<owner, mapped, rxtx, frags, mobj, filled, core, panicked, oob>>

StartCall(c) ==
  /\ ~panicked
  /\ core[c].pc = "idle"
  /\ calls < MaxCalls
  /\ calls' = calls + 1

-----------------------------------------------------------------------------
(* handle_mem_share() with the descriptor in a buffer of its own, up to  *)
(* taking the lock: tee_mm_alloc() and core_mmu_map_contiguous_pages().  *)
ShareTmemMap(c, req) ==
  LET len == req.bufPages * PageUnits
  IN
  /\ req.bufPages > 0
  /\ StartCall(c)
  /\ \/ /\ req.frag > req.tot \/ len < req.frag
        /\ Return(c, FFA_INVALID_PARAMETERS)
     \/ /\ req.frag <= req.tot /\ len >= req.frag
        /\ FreeStarts(owner, req.bufPages) = {}
        /\ Return(c, FFA_NO_MEMORY)
     \/ /\ req.frag <= req.tot /\ len >= req.frag
        /\ \E st \in FreeStarts(owner, req.bufPages) :
             LET mm == [id |-> calls + 1, start |-> st, npages |-> req.bufPages]
             IN  /\ owner' = Alloc(owner, mm)
                 /\ IF MapPanics(mm)
                      THEN panicked' = TRUE /\ UNCHANGED <<mapped, core>>
                      ELSE /\ mapped' = mapped \cup MmPages(mm)
                           /\ core' = [core EXCEPT ![c] = [pc |-> "tmem_lock", req |-> req, mm |-> mm, n |-> 0]]
                           /\ UNCHANGED panicked
        /\ UNCHANGED <<rxtx, frags, mobj, filled, ret, oob>>

(* handle_mem_share_tmem() under my_rxtx.spinlock: add_mem_share() on the *)
(* mapped buffer.  A pending share keeps the buffer; otherwise it is     *)
(* unmapped (page_count pages) and freed after the unlock.               *)
ShareTmemLocked(c) ==
  LET req == core[c].req
      mm  == core[c].mm
      k   == mm.id
  IN
  /\ ~panicked
  /\ core[c].pc = "tmem_lock"
  /\ \E o \in AddMemShare(req, k, mm) :
       /\ Settle(o, k, {})
       /\ ret' = [ret EXCEPT ![c] = [rc |-> o.rc, handle |-> Handle(o.rc, k)]]
       /\ core' = [core EXCEPT ![c] =
                     IF KeepsBuffer(o.rc) THEN Idle ELSE [@ EXCEPT !.pc = "unmap", !.n = req.bufPages]]
  /\ oob' = (oob \/ ReadsOutside(req))
  /\ UNCHANGED <<owner, mapped, rxtx, calls, panicked>>

(* handle_mem_share_rxbuf(): the descriptor is read from our RX buffer, *)
(* all under the lock.                                                   *)
ShareRxBuf(c, req) ==
  LET k == calls + 1
  IN
  /\ req.bufPages = 0
  /\ StartCall(c)
  /\ \/ /\ req.frag > req.tot
        /\ Return(c, FFA_INVALID_PARAMETERS)
     \/ /\ req.frag <= req.tot
        /\ rxtx.rx = NoMm \/ req.frag > rxtx.size * PageUnits
        /\ Return(c, FFA_DENIED)
     \/ /\ req.frag <= req.tot
        /\ rxtx.rx # NoMm /\ req.frag <= rxtx.size * PageUnits
        /\ \E o \in AddMemShare(req, k, NoMm) :
             /\ Settle(o, k, {})
             /\ ret' = [ret EXCEPT ![c] = [rc |-> o.rc, handle |-> Handle(o.rc, k)]]
        /\ oob' = (oob \/ ReadsOutside(req))
        /\ UNCHANGED <<owner, mapped, rxtx, core, panicked>>

(* handle_mem_frag_tx() for a share whose descriptor has its own buffer, *)
(* under the lock.  The length check against the buffer jumps to out    *)
(* with page_count still 0; page_count is otherwise the share's           *)
(* total_page_count.  When rc <= 0 the buffer is unmapped and freed after *)
(* the unlock.                                                             *)
FragTxTmem(c, h, flen) ==
  /\ StartCall(c)
  /\ \E s \in frags :
       /\ s.cookie = h /\ s.mm # NoMm
       /\ \/ /\ flen > s.mm.npages * PageUnits
             /\ ret' = [ret EXCEPT ![c] = [rc |-> FFA_INVALID_PARAMETERS, handle |-> 0]]
             /\ core' = [core EXCEPT ![c] = [Idle EXCEPT !.pc = "unmap", !.mm = s.mm, !.n = 0]]
             /\ UNCHANGED <<frags, mobj, filled>>
          \/ /\ flen <= s.mm.npages * PageUnits
             /\ \E o \in AddMemShareFrag(s, flen) :
                  /\ Settle(o, h, {s})
                  /\ ret' = [ret EXCEPT ![c] = [rc |-> o.rc, handle |-> Handle(o.rc, h)]]
                  /\ core' = [core EXCEPT ![c] =
                                IF KeepsBuffer(o.rc) THEN Idle
                                ELSE [Idle EXCEPT !.pc = "unmap", !.mm = s.mm, !.n = s.pageCount]]
  /\ UNCHANGED <<owner, mapped, rxtx, panicked, oob>>

(* handle_mem_frag_tx() for a share whose descriptor comes through our  *)
(* RX buffer.                                                             *)
FragTxRxBuf(c, h, flen) ==
  /\ StartCall(c)
  /\ \E s \in frags :
       /\ s.cookie = h /\ s.mm = NoMm
       /\ \/ /\ flen > rxtx.size * PageUnits
             /\ Return(c, FFA_INVALID_PARAMETERS)
          \/ /\ flen <= rxtx.size * PageUnits
             /\ \E o \in AddMemShareFrag(s, flen) :
                  /\ Settle(o, h, {s})
                  /\ ret' = [ret EXCEPT ![c] = [rc |-> o.rc, handle |-> Handle(o.rc, h)]]
             /\ UNCHANGED <<owner, mapped, rxtx, core, panicked, oob>>

(* handle_mem_frag_tx(): get_frag_state() finds no state for the handle. *)
FragTxUnknown(c, h) ==
  /\ StartCall(c)
  /\ \A s \in frags : s.cookie # h
  /\ Return(c, FFA_INVALID_PARAMETERS)

(* After the unlock: core_mmu_unmap_pages(smem, n) and tee_mm_free(). *)
UnmapFree(c) ==
  LET mm == core[c].mm
      n  == core[c].n
  IN
  /\ ~panicked
  /\ core[c].pc = "unmap"
  /\ IF UnmapPanics(mm.start, n)
       THEN panicked' = TRUE /\ UNCHANGED <<owner, mapped, core>>
       ELSE /\ mapped' = Unmap(mapped, mm.start, n)
            /\ owner' = Free(owner, mm)
            /\ core' = [core EXCEPT ![c] = Idle]
            /\ UNCHANGED panicked
  /\ UNCHANGED <<rxtx, frags, mobj, filled, ret, calls, oob>>

(* handle_mem_reclaim(): mobj_ffa_sel1_spmc_reclaim() releases an       *)
(* inactive mobj; any other cookie is not found.                          *)
Reclaim(c, h) ==
  /\ StartCall(c)
  /\ IF mobj[h] = "inactive"
       THEN /\ mobj' = [mobj EXCEPT ![h] = "reclaimed"]
            /\ ret' = [ret EXCEPT ![c] = [rc |-> FFA_OK, handle |-> 0]]
            /\ UNCHANGED <<owner, mapped, rxtx, frags, filled, core, panicked, oob>>
       ELSE Return(c, FFA_INVALID_PARAMETERS)

(* spmc_handle_rxtx_map() without CFG_NS_VIRTUALIZATION: map_buf() for  *)
(* TX and then RX, unmap_buf() of TX when RX fails.                       *)
RxTxMap(c, sz) ==
  /\ StartCall(c)
  /\ \/ /\ rxtx.size # 0
        /\ Return(c, FFA_DENIED)
     \/ /\ rxtx.size = 0
        /\ FreeStarts(owner, sz) = {}
        /\ Return(c, FFA_NO_MEMORY)
     \/ /\ rxtx.size = 0
        /\ \E st1 \in FreeStarts(owner, sz) :
             LET tx   == [id |-> TxId, start |-> st1, npages |-> sz]
                 own1 == Alloc(owner, tx)
             IN
             IF MapPanics(tx) THEN panicked' = TRUE /\ owner' = own1 /\ UNCHANGED <<mapped, rxtx, ret>>
             ELSE IF FreeStarts(own1, sz) = {}
               THEN /\ owner' = Free(own1, tx)
                    /\ ret' = [ret EXCEPT ![c] = [rc |-> FFA_NO_MEMORY, handle |-> 0]]
                    /\ UNCHANGED <<mapped, rxtx, panicked>>
             ELSE \E st2 \in FreeStarts(own1, sz) :
               LET rx == [id |-> RxId, start |-> st2, npages |-> sz]
               IN  /\ owner' = Alloc(own1, rx)
                   /\ IF MapPanics(rx) \/ MmPages(rx) \cap MmPages(tx) # {}
                        THEN panicked' = TRUE /\ UNCHANGED <<mapped, rxtx, ret>>
                        ELSE /\ mapped' = mapped \cup MmPages(tx) \cup MmPages(rx)
                             /\ rxtx' = [rxtx EXCEPT !.size = sz, !.rx = rx, !.tx = tx, !.txMine = TRUE]
                             /\ ret' = [ret EXCEPT ![c] = [rc |-> FFA_OK, handle |-> 0]]
                             /\ UNCHANGED panicked
        /\ UNCHANGED <<frags, mobj, filled, core, oob>>

(* spmc_handle_rxtx_unmap(): unmap_buf() of RX and of TX. *)
RxTxUnmap(c) ==
  /\ StartCall(c)
  /\ IF rxtx.size = 0
       THEN Return(c, FFA_INVALID_PARAMETERS)
       ELSE /\ mapped' = Unmap(Unmap(mapped, rxtx.rx.start, rxtx.size), rxtx.tx.start, rxtx.size)
            /\ owner' = Free(Free(owner, rxtx.rx), rxtx.tx)
            /\ rxtx' = [rxtx EXCEPT !.size = 0, !.rx = NoMm, !.tx = NoMm]
            /\ ret' = [ret EXCEPT ![c] = [rc |-> FFA_OK, handle |-> 0]]
            /\ UNCHANGED <<frags, mobj, filled, core, panicked, oob>>

(* spmc_handle_rx_release(): the caller's RX, our TX, comes back to us. *)
RxRelease(c) ==
  /\ StartCall(c)
  /\ IF rxtx.size = 0 \/ rxtx.txMine
       THEN Return(c, FFA_DENIED)
       ELSE /\ rxtx' = [rxtx EXCEPT !.txMine = TRUE]
            /\ ret' = [ret EXCEPT ![c] = [rc |-> FFA_OK, handle |-> 0]]
            /\ UNCHANGED <<owner, mapped, frags, mobj, filled, core, panicked, oob>>

(* spmc_exchange_version() for FFA_MSG_VERSION_REQ: a caller of our     *)
(* major version gets its minor version, or ours if it asks for more; we *)
(* always answer with our own version.                                    *)
ExchangeVersion(c, v) ==
  /\ StartCall(c)
  /\ rxtx' = IF MajorVersion(v) = MajorVersion(FFA_VERSION_1_2)
             THEN [rxtx EXCEPT !.vers = IF MinorVersion(v) > MinorVersion(FFA_VERSION_1_2)
                                        THEN FFA_VERSION_1_2 ELSE v]
             ELSE rxtx
  /\ ret' = [ret EXCEPT ![c] = [rc |-> FFA_VERSION_1_2, handle |-> 0]]
  /\ UNCHANGED <<owner, mapped, frags, mobj, filled, core, panicked, oob>>

(* Bytes of one partition info entry at the negotiated version. *)
FpiSize(vers) == PartInfoBytes + (IF vers >= FFA_VERSION_1_1 THEN UuidBytes ELSE 0)

(* spmc_fill_partition_entry(): entry idx fits in the buffer of pages. *)
FillPartitionEntry(vers, pages, idx) == (idx + 1) * FpiSize(vers) <= pages * SmallPageBytes

(* lsp_partition_info_get(): the LSPs with a UUID, matching uuid unless  *)
(* it is nil, are counted and, unless count_only, written to the buffer; *)
(* after a failed entry the rest are only counted.                       *)
LspPartitionInfoGet(vers, pages, uuid, countOnly) ==
  LET listed == SelectSeq(Lsps, LAMBDA u : u # NilUuid /\ (uuid = NilUuid \/ u = uuid))
  IN  [ok    |-> countOnly \/ \A i \in 1 .. Len(listed) : FillPartitionEntry(vers, pages, i - 1),
       count |-> Len(listed)]

(* spmc_handle_partition_info_get(): with the count-only flag the        *)
(* LSPs are counted without the lock or the TX buffer; otherwise TX must *)
(* be ours, the entries are written to it, and it passes to the caller  *)
(* at out, whatever the outcome.                                          *)
PartitionInfoGet(c, uuid, countOnly) ==
  LET busy == ~countOnly /\ (rxtx.size = 0 \/ ~rxtx.txMine)
      r    == LspPartitionInfoGet(rxtx.vers, rxtx.size, uuid, countOnly)
  IN
  /\ StartCall(c)
  /\ rxtx' = IF countOnly THEN rxtx ELSE [rxtx EXCEPT !.txMine = FALSE]
  /\ ret' = [ret EXCEPT ![c] = [rc |-> IF busy THEN FFA_BUSY
                                       ELSE IF ~r.ok THEN FFA_INVALID_PARAMETERS
                                       ELSE r.count,
                                handle |-> 0]]
  /\ UNCHANGED <<owner, mapped, frags, mobj, filled, core, panicked, oob>>

-----------------------------------------------------------------------------
Init ==
  /\ owner = [v \in 1 .. PoolPages |-> 0]
  /\ mapped = {}
  /\ rxtx = [size |-> 0, rx |-> NoMm, tx |-> NoMm, txMine |-> FALSE, vers |-> FFA_VERSION_1_0]
  /\ frags = {}
  /\ mobj = [h \in 1 .. MaxCalls |-> "none"]
  /\ filled = [h \in 1 .. MaxCalls |-> [idx |-> 0, count |-> 0]]
  /\ core = [c \in Cores |-> Idle]
  /\ ret = [c \in Cores |-> [rc |-> 0, handle |-> 0]]
  /\ calls = 0
  /\ panicked = FALSE
  /\ oob = FALSE

Next ==
  \E c \in Cores :
    \/ \E req \in ShareReqs : ShareTmemMap(c, req) \/ ShareRxBuf(c, req)
    \/ ShareTmemLocked(c)
    \/ \E h \in 1 .. MaxCalls, flen \in FragLens : FragTxTmem(c, h, flen) \/ FragTxRxBuf(c, h, flen)
    \/ \E h \in 1 .. MaxCalls : FragTxUnknown(c, h) \/ Reclaim(c, h)
    \/ UnmapFree(c)
    \/ \E sz \in RxTxPages : RxTxMap(c, sz)
    \/ RxTxUnmap(c)
    \/ RxRelease(c)
    \/ \E uuid \in UuidArgs, countOnly \in BOOLEAN : PartitionInfoGet(c, uuid, countOnly)
    \/ \E v \in Versions : ExchangeVersion(c, v)

Spec == Init /\ [][Next]_vars

-----------------------------------------------------------------------------
TypeOK ==
  /\ owner \in [1 .. PoolPages -> {0} \cup Ids]
  /\ mapped \subseteq 1 .. PoolPages
  /\ rxtx.size \in {0} \cup RxTxPages /\ rxtx.txMine \in BOOLEAN
  /\ rxtx.vers \in {FFA_VERSION_1_0, FFA_VERSION_1_2} \cup Versions
  /\ mobj \in [1 .. MaxCalls -> {"none", "pending", "inactive", "deleted", "reclaimed"}]
  /\ \A c \in Cores : core[c].pc \in {"idle", "tmem_lock", "unmap"}
  /\ calls \in 0 .. MaxCalls
  /\ panicked \in BOOLEAN /\ oob \in BOOLEAN

FragBufferLive ==
  \A s \in frags : s.mm # NoMm => \A v \in MmPages(s.mm) : owner[v] = s.mm.id

(* frag_state_head holds exactly one state per cookie whose mobj is still *)
(* being filled: no state outlives its mobj's push to inactive or its    *)
(* deletion, and no pending mobj loses its state.                         *)
ShareAccounting ==
  /\ {s.cookie : s \in frags} = {h \in 1 .. MaxCalls : mobj[h] = "pending"}
  /\ \A s, t \in frags : s.cookie = t.cookie => s = t

(* A mobj pushed to the inactive list (and so reclaimable or retrievable) *)
(* has every one of its pages filled by the address ranges: add_mem_share *)
(* and add_mem_share_frag only complete a share whose page_idx reached   *)
(* page_count.                                                            *)
CompleteShareOnly ==
  \A h \in 1 .. MaxCalls :
    mobj[h] \in {"inactive", "reclaimed"} => filled[h].idx = filled[h].count

(* The frag_offset returned to the normal world, and where the next      *)
(* fragment is read, is always just past the address ranges consumed so  *)
(* far, however the fragments cut the range array.                        *)
FragOffsetTracksRanges ==
  \A s \in frags : s.offset = s.hdr + (s.regions - s.regionsLeft) * RangeUnits

(* No pool memory leaks: every page of core_virt_shm_pool owned by a     *)
(* descriptor buffer belongs to a share still waiting on frag_state_head *)
(* or to a handler that will unmap and free it, and the RX/TX pages to   *)
(* the registered buffers.  A completed, refused or deleted share gives  *)
(* its buffer back, whichever of handle_mem_share_tmem() and             *)
(* handle_mem_frag_tx() ends it.                                          *)
PoolNoLeak ==
  ~panicked =>
    \A v \in 1 .. PoolPages :
      /\ owner[v] \in {RxId, TxId} => rxtx.size # 0
      /\ owner[v] \notin {0, RxId, TxId} =>
           \/ \E s \in frags : s.mm.id = owner[v]
           \/ \E c \in Cores : core[c].pc # "idle" /\ core[c].mm.id = owner[v]

(* get_acc_perms() reads only endpoint access descriptors that            *)
(* spmc_read_mem_transaction() checked to lie within the fragment.        *)
AccessReadInBounds == ~oob

=============================================================================
