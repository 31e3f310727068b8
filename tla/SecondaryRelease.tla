-------------------------- MODULE SecondaryRelease --------------------------
(***************************************************************************)
(* Release of secondary cores through the spin table of boot.c             *)
(* (CFG_BOOT_SECONDARY_REQUEST, not CFG_PSCI_ARM32).  A secondary core     *)
(* waits in boot_core_hpen(): wfe, then a read of spin_table[core], until  *)
(* it reads 1; after a dmb it takes ns_entry_contexts[core] as the entry   *)
(* it boots the normal world at.  boot_core_release(), called on the       *)
(* primary core for the normal world, stores the entry, dmb, sets the      *)
(* spin-table word, dsb and sev; boot_set_core_ns_entry() stores an entry  *)
(* and dsb.                                                                *)
(*                                                                         *)
(* The stores of the releasing core pass through a store buffer and reach  *)
(* memory in any order, except that two stores to one location keep their *)
(* order; dmb lets no later store pass an earlier one and dsb waits until  *)
(* all have reached memory.  A core in wfe sleeps until its event register *)
(* is set by sev, and clears it when it wakes.                             *)
(***************************************************************************)
EXTENDS Integers, Sequences

CONSTANTS
  NbCore,     \* CFG_TEE_CORE_NB_CORE
  Entries,    \* entry addresses the normal world passes (not 0)
  MaxCalls    \* bound on the calls of the normal world

VARIABLES
  entryMem,   \* ns_entry_contexts[].entry_point as memory holds it
  spinMem,    \* spin_table[] as memory holds it
  wbuf,       \* the releasing core's store buffer: sequence of stores
  wpc,        \* position of the releasing core in its call
  rpc,        \* core -> position of a secondary core in boot_core_hpen()
  event,      \* core -> the event register wfe waits on
  got,        \* core -> the entry boot_core_hpen() returned
  released,   \* history: core -> entries the normal world passed for it
  calls       \* calls made

vars == <<entryMem, spinMem, wbuf, wpc, rpc, event, got, released, calls>>

Cores == 0 .. NbCore - 1
Secondaries == 1 .. NbCore - 1

(* A store of val to entry_point or to spin_table of core c. *)
Store(loc, c, val) == [loc |-> loc, core |-> c, val |-> val]

(* The pending stores that may reach memory next: coherence keeps two     *)
(* stores to one location in program order.                               *)
Drainable(buf) ==
  {i \in DOMAIN buf : \A j \in 1 .. i - 1 :
     buf[j].loc # buf[i].loc \/ buf[j].core # buf[i].core}

-----------------------------------------------------------------------------
(* Fault model: dmb() left out; the store of the spin-table word may      *)
(* reach memory before the entry.                                         *)
DmbOmitted(buf) == TRUE

(* dmb(): the stores before it reach memory before any store after it.   *)
DmbDone(buf) == buf = <<>>

(* Fault model: dsb() left out before sev(); the event is sent while the *)
(* spin-table word may still be in the store buffer.                      *)
DsbOmitted(buf) == TRUE

(* dsb(): every earlier store has reached memory. *)
DsbDone(buf) == buf = <<>>

(* Fault model: the range check of boot_core_release() off by one. *)
RefusedOffByOne(idx) == idx = 0 \/ idx > NbCore

(* if (!core_idx || core_idx >= CFG_TEE_CORE_NB_CORE) return -1; *)
Refused(idx) == idx = 0 \/ idx >= NbCore

(* boot_core_release(core_idx, entry), up to the dmb(): core 0 and cores *)
(* past CFG_TEE_CORE_NB_CORE are refused with -1 at once.                *)
ReleaseCall(idx, e) ==
  /\ wpc.pc = "idle"
  /\ calls < MaxCalls
  /\ calls' = calls + 1
  /\ IF Refused(idx)
       THEN UNCHANGED <<wbuf, wpc, released>>
       ELSE /\ wbuf' = Append(wbuf, Store("entry", idx, e))
            /\ wpc' = [pc |-> "release_dmb", core |-> idx]
            /\ released' = [released EXCEPT ![idx] = @ \cup {e}]
  /\ UNCHANGED <<entryMem, spinMem, rpc, event, got>>

(* dmb(); spin_table[core_idx] = 1 *)
ReleaseFlag ==
  /\ wpc.pc = "release_dmb"
  /\ DmbDone(wbuf)
  /\ wbuf' = Append(wbuf, Store("spin", wpc.core, 1))
  /\ wpc' = [wpc EXCEPT !.pc = "release_dsb"]
  /\ UNCHANGED <<entryMem, spinMem, rpc, event, got, released, calls>>

(* dsb(); sev(): every core's event register is set. *)
ReleaseSev ==
  /\ wpc.pc = "release_dsb"
  /\ DsbDone(wbuf)
  /\ event' = [c \in Cores |-> TRUE]
  /\ wpc' = [pc |-> "idle", core |-> 0]
  /\ UNCHANGED <<entryMem, spinMem, wbuf, rpc, got, released, calls>>

(* boot_set_core_ns_entry(core_idx, entry, context_id), up to dsb_ishst(). *)
SetNsEntry(idx, e) ==
  /\ wpc.pc = "idle"
  /\ calls < MaxCalls
  /\ calls' = calls + 1
  /\ wbuf' = Append(wbuf, Store("entry", idx, e))
  /\ wpc' = [pc |-> "set_dsb", core |-> idx]
  /\ released' = [released EXCEPT ![idx] = @ \cup {e}]
  /\ UNCHANGED <<entryMem, spinMem, rpc, event, got>>

(* dsb_ishst() at the end of boot_set_core_ns_entry(). *)
SetNsEntryDsb ==
  /\ wpc.pc = "set_dsb"
  /\ DsbDone(wbuf)
  /\ wpc' = [pc |-> "idle", core |-> 0]
  /\ UNCHANGED <<entryMem, spinMem, wbuf, rpc, event, got, released, calls>>

(* A pending store reaches memory. *)
Drain ==
  \E i \in Drainable(wbuf) :
    LET s == wbuf[i]
    IN  /\ IF s.loc = "entry"
             THEN entryMem' = [entryMem EXCEPT ![s.core] = s.val] /\ UNCHANGED spinMem
             ELSE spinMem' = [spinMem EXCEPT ![s.core] = s.val] /\ UNCHANGED entryMem
        /\ wbuf' = [j \in 1 .. Len(wbuf) - 1 |-> IF j < i THEN wbuf[j] ELSE wbuf[j + 1]]
        /\ UNCHANGED <<wpc, rpc, event, got, released, calls>>

-----------------------------------------------------------------------------
(* wfe() in the loop of boot_core_hpen(): the core sleeps until its event *)
(* register is set.                                                       *)
Wfe(c) ==
  /\ rpc[c] = "wfe"
  /\ event[c]
  /\ event' = [event EXCEPT ![c] = FALSE]
  /\ rpc' = [rpc EXCEPT ![c] = "check"]
  /\ UNCHANGED <<entryMem, spinMem, wbuf, wpc, got, released, calls>>

(* while (!spin_table[get_core_pos()]) *)
CheckSpin(c) ==
  /\ rpc[c] = "check"
  /\ rpc' = [rpc EXCEPT ![c] = IF spinMem[c] = 1 THEN "read" ELSE "wfe"]
  /\ UNCHANGED <<entryMem, spinMem, wbuf, wpc, event, got, released, calls>>

(* dmb(); return &ns_entry_contexts[get_core_pos()]: the core boots at   *)
(* the entry it reads.                                                    *)
ReadEntry(c) ==
  /\ rpc[c] = "read"
  /\ got' = [got EXCEPT ![c] = entryMem[c]]
  /\ rpc' = [rpc EXCEPT ![c] = "entered"]
  /\ UNCHANGED <<entryMem, spinMem, wbuf, wpc, event, released, calls>>

Init ==
  /\ entryMem = [c \in Cores |-> 0]
  /\ spinMem = [c \in Cores |-> 0]
  /\ wbuf = <<>>
  /\ wpc = [pc |-> "idle", core |-> 0]
  /\ rpc = [c \in Secondaries |-> "wfe"]
  /\ event \in [Cores -> BOOLEAN]
  /\ got = [c \in Secondaries |-> 0]
  /\ released = [c \in Cores |-> {}]
  /\ calls = 0

Next ==
  \/ \E idx \in 0 .. NbCore, e \in Entries : ReleaseCall(idx, e)
  \/ ReleaseFlag
  \/ ReleaseSev
  \/ \E idx \in Cores, e \in Entries : SetNsEntry(idx, e)
  \/ SetNsEntryDsb
  \/ Drain
  \/ \E c \in Secondaries : Wfe(c) \/ CheckSpin(c) \/ ReadEntry(c)

(* Store buffers drain, a call in progress on the primary core runs to   *)
(* its end, and a secondary core that is awake keeps executing.  A core  *)
(* asleep in wfe has no enabled step, so fairness does not wake it.      *)
Fairness ==
  /\ WF_vars(Drain)
  /\ WF_vars(ReleaseFlag) /\ WF_vars(ReleaseSev) /\ WF_vars(SetNsEntryDsb)
  /\ \A c \in Secondaries : WF_vars(Wfe(c)) /\ WF_vars(CheckSpin(c)) /\ WF_vars(ReadEntry(c))

Spec == Init /\ [][Next]_vars /\ Fairness

-----------------------------------------------------------------------------
(* Every variable has its type; in particular every store of            *)
(* boot_core_release() and boot_set_core_ns_entry() goes to an entry of  *)
(* ns_entry_contexts[] or spin_table[], never past CFG_TEE_CORE_NB_CORE. *)
TypeOK ==
  /\ entryMem \in [Cores -> {0} \cup Entries]
  /\ spinMem \in [Cores -> {0, 1}]
  /\ wbuf \in Seq([loc : {"entry", "spin"}, core : Cores, val : {1} \cup Entries])
  /\ rpc \in [Secondaries -> {"wfe", "check", "read", "entered"}]
  /\ got \in [Secondaries -> {0} \cup Entries]
  /\ calls \in 0 .. MaxCalls

(* A released secondary core boots the normal world at an entry the     *)
(* normal world gave for that core, never at the stale 0 of              *)
(* ns_entry_contexts[]: the dmb of boot_core_release() keeps the entry   *)
(* ahead of the spin-table word.                                          *)
EntryIsReleased ==
  \A c \in Secondaries : rpc[c] = "entered" => got[c] \in released[c]

(* Every secondary core that boot_core_release() let go leaves           *)
(* boot_core_hpen(): the dsb before sev() makes the spin-table word      *)
(* visible before the wake-up, so the core does not read 0 and go back   *)
(* to sleep for good.                                                    *)
ReleasedCoreBoots ==
  \A c \in Secondaries : (spinMem[c] = 1 \/ Store("spin", c, 1) \in {wbuf[i] : i \in DOMAIN wbuf})
                           ~> rpc[c] = "entered"

=============================================================================
