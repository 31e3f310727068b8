----------------------------- MODULE ThreadArch -----------------------------
(***************************************************************************)
(* The thread contexts of the RISC-V core (thread_arch.c): the harts take  *)
(* threads[] entries for yielding calls of the normal world and resume     *)
(* suspended ones, under thread_lock_global().                             *)
(*                                                                         *)
(*   thread_alloc_and_run()   a new yielding call: the first FREE entry     *)
(*                            becomes ACTIVE and runs on the hart;          *)
(*   thread_resume_from_rpc() the normal world returns from an RPC or a     *)
(*                            foreign interrupt with a thread id of its    *)
(*                            choice; a SUSPENDED entry becomes ACTIVE;     *)
(*   thread_state_suspend()   the running thread stops for an RPC or a      *)
(*                            foreign interrupt and saves its user map;    *)
(*   thread_state_free()      the yielding call is over.                   *)
(*                                                                         *)
(* The lock is released between the choice of an entry and                 *)
(* l->curr_thread = n, so both functions are two steps.  The assembly and  *)
(* the TA code around them (thread_rpc, the trap vector, the user-mode     *)
(* entry and the session pop that clears the user map) are not in the      *)
(* repository and are the actions of the thread's environment.  A thread's *)
(* registers are abstracted to a0 (the arguments), tp and the mode in the  *)
(* saved status.                                                            *)
(***************************************************************************)
EXTENDS Integers, FiniteSetsExt

CONSTANTS
  Harts,       \* the harts (CFG_TEE_CORE_NB_CORE), model values
  NumThreads,  \* CFG_NUM_THREADS
  Args,        \* a0 values the normal world passes (not 0)
  UserTp,      \* the tp of user mode, not a hart's thread_core_local
  MaxCalls     \* bound on the calls of the normal world

ASSUME NumThreads \in Nat \ {0} /\ 0 \notin Args /\ UserTp \notin Harts

VARIABLES
  state,    \* threads[n].state
  flags,    \* threads[n].flags: COPY_ARGS_ON_RETURN, EXIT_ON_FOREIGN_INTR
  a0,       \* threads[n].regs.a0 .. a3
  tp,       \* threads[n].regs.tp
  user,     \* is_user_mode(&threads[n].regs)
  haveMap,  \* threads[n].have_user_map
  userMap,  \* threads[n].user_map: whose user context it holds
  curr,     \* hart -> l->curr_thread
  umap,     \* hart -> the user mapping active on the hart
  hpc,      \* hart -> "nw", "alloc", "resume" (lock released) or "run"
  claim,    \* hart -> the entry n taken under the lock
  hargs,    \* hart -> the a0 of the call in progress
  calls,    \* calls of the normal world made
  why,      \* history: thread -> reason of its last start, user entry or suspension
  saved,    \* history: thread -> a0 when a foreign interrupt suspended it
  passed,   \* history: thread -> a0 last written into its regs by a call
  session   \* history: thread -> its TA context is set and not yet popped

vars == <<state, flags, a0, tp, user, haveMap, userMap, curr, umap, hpc, claim,
          hargs, calls, why, saved, passed, session>>

Threads == 0 .. NumThreads - 1
Invalid == -1    \* THREAD_ID_INVALID
NoMap == -1      \* core_mmu_set_user_map(NULL)

CopyArgs == "copy_args_on_return"      \* THREAD_FLAGS_COPY_ARGS_ON_RETURN
ForeignIntr == "exit_on_foreign_intr"  \* THREAD_FLAGS_EXIT_ON_FOREIGN_INTR

-----------------------------------------------------------------------------
(* Fault model: the loop of __thread_alloc_and_run() without its break:  *)
(* every FREE entry becomes ACTIVE and n ends at CFG_NUM_THREADS.         *)
AllocScanNoBreak(st) ==
  LET free == {t \in Threads : st[t] = "free"}
  IN  [st |-> [t \in Threads |-> IF t \in free THEN "active" ELSE st[t]],
       n |-> NumThreads, found |-> free # {}]

(* The loop of __thread_alloc_and_run(): the first FREE entry becomes    *)
(* ACTIVE; n and found_thread as the loop leaves them.                    *)
AllocScan(st) ==
  LET free == {t \in Threads : st[t] = "free"}
  IN  IF free = {} THEN [st |-> st, n |-> NumThreads, found |-> FALSE]
      ELSE [st |-> [st EXCEPT ![Min(free)] = "active"], n |-> Min(free), found |-> TRUE]

(* Fault model: the state test of thread_resume_from_rpc() left out. *)
ResumableUnchecked(st, n) == n < NumThreads

(* n < CFG_NUM_THREADS && threads[n].state == THREAD_STATE_SUSPENDED *)
Resumable(st, n) == n < NumThreads /\ st[n] = "suspended"

(* Fault model: COPY_ARGS_ON_RETURN kept after the copy. *)
AfterCopyKeep(f) == f

(* threads[n].flags &= ~THREAD_FLAGS_COPY_ARGS_ON_RETURN *)
AfterCopy(f) == f \ {CopyArgs}

(* Fault model: tp left as the suspending hart set it. *)
ResumeTpKeep(t, h) == tp[t]

(* if (!is_user_mode(&threads[n].regs)) threads[n].regs.tp = read_tp() *)
ResumeTp(t, h) == IF user[t] THEN tp[t] ELSE h

(* Fault model: thread_state_suspend() without core_mmu_set_user_map(NULL). *)
SuspendMapKeep(m) == m

(* core_mmu_set_user_map(NULL) when have_user_map *)
SuspendMap(m) == NoMap

-----------------------------------------------------------------------------
(* A hart in the normal world issues a call. *)
NwCall(h) ==
  /\ hpc[h] = "nw"
  /\ calls < MaxCalls
  /\ calls' = calls + 1

(* thread_alloc_and_run(a0, ...), up to thread_unlock_global(): with no  *)
(* FREE entry it returns to the caller.                                   *)
AllocAndRun(h, x) ==
  LET r == AllocScan(state)
  IN  /\ NwCall(h)
      /\ state' = r.st
      /\ IF r.found
           THEN hpc' = [hpc EXCEPT ![h] = "alloc"] /\ claim' = [claim EXCEPT ![h] = r.n]
           ELSE UNCHANGED <<hpc, claim>>
      /\ hargs' = [hargs EXCEPT ![h] = x]
      /\ UNCHANGED <<flags, a0, tp, user, haveMap, userMap, curr, umap, why, saved, passed, session>>

(* init_regs(): a0 .. a7 from the call, tp of this hart (read_tp()),    *)
(* xstatus with SPP = S.                                                  *)
InitRegs(n, x, h) ==
  /\ a0' = [a0 EXCEPT ![n] = x]
  /\ tp' = [tp EXCEPT ![n] = h]
  /\ user' = [user EXCEPT ![n] = FALSE]

(* l->curr_thread = n; flags = 0; init_regs(); thread_resume(). *)
AllocRun(h) ==
  LET n == claim[h]
  IN  /\ hpc[h] = "alloc"
      /\ curr' = [curr EXCEPT ![h] = n]
      /\ flags' = [flags EXCEPT ![n] = {}]
      /\ InitRegs(n, hargs[h], h)
      /\ hpc' = [hpc EXCEPT ![h] = "run"]
      /\ why' = [why EXCEPT ![n] = "new"]
      /\ passed' = [passed EXCEPT ![n] = hargs[h]]
      /\ UNCHANGED <<state, haveMap, userMap, umap, claim, hargs, calls, saved, session>>

(* thread_resume_from_rpc(thread_id, a0, ...), up to the unlock: the     *)
(* normal world may pass any id; an id that is out of range or not       *)
(* SUSPENDED makes it return.                                             *)
ResumeFromRpc(h, id, x) ==
  /\ NwCall(h)
  /\ IF Resumable(state, id)
       THEN /\ state' = [state EXCEPT ![id] = "active"]
            /\ hpc' = [hpc EXCEPT ![h] = "resume"]
            /\ claim' = [claim EXCEPT ![h] = id]
            /\ passed' = [passed EXCEPT ![id] = x]
       ELSE UNCHANGED <<state, hpc, claim, passed>>
  /\ hargs' = [hargs EXCEPT ![h] = x]
  /\ UNCHANGED <<flags, a0, tp, user, haveMap, userMap, curr, umap, why, saved, session>>

(* l->curr_thread = n; the saved user map is restored, tp re-pointed at  *)
(* this hart, the arguments copied only after an RPC; thread_resume().   *)
ResumeRun(h) ==
  LET n == claim[h]
  IN  /\ hpc[h] = "resume"
      /\ curr' = [curr EXCEPT ![h] = n]
      /\ umap' = IF haveMap[n] THEN [umap EXCEPT ![h] = userMap[n]] ELSE umap
      /\ tp' = [tp EXCEPT ![n] = ResumeTp(n, h)]
      /\ IF CopyArgs \in flags[n]
           THEN /\ a0' = [a0 EXCEPT ![n] = hargs[h]]
                /\ flags' = [flags EXCEPT ![n] = AfterCopy(@)]
           ELSE UNCHANGED <<a0, flags>>
      /\ hpc' = [hpc EXCEPT ![h] = "run"]
      /\ UNCHANGED <<state, user, haveMap, userMap, claim, hargs, calls, why, saved, passed, session>>

(* thread_state_suspend(f, status, pc) on hart h, returning to the       *)
(* normal world: under the lock the flags are or-ed in, the state saved, *)
(* and an active user map saved and cleared.                             *)
StateSuspend(h, f) ==
  LET t == curr[h]
      active == umap[h] # NoMap
  IN  /\ flags' = [flags EXCEPT ![t] = @ \cup {f}]
      /\ state' = [state EXCEPT ![t] = "suspended"]
      /\ haveMap' = [haveMap EXCEPT ![t] = active]
      /\ userMap' = IF active THEN [userMap EXCEPT ![t] = umap[h]] ELSE userMap
      /\ umap' = IF active THEN [umap EXCEPT ![h] = SuspendMap(umap[h])] ELSE umap
      /\ curr' = [curr EXCEPT ![h] = Invalid]
      /\ hpc' = [hpc EXCEPT ![h] = "nw"]

(* thread_rpc(): from kernel mode, suspend with COPY_ARGS_ON_RETURN. *)
Rpc(h) ==
  /\ hpc[h] = "run"
  /\ ~user[curr[h]]
  /\ StateSuspend(h, CopyArgs)
  /\ why' = [why EXCEPT ![curr[h]] = "rpc"]
  /\ UNCHANGED <<a0, tp, user, claim, hargs, calls, saved, passed, session>>

(* A foreign interrupt, in kernel or user mode: suspend with             *)
(* EXIT_ON_FOREIGN_INTR; the interrupted a0 must come back unchanged.    *)
ForeignInterrupt(h) ==
  /\ hpc[h] = "run"
  /\ StateSuspend(h, ForeignIntr)
  /\ why' = [why EXCEPT ![curr[h]] = "foreign"]
  /\ saved' = [saved EXCEPT ![curr[h]] = a0[curr[h]]]
  /\ UNCHANGED <<a0, tp, user, claim, hargs, calls, passed, session>>

(* thread_state_free(): the session was popped, so no user map is active. *)
StateFree(h) ==
  LET t == curr[h]
  IN  /\ hpc[h] = "run"
      /\ ~user[t]
      /\ umap[h] = NoMap
      /\ state' = [state EXCEPT ![t] = "free"]
      /\ flags' = [flags EXCEPT ![t] = {}]
      /\ curr' = [curr EXCEPT ![h] = Invalid]
      /\ hpc' = [hpc EXCEPT ![h] = "nw"]
      /\ UNCHANGED <<a0, tp, user, haveMap, userMap, umap, claim, hargs, calls, why, saved, passed, session>>

(* thread_enter_user_mode(a0, ...): set_ctx_regs() writes the call's   *)
(* a0 .. a3 and a user-mode status into threads[curr].regs.  The TA's     *)
(* context is active on the hart (vm_set_ctx()) and __thread_enter_user_ *)
(* mode() loads the user tp; both are outside this tree.                  *)
EnterUser(h, x) ==
  LET t == curr[h]
  IN  /\ hpc[h] = "run"
      /\ ~user[t]
      /\ a0' = [a0 EXCEPT ![t] = x]
      /\ user' = [user EXCEPT ![t] = TRUE]
      /\ umap' = [umap EXCEPT ![h] = t]
      /\ tp' = [tp EXCEPT ![t] = UserTp]
      /\ why' = [why EXCEPT ![t] = "user"]
      /\ passed' = [passed EXCEPT ![t] = x]
      /\ session' = [session EXCEPT ![t] = TRUE]
      /\ UNCHANGED <<state, flags, haveMap, userMap, curr, hpc, claim, hargs, calls, saved>>

(* A trap from user mode: the trap vector loads the kernel tp of this   *)
(* hart from xSCRATCH; the map stays.                                     *)
Trap(h) ==
  LET t == curr[h]
  IN  /\ hpc[h] = "run"
      /\ user[t]
      /\ user' = [user EXCEPT ![t] = FALSE]
      /\ tp' = [tp EXCEPT ![t] = h]
      /\ UNCHANGED <<state, flags, a0, haveMap, userMap, curr, umap, hpc, claim, hargs, calls, why, saved, passed, session>>

(* The session is popped: the user map is cleared. *)
PopSession(h) ==
  /\ hpc[h] = "run"
  /\ ~user[curr[h]]
  /\ umap[h] # NoMap
  /\ umap' = [umap EXCEPT ![h] = NoMap]
  /\ session' = [session EXCEPT ![curr[h]] = FALSE]
  /\ UNCHANGED <<state, flags, a0, tp, user, haveMap, userMap, curr, hpc, claim, hargs, calls, why, saved, passed>>

Init ==
  /\ state = [t \in Threads |-> "free"]
  /\ flags = [t \in Threads |-> {}]
  /\ a0 = [t \in Threads |-> 0]
  /\ tp = [t \in Threads |-> UserTp]
  /\ user = [t \in Threads |-> FALSE]
  /\ haveMap = [t \in Threads |-> FALSE]
  /\ userMap = [t \in Threads |-> NoMap]
  /\ curr = [h \in Harts |-> Invalid]
  /\ umap = [h \in Harts |-> NoMap]
  /\ hpc = [h \in Harts |-> "nw"]
  /\ claim = [h \in Harts |-> Invalid]
  /\ hargs = [h \in Harts |-> 0]
  /\ calls = 0
  /\ why = [t \in Threads |-> "none"]
  /\ saved = [t \in Threads |-> 0]
  /\ passed = [t \in Threads |-> 0]
  /\ session = [t \in Threads |-> FALSE]

Next ==
  \E h \in Harts :
    \/ \E x \in Args : AllocAndRun(h, x)
    \/ \E id \in 0 .. NumThreads, x \in Args : ResumeFromRpc(h, id, x)
    \/ AllocRun(h) \/ ResumeRun(h)
    \/ Rpc(h) \/ ForeignInterrupt(h) \/ StateFree(h)
    \/ \E x \in Args : EnterUser(h, x)
    \/ Trap(h) \/ PopSession(h)

Spec == Init /\ [][Next]_vars

-----------------------------------------------------------------------------
(* The entry a hart holds: taken under the lock, or its curr_thread. *)
Owner(h) ==
  CASE hpc[h] \in {"alloc", "resume"} -> claim[h]
    [] hpc[h] = "run"                -> curr[h]
    [] OTHER                         -> Invalid

(* Every variable has its type; in particular l->curr_thread and the     *)
(* entry taken are always an index of threads[] or THREAD_ID_INVALID.    *)
TypeOK ==
  /\ state \in [Threads -> {"free", "active", "suspended"}]
  /\ flags \in [Threads -> SUBSET {CopyArgs, ForeignIntr}]
  /\ a0 \in [Threads -> Args \cup {0}]
  /\ tp \in [Threads -> Harts \cup {UserTp}]
  /\ curr \in [Harts -> Threads \cup {Invalid}]
  /\ claim \in [Harts -> Threads \cup {Invalid}]
  /\ umap \in [Harts -> Threads \cup {NoMap}]
  /\ session \in [Threads -> BOOLEAN]
  /\ calls \in 0 .. MaxCalls

(* An entry of threads[] is ACTIVE exactly when one hart holds it: the  *)
(* FREE and SUSPENDED tests under thread_lock_global() keep two harts    *)
(* from running one thread, whatever thread id the normal world passes  *)
(* to thread_resume_from_rpc(), and no entry is left ACTIVE unowned.     *)
ThreadExclusive ==
  \A t \in Threads :
    Cardinality({h \in Harts : Owner(h) = t}) = IF state[t] = "active" THEN 1 ELSE 0

(* A resumed thread sees the arguments of the normal world only after   *)
(* an RPC; after a foreign interrupt its interrupted a0 .. a3 come back  *)
(* unchanged ("must not get parameters from non-secure world"), however *)
(* the flags or-ed in by earlier suspensions accumulate, and also when   *)
(* the interrupt hit the TA entered with thread_enter_user_mode()'s a0.  *)
ResumeArgs ==
  \A h \in Harts :
    hpc[h] = "run" =>
      a0[curr[h]] = IF why[curr[h]] = "foreign" THEN saved[curr[h]] ELSE passed[curr[h]]

(* A thread running in kernel mode has tp pointing at the hart it runs   *)
(* on, also when thread_resume_from_rpc() resumes it on another hart     *)
(* than the one it was suspended on.                                      *)
TpIsOwnHart ==
  \A h \in Harts : hpc[h] = "run" /\ ~user[curr[h]] => tp[curr[h]] = h

(* The user mapping active on a hart is exactly that of the thread it   *)
(* runs while the thread's TA session is set: thread_state_suspend()     *)
(* saves and clears it when the thread leaves the hart, and               *)
(* thread_resume_from_rpc() restores it on whichever hart resumes the    *)
(* thread, so no hart keeps a stale map and no resumed TA runs unmapped. *)
UserMapIsOwn ==
  \A h \in Harts :
    umap[h] = IF hpc[h] = "run" /\ session[curr[h]] THEN curr[h] ELSE NoMap

=============================================================================
