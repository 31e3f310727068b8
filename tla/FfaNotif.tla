------------------------------ MODULE FfaNotif ------------------------------
(***************************************************************************)
(* FF-A notifications of the S-EL1 SPMC in thread_spmc.c, without         *)
(* CFG_NS_VIRTUALIZATION: the single struct notif_vm_bitmap of VM 0,      *)
(* changed by the normal world's FFA_NOTIFICATION_* calls, by the         *)
(* OPTEE_FFA_ENABLE_ASYNC_NOTIF direct request and by notif_send_async(),  *)
(* which OP-TEE threads call to ask for a bottom half once the            *)
(* NOTIF_EVENT_STARTED event has been delivered.  Every handler changes  *)
(* the bitmap under spmc_notif_lock with interrupts masked, so one       *)
(* handler is one step; the calls of several cores interleave.           *)
(*                                                                         *)
(* A notification bitmap is the set of its bit numbers.                   *)
(***************************************************************************)
EXTENDS Integers, FiniteSets

CONSTANTS
  VmIds,          \* vm_id values the normal world passes (0 is the only VM)
  Bits,           \* notification numbers the bitmaps range over
  MaxAsyncValue,  \* OPTEE_FFA_MAX_ASYNC_NOTIF_VALUE
  Values,         \* bottom_half_value arguments of ENABLE_ASYNC_NOTIF
  MaxCalls        \* bound on the number of calls

VARIABLES
  nvb,      \* default_notif_vm_bitmap: [initialized, dbh, pending, bound]
  ready,    \* spmc_notif_is_ready
  started,  \* the notif core got NOTIF_EVENT_STARTED and may send
  ret,      \* [fid, val] of the last call: "ok", "error" or "none"
  calls,    \* calls made
  failed,   \* the assertion in notif_send_async() failed
  sent      \* history: bottom-half bits set and not yet fetched by GET

vars == <<nvb, ready, started, ret, calls, failed, sent>>

FFA_INVALID_PARAMETERS == -2
FFA_DENIED == -6
FFA_NO_DATA == -7

(* memset() of the bitmap to zero *)
ZeroBitmap == [initialized |-> FALSE, dbh |-> 0, pending |-> {}, bound |-> {}]

(* get_notif_vm_bitmap(): only VM 0 has a bitmap. *)
HasBitmap(vm) == vm = 0

Ok == [fid |-> "ok", val |-> 0]
Err(v) == [fid |-> "error", val |-> v]

(* One call from the normal world or from an OP-TEE thread. *)
Call(r) ==
  /\ ~failed
  /\ calls < MaxCalls
  /\ calls' = calls + 1
  /\ ret' = r

-----------------------------------------------------------------------------
(* handle_notification_bitmap_create() *)
BitmapCreate(vm) ==
  /\ Call(IF ~HasBitmap(vm) THEN Err(FFA_INVALID_PARAMETERS)
          ELSE IF nvb.initialized THEN Err(FFA_DENIED) ELSE Ok)
  /\ nvb' = IF HasBitmap(vm) /\ ~nvb.initialized
            THEN [nvb EXCEPT !.initialized = TRUE, !.dbh = -1] ELSE nvb
  /\ UNCHANGED <<ready, started, failed, sent>>

(* Fault model of the destroy check: pending notifications are ignored. *)
DestroyBusyBoundOnly(b) == b.bound # {}

(* The bitmap still holds pending or bound notifications. *)
DestroyBusy(b) == b.pending # {} \/ b.bound # {}

(* handle_notification_bitmap_destroy() *)
BitmapDestroy(vm) ==
  /\ Call(IF ~HasBitmap(vm) THEN Err(FFA_INVALID_PARAMETERS)
          ELSE IF DestroyBusy(nvb) THEN Err(FFA_DENIED) ELSE Ok)
  /\ nvb' = IF HasBitmap(vm) /\ ~DestroyBusy(nvb) THEN ZeroBitmap ELSE nvb
  /\ UNCHANGED <<ready, started, failed, sent>>

(* handle_notification_bind(): only global notifications (flags 0), and *)
(* no bit may already be bound.                                         *)
Bind(vm, perVcpu, bm) ==
  /\ Call(IF perVcpu THEN Err(FFA_DENIED)
          ELSE IF ~HasBitmap(vm) THEN Err(FFA_INVALID_PARAMETERS)
          ELSE IF bm \cap nvb.bound # {} THEN Err(FFA_DENIED) ELSE Ok)
  /\ nvb' = IF ~perVcpu /\ HasBitmap(vm) /\ bm \cap nvb.bound = {}
            THEN [nvb EXCEPT !.bound = @ \cup bm] ELSE nvb
  /\ UNCHANGED <<ready, started, failed, sent>>

(* handle_notification_unbind(): refused while a bit is pending. *)
Unbind(vm, bm) ==
  /\ Call(IF ~HasBitmap(vm) THEN Err(FFA_INVALID_PARAMETERS)
          ELSE IF bm \cap nvb.pending # {} THEN Err(FFA_DENIED) ELSE Ok)
  /\ nvb' = IF HasBitmap(vm) /\ bm \cap nvb.pending = {}
            THEN [nvb EXCEPT !.bound = @ \ bm] ELSE nvb
  /\ UNCHANGED <<ready, started, failed, sent>>

(* handle_notification_get(): without the SP flag nothing is read;      *)
(* otherwise the pending bits are returned and cleared.                  *)
Get(vm, spFlag) ==
  /\ Call(IF ~spFlag THEN Ok
          ELSE IF ~HasBitmap(vm) THEN Err(FFA_INVALID_PARAMETERS)
          ELSE [fid |-> "ok", val |-> nvb.pending])
  /\ IF spFlag /\ HasBitmap(vm)
       THEN nvb' = [nvb EXCEPT !.pending = {}] /\ sent' = sent \ nvb.pending
       ELSE UNCHANGED <<nvb, sent>>
  /\ UNCHANGED <<ready, started, failed>>

(* handle_notification_info_get(): add_nvb_to_state() lists VM 0 when    *)
(* it has pending bits (one id in one list); FFA_NO_DATA otherwise.     *)
InfoGet ==
  /\ Call(IF nvb.pending = {} THEN Err(FFA_NO_DATA) ELSE [fid |-> "ok", val |-> {0}])
  /\ UNCHANGED <<nvb, ready, started, failed, sent>>

(* Fault model of spmc_enable_async_notif(): the range check is off by *)
(* one.                                                                  *)
ValidValueInclusive(v) == v <= MaxAsyncValue

(* bottom_half_value < OPTEE_FFA_MAX_ASYNC_NOTIF_VALUE *)
ValidValue(v) == v < MaxAsyncValue

(* handle_blocking_call(OPTEE_FFA_ENABLE_ASYNC_NOTIF) with                *)
(* spmc_enable_async_notif(): records the bottom-half value and delivers *)
(* NOTIF_EVENT_STARTED.                                                  *)
EnableAsyncNotif(vm, v) ==
  LET okCall == ready /\ ValidValue(v) /\ HasBitmap(vm)
  IN
  /\ Call(IF okCall THEN Ok ELSE Err("TEE_ERROR"))
  /\ nvb' = IF okCall THEN [nvb EXCEPT !.dbh = v] ELSE nvb
  /\ started' = (started \/ okCall)
  /\ UNCHANGED <<ready, failed, sent>>

(* notif_send_async(NOTIF_VALUE_DO_BOTTOM_HALF, 0) from an OP-TEE thread *)
(* once notifications are started: the assertion, then the pending bit  *)
(* and the SGI.                                                          *)
SendAsync ==
  /\ started
  /\ Call(Ok)
  /\ IF ready /\ nvb.dbh >= 0
       THEN /\ nvb' = [nvb EXCEPT !.pending = @ \cup {nvb.dbh}]
            /\ sent' = sent \cup {nvb.dbh}
            /\ UNCHANGED failed
       ELSE failed' = TRUE /\ UNCHANGED <<nvb, sent>>
  /\ UNCHANGED <<ready, started>>

(* The FFA_FEATURES arguments handle_features() tells apart: the         *)
(* schedule-receiver interrupt, FFA_RXTX_MAP, FFA_MEM_SHARE, one of the   *)
(* other interfaces it lists, and any other id.                           *)
FeatureIds == {"SCHEDULE_RECV_INTR", "RXTX_MAP", "MEM_SHARE", "listed", "other"}

FFA_NOT_SUPPORTED == -1

(* handle_features(): the interrupt id is only reported once              *)
(* thread_spmc_set_async_notif_intid() has run.                           *)
Features(fid) ==
  /\ Call(CASE fid = "SCHEDULE_RECV_INTR" ->
                 IF ready THEN [fid |-> "ok", val |-> "notif_intid"] ELSE Err(FFA_NOT_SUPPORTED)
            [] fid = "RXTX_MAP"  -> Ok
            [] fid = "MEM_SHARE" -> [fid |-> "ok", val |-> 1]
            [] fid = "listed"    -> Ok
            [] OTHER             -> Err(FFA_NOT_SUPPORTED))
  /\ UNCHANGED <<nvb, ready, started, failed, sent>>

(* The OPTEE_FFA_* services of a blocking direct request other than      *)
(* ENABLE_ASYNC_NOTIF (EnableAsyncNotif) and UNREGISTER_SHM (the FF-A    *)
(* shared-memory objects, not modelled here).                            *)
BlockingSvcs == {"GET_API_VERSION", "GET_OS_VERSION", "EXCHANGE_CAPABILITIES", "other"}

(* handle_blocking_call(): EXCHANGE_CAPABILITIES announces asynchronous  *)
(* notifications only when they are ready (without                        *)
(* CFG_RPMB_ANNOUNCE_PROBE_CAP); an unknown service is refused.            *)
BlockingCall(svc) ==
  /\ Call(CASE svc = "EXCHANGE_CAPABILITIES" ->
                 [fid |-> "ok", val |-> {"ARG_OFFSET"} \cup (IF ready THEN {"ASYNC_NOTIF"} ELSE {})]
            [] svc = "other" -> Err("TEE_ERROR_BAD_PARAMETERS")
            [] OTHER -> Ok)
  /\ UNCHANGED <<nvb, ready, started, failed, sent>>

Init ==
  /\ nvb = ZeroBitmap
  /\ ready \in BOOLEAN
  /\ started = FALSE
  /\ ret = [fid |-> "none", val |-> 0]
  /\ calls = 0
  /\ failed = FALSE
  /\ sent = {}

Next ==
  \/ \E vm \in VmIds :
       \/ BitmapCreate(vm)
       \/ BitmapDestroy(vm)
       \/ \E perVcpu \in BOOLEAN, bm \in SUBSET Bits \ {{}} : Bind(vm, perVcpu, bm)
       \/ \E bm \in SUBSET Bits \ {{}} : Unbind(vm, bm)
       \/ \E spFlag \in BOOLEAN : Get(vm, spFlag)
       \/ \E v \in Values : EnableAsyncNotif(vm, v)
  \/ InfoGet
  \/ SendAsync
  \/ \E fid \in FeatureIds : Features(fid)
  \/ \E svc \in BlockingSvcs : BlockingCall(svc)

Spec == Init /\ [][Next]_vars

-----------------------------------------------------------------------------
TypeOK ==
  /\ nvb.initialized \in BOOLEAN
  /\ nvb.dbh \in -1 .. MaxAsyncValue - 1
  /\ nvb.pending \subseteq Bits /\ nvb.bound \subseteq Bits
  /\ calls \in 0 .. MaxCalls
  /\ sent \subseteq Bits

(* No bottom-half request is lost: every bit notif_send_async() set is   *)
(* still pending until a FFA_NOTIFICATION_GET returns it, whatever       *)
(* BITMAP_DESTROY, UNBIND and the other calls do in between.             *)
NoLostNotification == sent \subseteq nvb.pending

(* The assertion of notif_send_async() holds: a bottom half is only      *)
(* requested once a valid bottom-half value is recorded, so the bit set *)
(* is BIT64(do_bottom_half_value) with a value >= 0.                    *)
SendAssertHolds == ~failed

=============================================================================
