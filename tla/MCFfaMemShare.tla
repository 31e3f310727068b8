---------------------------- MODULE MCFfaMemShare ----------------------------
(***************************************************************************)
(* Model-checking instance of FfaMemShare.  Sizes are in address-range     *)
(* entries, two to a page.  A request is                                   *)
(* [tot, frag, bufPages, count, me, hdr, pages, regions].                 *)
(***************************************************************************)
EXTENDS FfaMemShare

(* lsp_head after spmc_init(): the OP-TEE core LSP with its UUID, then  *)
(* the SPMC LSP without one.                                              *)
MCLsps == <<"optee", NilUuid>>

(* Version words of FFA_MSG_VERSION_REQ: a matching major version with a *)
(* smaller and a larger minor, and another major version.                *)
MCVersions == {FfaVersion(1, 1), FfaVersion(1, 3), FfaVersion(2, 0)}

(* Two ranges after a one-entry header in a two-page buffer of its own:  *)
(* the first fragment carries one range.                                  *)
MCTmemFrag == [tot |-> 3, frag |-> 2, bufPages |-> 2, count |-> 1, me |-> 0,
               hdr |-> 1, pages |-> 2, regions |-> 2]

(* One range in one fragment, in a one-page buffer. *)
MCTmemWhole == [tot |-> 2, frag |-> 2, bufPages |-> 1, count |-> 1, me |-> 0,
                hdr |-> 1, pages |-> 1, regions |-> 1]

(* The fragmented descriptor passed through our RX buffer, for three pages. *)
MCRxFrag == [MCTmemFrag EXCEPT !.bufPages = 0, !.pages = 3]

(* More access descriptors than the fragment holds. *)
MCRxBadCount == [MCRxFrag EXCEPT !.count = 3]

(* A fragmented share in a one-page buffer of pages = bufPages. *)
MCTmemSmall == [tot |-> 3, frag |-> 2, bufPages |-> 1, count |-> 1, me |-> 0,
                hdr |-> 1, pages |-> 1, regions |-> 2]

MCReqs == {MCTmemFrag, MCTmemWhole, MCRxFrag, MCRxBadCount}
MCReqsSmall == {MCTmemSmall}
=============================================================================
