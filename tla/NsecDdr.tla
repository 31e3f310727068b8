------------------------------- MODULE NsecDdr -------------------------------
(***************************************************************************)
(* What the non-secure DDR set-up promises (spec sections 4.2 and 6): the  *)
(* physical pages firmware reports as non-secure DDR lose every reserved   *)
(* window, in any order, and the set-up either finishes with pages that    *)
(* lie in the physical address space and meet no guarded region, or        *)
(* aborts, which it may only do on a layout defect: a guarded region or   *)
(* the end of the address space meets what the windows leave, or nothing  *)
(* is left.  Which windows are reserved is fixed at boot (a secure data   *)
(* path region comes from the device tree).  Ranges, sorting and splitting *)
(* are not visible here: the state is a set of pages.                      *)
(***************************************************************************)
EXTENDS Integers, FiniteSets

CONSTANTS
  InitialPages,  \* the page sets firmware may report
  WindowChoices, \* the sets of page sets that may have to become holes
  Guarded,       \* page sets of regions that must not meet the result
  PaSpace        \* first page outside the physical address space

VARIABLES
  pages,    \* the non-secure DDR pages kept so far
  windows,  \* the page sets that must become holes in this boot
  phase     \* "carving", "done" or "panic"

nvars == <<pages, windows, phase>>

(* The pages that remain once every window is carved. *)
Remaining == pages \ UNION windows

Carved == \A w \in windows : pages \cap w = {}
Excluded == \A g \in Guarded : pages \cap g = {}
InSpace == \A p \in pages : p < PaSpace

(* A layout defect the set-up is allowed to stop on. *)
Defect ==
  \/ \E g \in Guarded : Remaining \cap g # {}
  \/ \E p \in Remaining : p >= PaSpace
  \/ Remaining = {}

Init ==
  /\ pages \in InitialPages
  /\ windows \in WindowChoices
  /\ phase = "carving"

CarveOut(w) ==
  /\ phase = "carving"
  /\ pages' = pages \ w
  /\ UNCHANGED <<windows, phase>>

Finish ==
  /\ phase = "carving"
  /\ Carved /\ Excluded /\ InSpace
  /\ phase' = "done"
  /\ UNCHANGED <<pages, windows>>

Abort ==
  /\ phase = "carving"
  /\ Defect
  /\ phase' = "panic"
  /\ pages' \subseteq pages
  /\ UNCHANGED windows

Next ==
  \/ \E w \in windows : CarveOut(w)
  \/ Finish
  \/ Abort

Spec == Init /\ [][Next]_nvars

=============================================================================
