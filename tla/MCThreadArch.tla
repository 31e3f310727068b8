---------------------------- MODULE MCThreadArch ----------------------------
EXTENDS ThreadArch, TLC

CONSTANTS h1, h2, tpUser

MCHarts == {h1, h2}

(* The harts are interchangeable: no action names one. *)
HartSymmetry == Permutations(MCHarts)
=============================================================================
