------------------------------- MODULE MCAuth -------------------------------
(***************************************************************************)
(* Instances of Auth for TLC.  Browsers are interchangeable.               *)
(***************************************************************************)
EXTENDS Auth, TLC

CONSTANTS b1, b2

Symmetry == Permutations({b1, b2})
=============================================================================
